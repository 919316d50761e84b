-------------------------- MODULE OrganizerProofs --------------------------
(***************************************************************************)
(* Theorems about the organizer and the sweeps (Organizer), for any number *)
(* of recordings of a broadcast, of goroutines of each kind, of names and  *)
(* of crashes, and whatever fails or is held open.                         *)
(***************************************************************************)
EXTENDS Organizer, WellFoundedInduction, TLAPS

USE OrganizerAssumption

(* The steps of each operation.                                            *)
Finalizing == {"remux", "remuxing", "drop", "render", "pick", "claim", "move", "path", "sidecar",
               "complete"}
Named == {"claim", "move", "path", "sidecar", "complete"}
Purging == {"t_refuse", "t_sidecar", "t_claim", "t_move", "t_path", "t_state"}
Releasing == {"r_refuse", "r_media", "r_sidecar", "r_row"}
Encoding == {"c_encode", "c_encoding", "c_aside", "c_install", "c_mark", "c_clean"}
Sweeping == {"m_state", "m_refuse"}
Locking == Finalizing \cup Purging \cup Releasing \cup Encoding

(* What an operation is of, and that the row is there which it finalizes.  *)
JobOK(w) ==
  /\ op[w].pc # "idle" => op[w].rec \in Recording
  /\ op[w].pc \in Locking => op[w].path \in Path
  /\ op[w].pc \in Finalizing => w \notin Operator /\ Known(op[w].rec)
  /\ op[w].pc \in Named => \E n \in Names : op[w].target = NamePath(n)
  /\ op[w].pc \in Purging => w \in Operator
  /\ op[w].pc \in Releasing => /\ w \in Releaser
                               /\ ~Known(op[w].rec) \/ InState(op[w].rec, {"trashed", "missing"})
  /\ op[w].pc \in Encoding => w \notin Operator

(* Two workers of one process are at two recordings.                       *)
Apart ==
  \A v, w \in Worker :
     v # w /\ Organizer(v) = Organizer(w) /\ op[v].pc \in Locking /\ op[w].pc \in Locking =>
       op[v].rec # op[w].rec

JobInv == TypeOK /\ Apart /\ \A w \in Worker : JobOK(w)

(* What a step of a worker may do to a row, by where it stands.            *)
RowMoves(w, q) ==
  \/ rows'[q] = rows[q]
  \/ /\ q = op[w].rec /\ Known(q)
     /\ \/ Known(q)' /\ rows'[q].state = rows[q].state
        \/ op[w].pc \in Finalizing /\ Known(q)' /\ rows'[q].state \notin {"trashed", "missing"}
        \/ At(w, "t_state") /\ Known(q)' /\ rows'[q].state = "trashed"
        \/ At(w, "m_state") /\ Known(q)' /\ rows'[q].state = "missing" /\ At(w, "m_refuse")'
        \/ At(w, "r_row") /\ ~Known(q)'
  \/ q = op[w].rec /\ At(w, "r_row") /\ ~Known(q) /\ ~Known(q)'

(* A step of a worker: its own operation goes on, ends, or begins at a     *)
(* recording nobody in its process is at, and the rest of them rest.       *)
Moves(w) ==
  /\ TypeOK' /\ \A v \in Worker \ {w} : op'[v] = op[v]
  /\ JobOK(w)'
  /\ \A q \in Recording : RowMoves(w, q)
  /\ refused \in BOOLEAN /\ (refused => refused') /\ crashes' = crashes
  /\ op'[w].pc \in Locking =>
       \/ /\ op[w].pc \in Locking /\ op'[w].rec = op[w].rec
          /\ \A part \in {Finalizing, Purging, Releasing, Encoding} : op[w].pc \in part <=> op'[w].pc \in part
       \/ /\ op[w].pc = "idle" /\ ~Busy(w, op'[w].rec)
          /\ op'[w].pc \in Releasing => InState(op'[w].rec, {"trashed"})
          /\ op'[w].pc \in Purging => op'[w].pc = "t_refuse"
  /\ op'[w].pc \in Purging \ {"t_refuse"} =>
       \/ op[w].pc \in Purging \ {"t_refuse"}
       \/ At(w, "t_refuse") /\ RefuseUnlessHeld(Recording \ {op[w].rec})
  /\ At(w, "m_refuse") => StoreFails \/ RefuseUnlessHeld(Recording)

----------------------------------------------------------------------------
(* Names and what lies at them *)

LEMMA HasLeast ==
  ASSUME NEW S \in SUBSET Nat, S # {}
  PROVE  \E x \in S : \A y \in S : x <= y
<1>1. IsWellFoundedOn(OpToRel(<, Nat), Nat)
  BY NatLessThanWellFounded
<1>2. PICK x \in S : \A y \in S : <<y, x>> \notin OpToRel(<, Nat)
  BY ONLY <1>1, WFMin, S \in SUBSET Nat, S # {}
<1>3. \A y \in S : x <= y
  <2> SUFFICES ASSUME NEW y \in S PROVE ~ (y < x)
    OBVIOUS
  <2>1. <<y, x>> \notin OpToRel(<, Nat)
    BY <1>2
  <2>2. OpToRel(<, Nat) = {ss \in Nat \X Nat : ss[1] < ss[2]}
    BY DEF OpToRel
  <2> QED
    BY <2>1, <2>2
<1> QED
  BY <1>2, <1>3

LEMMA FirstIsIn ==
  ASSUME NEW names \in SUBSET Names, names # {}
  PROVE  First(names) \in names /\ \A m \in names : First(names) <= m
<1>1. names \in SUBSET Nat
  BY DEF Names
<1> QED
  BY <1>1, HasLeast DEF First

LEMMA PathFacts ==
  /\ \A r \in Recording : CapturePath(r) \in Path /\ RemuxPath(r) \in Path /\ TrashPath(r) \in Path
  /\ \A n \in Names : NamePath(n) \in Path /\ NamePath(n)[2] = n
  /\ \A p \in Path : EncodePath(p) \in Path /\ AsidePath(p) \in Path /\ OriginalPath(p) \in Path
  BY DEF Path, CapturePath, RemuxPath, TrashPath, NamePath, EncodePath, AsidePath, OriginalPath

(* What one file operation leaves at every path.                           *)
LEMMA FilesTyped ==
  ASSUME files \in [Path -> Content], NEW p, NEW q
  PROVE  /\ \A c \in Content : [files EXCEPT ![p] = c] \in [Path -> Content]
         /\ Remove(p) => files' \in [Path -> Content]
         /\ q \in Path /\ Move(q, p) => files' \in [Path -> Content]
  BY DEF Remove, Move, Content

LEMMA Steps ==
  /\ Locking \subseteq Step /\ Sweeping \subseteq Step /\ Named \subseteq Finalizing
  /\ Idle \in Op /\ Idle.pc = "idle" /\ Idle.pc \notin Locking \cup Sweeping
  BY DEF Locking, Sweeping, Step, Named, Finalizing, Purging, Releasing, Encoding, Idle, Op

(* How an operation goes on and ends.                                      *)
LEMMA GoesOn ==
  ASSUME op \in [Worker -> Op], NEW w \in Worker
  PROVE  /\ op[w] \in Op
         /\ \A pc \in Step : Goto(w, pc) =>
              /\ op' \in [Worker -> Op] /\ \A v \in Worker \ {w} : op'[v] = op[v]
              /\ op'[w].pc = pc /\ op'[w].rec = op[w].rec /\ op'[w].path = op[w].path
              /\ op'[w].target = op[w].target
         /\ End(w) => /\ op' \in [Worker -> Op] /\ \A v \in Worker \ {w} : op'[v] = op[v]
                      /\ op'[w] = Idle
<1>1. op[w] \in Op
  OBVIOUS
<1>2. ASSUME NEW pc \in Step, Goto(w, pc)
      PROVE  /\ op' \in [Worker -> Op] /\ \A v \in Worker \ {w} : op'[v] = op[v]
             /\ op'[w].pc = pc /\ op'[w].rec = op[w].rec /\ op'[w].path = op[w].path
             /\ op'[w].target = op[w].target
  <2> DEFINE o == [op[w] EXCEPT !.pc = pc]
  <2>1. o \in Op /\ o.pc = pc /\ o.rec = op[w].rec /\ o.path = op[w].path /\ o.target = op[w].target
    BY <1>1 DEF Op
  <2>2. op' = [op EXCEPT ![w] = o]
    BY <1>2 DEF Goto
  <2> HIDE DEF o
  <2> QED
    BY <2>1, <2>2
<1>3. ASSUME End(w)
      PROVE  op' \in [Worker -> Op] /\ (\A v \in Worker \ {w} : op'[v] = op[v]) /\ op'[w] = Idle
  BY <1>3, Steps DEF End
<1> QED
  BY <1>1, <1>2, <1>3

LEMMA Begins ==
  ASSUME TypeOK, NEW w \in Worker, NEW r \in Recording, Known(r), NEW pc \in Step, Begin(w, r, pc)
  PROVE  /\ op' \in [Worker -> Op] /\ \A v \in Worker \ {w} : op'[v] = op[v]
         /\ op'[w].pc = pc /\ op'[w].rec = r /\ op'[w].path = rows[r].path /\ rows[r].path \in Path
<1>1. rows[r] \in Row /\ rows[r].path \in Path
  BY DEF TypeOK, Known, Row
<1>2. /\ \A x \in Op : LET y == [x EXCEPT !.pc = pc] IN y \in Op /\ y.pc = pc
      /\ \A x \in Op : LET y == [x EXCEPT !.rec = r] IN y \in Op /\ y.pc = x.pc /\ y.rec = r
      /\ \A x \in Op, p \in Path : LET y == [x EXCEPT !.path = p]
                                 IN  y \in Op /\ y.pc = x.pc /\ y.rec = x.rec /\ y.path = p
  BY DEF Op
<1> DEFINE first == [Idle EXCEPT !.pc = pc]
           then == [first EXCEPT !.rec = r]
           last == [then EXCEPT !.path = rows[r].path]
<1>3. last \in Op /\ last.pc = pc /\ last.rec = r /\ last.path = rows[r].path
  <2>1. first \in Op /\ first.pc = pc
    BY <1>2, Steps
  <2> HIDE DEF first
  <2>2. then \in Op /\ then.pc = pc /\ then.rec = r
    BY <1>2, <2>1
  <2> HIDE DEF then
  <2> QED
    BY <1>1, <1>2, <2>2
<1>4. op' = [op EXCEPT ![w] = last] /\ op \in [Worker -> Op]
  BY DEF Begin, TypeOK
<1> HIDE DEF last
<1> QED
  BY <1>1, <1>3, <1>4

(* What becomes of a row that is there.                                    *)
LEMMA RowChanges ==
  ASSUME TypeOK, NEW r \in Recording, Known(r)
  PROVE  /\ \A state \in State : SetState(r, state) =>
              /\ rows' \in [Recording -> Row \cup {NoRow}] /\ \A q \in Recording \ {r} : rows'[q] = rows[q]
              /\ Known(r)' /\ rows'[r].state = state
         /\ \A path \in Path : SetPath(r, path) =>
              /\ rows' \in [Recording -> Row \cup {NoRow}] /\ \A q \in Recording \ {r} : rows'[q] = rows[q]
              /\ Known(r)' /\ rows'[r].state = rows[r].state
         /\ rows' = [rows EXCEPT ![r].recompressed = TRUE] =>
              /\ rows' \in [Recording -> Row \cup {NoRow}] /\ \A q \in Recording \ {r} : rows'[q] = rows[q]
              /\ Known(r)' /\ rows'[r].state = rows[r].state
<1>1. rows \in [Recording -> Row \cup {NoRow}] /\ rows[r] \in Row
  BY DEF TypeOK, Known
<1>2. ASSUME NEW row \in Row, rows' = [rows EXCEPT ![r] = row]
      PROVE  /\ rows' \in [Recording -> Row \cup {NoRow}] /\ \A q \in Recording \ {r} : rows'[q] = rows[q]
             /\ Known(r)' /\ rows'[r] = row
  BY <1>1, <1>2 DEF Known
<1>3. ASSUME NEW state \in State, SetState(r, state)
      PROVE  /\ rows' \in [Recording -> Row \cup {NoRow}] /\ \A q \in Recording \ {r} : rows'[q] = rows[q]
             /\ Known(r)' /\ rows'[r].state = state
  <2> DEFINE new == [rows[r] EXCEPT !.state = state]
  <2>1. new \in Row /\ new.state = state
    BY <1>1 DEF Row
  <2>2. rows' = [rows EXCEPT ![r] = new]
    BY <1>3 DEF SetState
  <2> HIDE DEF new
  <2> QED
    BY <1>2, <2>1, <2>2
<1>4. ASSUME NEW path \in Path, SetPath(r, path)
      PROVE  /\ rows' \in [Recording -> Row \cup {NoRow}] /\ \A q \in Recording \ {r} : rows'[q] = rows[q]
             /\ Known(r)' /\ rows'[r].state = rows[r].state
  <2> DEFINE new == [rows[r] EXCEPT !.path = path]
  <2>1. new \in Row /\ new.state = rows[r].state
    BY <1>1 DEF Row
  <2>2. rows' = [rows EXCEPT ![r] = new]
    BY <1>4 DEF SetPath
  <2> HIDE DEF new
  <2> QED
    BY <1>2, <2>1, <2>2
<1>5. ASSUME rows' = [rows EXCEPT ![r].recompressed = TRUE]
      PROVE  /\ rows' \in [Recording -> Row \cup {NoRow}] /\ \A q \in Recording \ {r} : rows'[q] = rows[q]
             /\ Known(r)' /\ rows'[r].state = rows[r].state
  <2> DEFINE new == [rows[r] EXCEPT !.recompressed = TRUE]
  <2>1. new \in Row /\ new.state = rows[r].state
    BY <1>1 DEF Row
  <2>2. rows' = [rows EXCEPT ![r] = new]
    BY <1>5
  <2> HIDE DEF new
  <2> QED
    BY <1>2, <2>1, <2>2
<1> QED
  BY <1>3, <1>4, <1>5

----------------------------------------------------------------------------
(* What follows of a step once its parts are known *)

Goes(w, pc) ==
  /\ op' \in [Worker -> Op] /\ \A v \in Worker \ {w} : op'[v] = op[v]
  /\ op'[w].pc = pc /\ op'[w].rec = op[w].rec /\ op'[w].path \in Path

Ends(w) ==
  op' \in [Worker -> Op] /\ (\A v \in Worker \ {w} : op'[v] = op[v]) /\ op'[w] = Idle

LEMMA TypeKept ==
  ASSUME TypeOK, rows' \in [Recording -> Row \cup {NoRow}], files' \in [Path -> Content],
         sidecars' \subseteq Path, refused' \in BOOLEAN,
         failures' \in [Recording -> 0 .. MaxRemuxAttempts - 1], op' \in [Worker -> Op],
         fresh' \subseteq Recording, parked' \subseteq Recording,
         listed' \in [Recording -> Path \cup {NoPath}], condemned' \subseteq Recording,
         UNCHANGED <<titled, crashes, erased>>
  PROVE  TypeOK'
  BY DEF TypeOK

LEMMA Parts ==
  /\ Finalizing \cap (Purging \cup Releasing \cup Encoding \cup Sweeping) = {}
  /\ Purging \cap (Releasing \cup Encoding \cup Sweeping) = {} /\ Releasing \cap (Encoding \cup Sweeping) = {}
  /\ Encoding \cap Sweeping = {} /\ "idle" \notin Locking \cup Sweeping
  /\ Step = Locking \cup Sweeping \cup {"idle"}
  BY DEF Locking, Sweeping, Step, Finalizing, Purging, Releasing, Encoding

(* The file, the store or the tool ends it.                                *)
LEMMA WorkEnds ==
  ASSUME JobInv, NEW w \in Worker, Ends(w), TypeOK', \A q \in Recording : RowMoves(w, q),
         refused => refused', crashes' = crashes,
         At(w, "m_refuse") => StoreFails \/ RefuseUnlessHeld(Recording)
  PROVE  Moves(w)
<1>1. op'[w].pc = "idle" /\ op'[w].pc \notin Locking \cup Sweeping
  BY Steps DEF Ends
<1>2. JobOK(w)'
  BY <1>1, Steps DEF JobOK, Locking
<1>3. refused \in BOOLEAN
  BY DEF JobInv, TypeOK
<1> QED
  BY <1>1, <1>2, <1>3 DEF Moves, Ends, Locking

(* A step within one operation.                                            *)
LEMMA WorkGoes ==
  ASSUME JobInv, NEW w \in Worker, NEW part \in {Finalizing, Purging, Releasing, Encoding},
         op[w].pc \in part, NEW pc \in part, Goes(w, pc), TypeOK', \A q \in Recording : RowMoves(w, q),
         NEW r, op[w].rec = r,
         part = Finalizing => Known(r)' /\ (pc \in Named => \E n \in Names : op'[w].target = NamePath(n)),
         part = Releasing => ~Known(r)' \/ InState(r, {"trashed", "missing"})',
         refused => refused', crashes' = crashes,
         part = Purging => \/ op[w].pc # "t_refuse" \/ RefuseUnlessHeld(Recording \ {op[w].rec})
  PROVE  Moves(w)
<1>1. JobOK(w) /\ refused \in BOOLEAN
  BY DEF JobInv, TypeOK
<1>2. op[w].pc \in Locking /\ pc \in Locking /\ pc # "idle" /\ op[w].pc \notin Sweeping
  BY Parts DEF Locking
<1>3. \A other \in {Finalizing, Purging, Releasing, Encoding} : op[w].pc \in other <=> pc \in other
  BY Parts
<1>4. r \in Recording
  BY <1>1, <1>2, Parts DEF JobOK
<1>5. JobOK(w)'
  <2>1. op'[w].rec = r /\ op'[w].path \in Path /\ op'[w].pc = pc
    BY DEF Goes
  <2>2. op'[w].pc \in Finalizing => w \notin Operator /\ Known(r)'
    BY <1>1, <1>3, <2>1, Parts DEF JobOK
  <2>3. op'[w].pc \in Named => \E n \in Names : op'[w].target = NamePath(n)
    BY <1>3, <2>1, Steps, Parts
  <2>4. op'[w].pc \in Purging => w \in Operator
    BY <1>1, <1>3, <2>1 DEF JobOK
  <2>5. op'[w].pc \in Releasing => w \in Releaser /\ (~Known(r)' \/ InState(r, {"trashed", "missing"})')
    BY <1>1, <1>3, <2>1, Parts DEF JobOK
  <2>6. op'[w].pc \in Encoding => w \notin Operator
    BY <1>1, <1>3, <2>1 DEF JobOK
  <2> QED
    BY <1>4, <2>1, <2>2, <2>3, <2>4, <2>5, <2>6 DEF JobOK, Known, InState
<1>6. op'[w].pc \in Purging \ {"t_refuse"} =>
        \/ op[w].pc \in Purging \ {"t_refuse"}
        \/ At(w, "t_refuse") /\ RefuseUnlessHeld(Recording \ {op[w].rec})
  BY <1>3, Parts DEF Goes, At
<1>7. ~At(w, "m_refuse")
  BY <1>2 DEF At, Sweeping
<1>8. /\ op'[w].pc = pc /\ op'[w].rec = op[w].rec /\ \A v \in Worker \ {w} : op'[v] = op[v]
  BY DEF Goes
<1> QED
  BY <1>1, <1>2, <1>3, <1>5, <1>6, <1>7, <1>8 DEF Moves

LEMMA Untouched ==
  ASSUME NEW w, UNCHANGED rows
  PROVE  \A q \in Recording : RowMoves(w, q)
  BY DEF RowMoves

(* A finalize whose row says that it is or is not in the library.          *)
LEMMA FinalizeRow ==
  ASSUME JobInv, NEW w \in Worker, op[w].pc \in Finalizing, NEW r, op[w].rec = r
  PROVE  /\ r \in Recording /\ Known(r) /\ op[w].path \in Path
         /\ UNCHANGED rows => /\ rows' \in [Recording -> Row \cup {NoRow}] /\ Known(r)'
                              /\ \A q \in Recording : RowMoves(w, q)
         /\ \A state \in State \ {"trashed", "missing"} : SetState(r, state) =>
              /\ rows' \in [Recording -> Row \cup {NoRow}] /\ Known(r)'
              /\ \A q \in Recording : RowMoves(w, q)
         /\ \A path \in Path : SetPath(r, path) =>
              /\ rows' \in [Recording -> Row \cup {NoRow}] /\ Known(r)'
              /\ \A q \in Recording : RowMoves(w, q)
         /\ ChargeRemux(r) =>
              /\ rows' \in [Recording -> Row \cup {NoRow}] /\ Known(r)'
              /\ failures' \in [Recording -> 0 .. MaxRemuxAttempts - 1]
              /\ \A q \in Recording : RowMoves(w, q)
<1>1. r \in Recording /\ Known(r) /\ op[w].path \in Path
  BY Parts DEF JobInv, JobOK, Locking
<1>2. ASSUME UNCHANGED rows
      PROVE  /\ rows' \in [Recording -> Row \cup {NoRow}] /\ Known(r)'
             /\ \A q \in Recording : RowMoves(w, q)
  BY <1>1, <1>2, Untouched DEF JobInv, TypeOK, Known
<1>3. ASSUME NEW state \in State \ {"trashed", "missing"}, SetState(r, state)
      PROVE  /\ rows' \in [Recording -> Row \cup {NoRow}] /\ Known(r)'
             /\ \A q \in Recording : RowMoves(w, q)
  <2>1. /\ rows' \in [Recording -> Row \cup {NoRow}] /\ \A q \in Recording \ {r} : rows'[q] = rows[q]
        /\ Known(r)' /\ rows'[r].state = state
    BY <1>1, <1>3, RowChanges DEF JobInv
  <2>2. \A q \in Recording : RowMoves(w, q)
    BY <1>1, <2>1 DEF RowMoves
  <2> QED
    BY <2>1, <2>2
<1>4. ASSUME NEW path \in Path, SetPath(r, path)
      PROVE  /\ rows' \in [Recording -> Row \cup {NoRow}] /\ Known(r)'
             /\ \A q \in Recording : RowMoves(w, q)
  <2>1. /\ rows' \in [Recording -> Row \cup {NoRow}] /\ \A q \in Recording \ {r} : rows'[q] = rows[q]
        /\ Known(r)' /\ rows'[r].state = rows[r].state
    BY <1>1, <1>4, RowChanges DEF JobInv
  <2>2. \A q \in Recording : RowMoves(w, q)
    BY <1>1, <2>1 DEF RowMoves
  <2> QED
    BY <2>1, <2>2
<1>5. ASSUME ChargeRemux(r)
      PROVE  /\ rows' \in [Recording -> Row \cup {NoRow}] /\ Known(r)'
             /\ failures' \in [Recording -> 0 .. MaxRemuxAttempts - 1]
             /\ \A q \in Recording : RowMoves(w, q)
  <2>1. failures \in [Recording -> 0 .. MaxRemuxAttempts - 1] /\ failures[r] \in Nat
    BY <1>1 DEF JobInv, TypeOK
  <2>2. CASE failures[r] + 1 >= MaxRemuxAttempts
    <3>1. failures' = [failures EXCEPT ![r] = 0] /\ SetState(r, "failed")
      BY <1>5, <2>2 DEF ChargeRemux
    <3>2. "failed" \in State \ {"trashed", "missing"}
      BY DEF State
    <3>3. 0 \in 0 .. MaxRemuxAttempts - 1
      OBVIOUS
    <3>4. failures' \in [Recording -> 0 .. MaxRemuxAttempts - 1]
      BY ONLY <1>1, <2>1, <3>1, <3>3
    <3> QED
      BY <1>3, <3>1, <3>2, <3>4
  <2>3. CASE ~(failures[r] + 1 >= MaxRemuxAttempts)
    <3>1. failures' = [failures EXCEPT ![r] = @ + 1] /\ UNCHANGED rows
      BY <1>5, <2>3 DEF ChargeRemux
    <3>2. failures[r] + 1 \in 0 .. MaxRemuxAttempts - 1
      BY <1>1, <2>1, <2>3
    <3>3. failures' \in [Recording -> 0 .. MaxRemuxAttempts - 1]
      BY ONLY <1>1, <2>1, <3>1, <3>2
    <3> QED
      BY <1>2, <3>1, <3>3
  <2> QED
    BY <2>2, <2>3
<1> QED
  BY <1>1, <1>2, <1>3, <1>4, <1>5

----------------------------------------------------------------------------
(* The steps of each operation *)

(* A step that names where it goes or ends.                                *)
LEMMA StepIs ==
  ASSUME JobInv, NEW w \in Worker
  PROVE  /\ \A pc \in Step : Goto(w, pc) /\ op[w].path \in Path => Goes(w, pc) /\ op'[w].target = op[w].target
         /\ End(w) => Ends(w)
  BY GoesOn DEF JobInv, TypeOK, Goes, Ends

LEMMA OpFields ==
  /\ \A x \in Op, pc \in Step : LET y == [x EXCEPT !.pc = pc]
       IN  y \in Op /\ y.pc = pc /\ y.rec = x.rec /\ y.path = x.path /\ y.target = x.target
  /\ \A x \in Op, p \in Path : LET y == [x EXCEPT !.path = p]
       IN  y \in Op /\ y.pc = x.pc /\ y.rec = x.rec /\ y.path = p /\ y.target = x.target
  /\ \A x \in Op, p \in Path \cup {NoPath} : LET y == [x EXCEPT !.target = p]
       IN  y \in Op /\ y.pc = x.pc /\ y.rec = x.rec /\ y.path = x.path /\ y.target = p
  /\ \A x \in Op, n \in Names : LET y == [x EXCEPT !.taken = @ \cup {n}]
       IN  y \in Op /\ y.pc = x.pc /\ y.rec = x.rec /\ y.path = x.path /\ y.target = x.target
  BY DEF Op

LEMMA Replaced ==
  ASSUME JobInv, NEW w \in Worker, NEW o \in Op, op' = [op EXCEPT ![w] = o]
  PROVE  op' \in [Worker -> Op] /\ (\A v \in Worker \ {w} : op'[v] = op[v]) /\ op'[w] = o
  BY DEF JobInv, TypeOK

LEMMA FinalizeMoves ==
  ASSUME JobInv, NEW w \in Worker, FinalizeStep(w)
  PROVE  Moves(w)
<1>1. /\ TypeOK /\ op \in [Worker -> Op] /\ files \in [Path -> Content] /\ rows \in [Recording -> Row \cup {NoRow}]
      /\ refused \in BOOLEAN /\ failures \in [Recording -> 0 .. MaxRemuxAttempts - 1]
      /\ sidecars \subseteq Path /\ fresh \subseteq Recording /\ parked \subseteq Recording
      /\ listed \in [Recording -> Path \cup {NoPath}] /\ condemned \subseteq Recording
  BY DEF JobInv, TypeOK
<1>2. op[w].pc \in Finalizing
  BY DEF FinalizeStep, RemuxBegins, RemuxCommits, RemuxFails, RemuxToolMissing, CaptureDropped, Render,
         PickName, ClaimName, MoveIntoLibrary, StorePath, WriteSidecar, Complete, At, Finalizing
<1>3. PICK r : op[w].rec = r
  OBVIOUS
<1>4. /\ r \in Recording /\ Known(r) /\ op[w].path \in Path
      /\ UNCHANGED rows => /\ rows' \in [Recording -> Row \cup {NoRow}] /\ Known(r)'
                           /\ \A q \in Recording : RowMoves(w, q)
      /\ \A state \in State \ {"trashed", "missing"} : SetState(r, state) =>
           /\ rows' \in [Recording -> Row \cup {NoRow}] /\ Known(r)'
           /\ \A q \in Recording : RowMoves(w, q)
      /\ \A path \in Path : SetPath(r, path) =>
           /\ rows' \in [Recording -> Row \cup {NoRow}] /\ Known(r)'
           /\ \A q \in Recording : RowMoves(w, q)
      /\ ChargeRemux(r) =>
           /\ rows' \in [Recording -> Row \cup {NoRow}] /\ Known(r)'
           /\ failures' \in [Recording -> 0 .. MaxRemuxAttempts - 1]
           /\ \A q \in Recording : RowMoves(w, q)
  BY <1>2, <1>3, FinalizeRow
<1>5. ~At(w, "m_refuse") /\ Absent \in Content /\ Partial \in Content /\ Placeholder \in Content
  BY <1>2 DEF At, Finalizing, Content
<1>6. Finalizing \subseteq Step
  BY Steps DEF Locking
<1>7. RemuxPath(r) \in Path
  BY <1>4, PathFacts
(* What is left to show of a step: that it ends, or where it goes.         *)
<1>8. ASSUME Ends(w), rows' \in [Recording -> Row \cup {NoRow}], \A q \in Recording : RowMoves(w, q),
             files' \in [Path -> Content], failures' \in [Recording -> 0 .. MaxRemuxAttempts - 1],
             sidecars' \subseteq Path,
             UNCHANGED <<refused, titled, fresh, parked, listed, crashes, condemned, erased>>
      PROVE  Moves(w)
  <2>1. TypeOK'
    BY <1>1, <1>8, TypeKept DEF Ends
  <2> QED
    BY <1>5, <1>8, <2>1, WorkEnds
<1>9. ASSUME NEW pc \in Finalizing, Goes(w, pc), pc \in Named => \E n \in Names : op'[w].target = NamePath(n),
             rows' \in [Recording -> Row \cup {NoRow}], \A q \in Recording : RowMoves(w, q), Known(r)',
             files' \in [Path -> Content], failures' \in [Recording -> 0 .. MaxRemuxAttempts - 1],
             sidecars' \subseteq Path,
             UNCHANGED <<refused, titled, fresh, parked, listed, crashes, condemned, erased>>
      PROVE  Moves(w)
  <2>1. TypeOK'
    BY <1>1, <1>9, TypeKept DEF Goes
  <2>2. Finalizing # Releasing /\ Finalizing # Purging
    BY Parts DEF Finalizing
  <2> QED
    BY <1>2, <1>3, <1>9, <2>1, <2>2, WorkGoes
<1>10. ASSUME RemuxBegins(w) PROVE Moves(w)
  <2>1. /\ UNCHANGED <<rows, sidecars, refused, titled, failures, fresh, parked, listed, crashes, condemned, erased>>
        /\ files' \in [Path -> Content] /\ (Goto(w, "remuxing") \/ End(w))
    BY <1>1, <1>5, <1>10, FilesTyped DEF RemuxBegins
  <2>2. Goes(w, "remuxing") \/ Ends(w)
    BY <1>4, <1>6, <2>1, StepIs DEF Finalizing
  <2>3. "remuxing" \in Finalizing /\ "remuxing" \notin Named
    BY DEF Finalizing, Named
  <2> QED
    BY <1>1, <1>4, <1>8, <1>9, <2>1, <2>2, <2>3
<1>11. ASSUME RemuxCommits(w) PROVE Moves(w)
  <2>1. /\ UNCHANGED <<sidecars, refused, titled, failures, fresh, parked, listed, crashes, condemned, erased>>
        /\ SetPath(r, RemuxPath(r)) /\ Goto(w, "drop")
        /\ files' = [files EXCEPT ![RemuxPath(r)] = files[op[w].path]] /\ files[op[w].path] \in Content
    BY <1>1, <1>3, <1>4, <1>11 DEF RemuxCommits
  <2>2. files' \in [Path -> Content]
    BY <1>1, <2>1, FilesTyped
  <2>3. "drop" \in Finalizing /\ "drop" \notin Named
    BY DEF Finalizing, Named
  <2>4. Goes(w, "drop")
    BY <1>4, <1>6, <2>1, <2>3, StepIs
  <2> QED
    BY <1>1, <1>4, <1>7, <1>9, <2>1, <2>2, <2>3, <2>4
<1>12. ASSUME RemuxFails(w) PROVE Moves(w)
  <2>1. /\ UNCHANGED <<sidecars, refused, titled, fresh, parked, listed, crashes, condemned, erased>>
        /\ Remove(RemuxPath(r)) /\ ChargeRemux(r) /\ End(w)
    BY <1>3, <1>12 DEF RemuxFails
  <2>2. files' \in [Path -> Content] /\ Ends(w)
    BY <1>1, <2>1, FilesTyped, StepIs
  <2> QED
    BY <1>1, <1>4, <1>8, <2>1, <2>2
<1>13. ASSUME RemuxToolMissing(w) PROVE Moves(w)
  <2>1. /\ UNCHANGED <<rows, sidecars, refused, titled, failures, fresh, parked, listed, crashes, condemned, erased>>
        /\ Remove(RemuxPath(r)) /\ End(w)
    BY <1>3, <1>13 DEF RemuxToolMissing
  <2>2. files' \in [Path -> Content] /\ Ends(w)
    BY <1>1, <2>1, FilesTyped, StepIs
  <2> QED
    BY <1>1, <1>4, <1>8, <2>1, <2>2
<1>14. ASSUME CaptureDropped(w) PROVE Moves(w)
  <2>1. UNCHANGED <<sidecars, refused, titled, fresh, parked, listed, crashes, condemned, erased>>
    BY <1>14 DEF CaptureDropped
  <2>2. CASE /\ Remove(op[w].path) /\ failures' = [failures EXCEPT ![r] = 0] /\ UNCHANGED rows
             /\ op' = [op EXCEPT ![w].pc = "render", ![w].path = RemuxPath(r)]
    <3> DEFINE x == [op[w] EXCEPT !.pc = "render"]
               y == [x EXCEPT !.path = RemuxPath(r)]
    <3>1. "render" \in Finalizing /\ "render" \notin Named /\ "render" \in Step
      BY DEF Finalizing, Named, Step
    <3>2. x \in Op /\ x.pc = "render" /\ x.rec = r
      BY <1>1, <1>3, <3>1, OpFields
    <3>3. y \in Op /\ y.pc = "render" /\ y.rec = r /\ y.path = RemuxPath(r)
      <4> HIDE DEF x
      <4> QED
        BY <1>7, <3>2, OpFields
    <3>4. op' = [op EXCEPT ![w] = y]
      BY <2>2
    <3>5. Goes(w, "render")
      <4> HIDE DEF y
      <4> QED
        BY <1>3, <1>7, <3>3, <3>4, Replaced DEF Goes
    <3>6. files' \in [Path -> Content]
      BY <1>1, <2>2, FilesTyped
    <3>7. failures' \in [Recording -> 0 .. MaxRemuxAttempts - 1]
      <4>1. 0 \in 0 .. MaxRemuxAttempts - 1
        OBVIOUS
      <4> QED
        BY ONLY <1>1, <2>2, <4>1
    <3> QED
      BY <1>4, <1>9, <2>1, <2>2, <3>1, <3>5, <3>6, <3>7, <1>1
  <2>3. CASE ChargeRemux(r) /\ End(w) /\ UNCHANGED files
    <3>1. Ends(w)
      BY <2>3, StepIs
    <3> QED
      BY <1>1, <1>4, <1>8, <2>1, <2>3, <3>1
  <2> QED
    BY <1>3, <1>14, <2>2, <2>3 DEF CaptureDropped
<1>15. ASSUME Render(w) PROVE Moves(w)
  <2>1. UNCHANGED <<files, sidecars, refused, titled, failures, fresh, parked, listed, crashes, condemned, erased>>
    BY <1>15 DEF Render
  <2>2. CASE UNCHANGED rows /\ Goto(w, "pick")
    <3>1. "pick" \in Finalizing /\ "pick" \notin Named
      BY DEF Finalizing, Named
    <3>2. Goes(w, "pick")
      BY <1>4, <1>6, <2>2, <3>1, StepIs
    <3> QED
      BY <1>1, <1>4, <1>9, <2>1, <2>2, <3>1, <3>2
  <2>3. CASE SetState(r, "awaiting_metadata") /\ End(w)
    <3>1. "awaiting_metadata" \in State \ {"trashed", "missing"} /\ Ends(w)
      BY <2>3, StepIs DEF State
    <3> QED
      BY <1>1, <1>4, <1>8, <2>1, <2>3, <3>1
  <2> QED
    BY <1>3, <1>15, <2>2, <2>3 DEF Render
<1>16. ASSUME PickName(w) PROVE Moves(w)
  <2> DEFINE names == IF Present(op[w].path) THEN FreeNames(w) ELSE Orphans(op[w].rec)
             name == NamePath(First(names))
             pc == IF Present(op[w].path) /\ name # op[w].path THEN "claim" ELSE "path"
  <2>1. UNCHANGED <<rows, files, sidecars, refused, titled, failures, fresh, parked, listed, crashes, condemned, erased>>
    BY <1>16 DEF PickName
  <2>2. CASE End(w)
    <3>1. Ends(w)
      BY <2>2, StepIs
    <3> QED
      BY <1>1, <1>4, <1>8, <2>1, <3>1
  <2>3. CASE names # {} /\ op' = [op EXCEPT ![w].target = name, ![w].pc = pc]
    <3>1. names \in SUBSET Names
      BY DEF FreeNames, Orphans
    <3>2. First(names) \in Names
      <4> HIDE DEF names
      <4> QED
        BY <2>3, <3>1, FirstIsIn
    <3>3. name \in Path
      BY <3>2, PathFacts
    <3>4. pc \in Finalizing /\ pc \in Step
      BY <1>6 DEF Finalizing
    <3> HIDE DEF names, name, pc
    <3> DEFINE x == [op[w] EXCEPT !.target = name]
               y == [x EXCEPT !.pc = pc]
    <3>5. x \in Op /\ x.rec = r /\ x.path = op[w].path /\ x.target = name
      BY <1>1, <1>3, <3>3, OpFields
    <3>6. y \in Op /\ y.pc = pc /\ y.rec = r /\ y.path = op[w].path /\ y.target = name
      <4> HIDE DEF x
      <4> QED
        BY <3>4, <3>5, OpFields
    <3>7. op' = [op EXCEPT ![w] = y]
      BY <2>3
    <3>8. Goes(w, pc) /\ op'[w].target = name
      <4> HIDE DEF y
      <4> QED
        BY <1>3, <1>4, <3>6, <3>7, Replaced DEF Goes
    <3>9. \E n \in Names : op'[w].target = NamePath(n)
      BY <3>2, <3>8 DEF name
    <3> QED
      BY <1>1, <1>4, <1>9, <2>1, <3>4, <3>8, <3>9
  <2> QED
    BY <1>16, <2>2, <2>3 DEF PickName
<1>17. ASSUME ClaimName(w) PROVE Moves(w)
  <2>1. UNCHANGED <<rows, sidecars, refused, titled, failures, fresh, parked, listed, crashes, condemned, erased>>
    BY <1>17 DEF ClaimName
  <2>2. PICK n \in Names : op[w].target = NamePath(n)
    BY <1>17 DEF ClaimName, At, JobInv, JobOK, Named
  <2>3. CASE /\ UNCHANGED files
             /\ op' = [op EXCEPT ![w].pc = "pick", ![w].target = NoPath, ![w].taken = @ \cup {op[w].target[2]}]
    <3> DEFINE x == [op[w] EXCEPT !.pc = "pick"]
               y == [x EXCEPT !.target = NoPath]
               z == [y EXCEPT !.taken = @ \cup {n}]
    <3>1. "pick" \in Finalizing /\ "pick" \notin Named /\ "pick" \in Step
      BY DEF Finalizing, Named, Step
    <3>2. x \in Op /\ x.pc = "pick" /\ x.rec = r /\ x.path = op[w].path
      BY <1>1, <1>3, <3>1, OpFields
    <3>3. y \in Op /\ y.pc = "pick" /\ y.rec = r /\ y.path = op[w].path
      <4> HIDE DEF x
      <4> QED
        BY <3>2, OpFields
    <3>4. z \in Op /\ z.pc = "pick" /\ z.rec = r /\ z.path = op[w].path
      <4> HIDE DEF y
      <4> QED
        BY <3>3, OpFields
    <3>5. op[w].target[2] = n
      BY <2>2, PathFacts
    <3>6. op' = [op EXCEPT ![w] = z]
      BY <2>3, <3>5
    <3>7. Goes(w, "pick")
      <4> HIDE DEF z
      <4> QED
        BY <1>3, <1>4, <3>4, <3>6, Replaced DEF Goes
    <3> QED
      BY <1>1, <1>4, <1>9, <2>1, <2>3, <3>1, <3>7
  <2>4. CASE files' = [files EXCEPT ![op[w].target] = Placeholder] /\ Goto(w, "move")
    <3>1. "move" \in Finalizing /\ files' \in [Path -> Content]
      BY <1>1, <1>5, <2>4, FilesTyped DEF Finalizing
    <3>2. Goes(w, "move") /\ op'[w].target = NamePath(n)
      BY <1>4, <1>6, <2>2, <2>4, <3>1, StepIs
    <3> QED
      BY <1>1, <1>4, <1>9, <2>1, <3>1, <3>2
  <2> QED
    BY <1>17, <2>3, <2>4 DEF ClaimName
<1>18. ASSUME MoveIntoLibrary(w) PROVE Moves(w)
  <2>1. UNCHANGED <<sidecars, refused, titled, failures, fresh, parked, listed, crashes, condemned, erased>>
    BY <1>18 DEF MoveIntoLibrary
  <2>2. PICK n \in Names : op[w].target = NamePath(n)
    BY <1>18 DEF MoveIntoLibrary, At, JobInv, JobOK, Named
  <2>3. CASE Move(op[w].path, op[w].target) /\ Goto(w, "path") /\ UNCHANGED rows
    <3>1. "path" \in Finalizing /\ files' \in [Path -> Content]
      BY <1>1, <1>4, <2>3, FilesTyped DEF Finalizing
    <3>2. Goes(w, "path") /\ op'[w].target = NamePath(n)
      BY <1>4, <1>6, <2>2, <2>3, <3>1, StepIs
    <3> QED
      BY <1>1, <1>4, <1>9, <2>1, <2>3, <3>1, <3>2
  <2>4. CASE Remove(op[w].target) /\ SetState(r, "awaiting_file") /\ End(w)
    <3>1. "awaiting_file" \in State \ {"trashed", "missing"} /\ Ends(w) /\ files' \in [Path -> Content]
      BY <1>1, <2>4, StepIs, FilesTyped DEF State
    <3> QED
      BY <1>1, <1>4, <1>8, <2>1, <2>4, <3>1
  <2>5. CASE Remove(op[w].target) /\ End(w) /\ UNCHANGED rows
    <3>1. Ends(w) /\ files' \in [Path -> Content]
      BY <1>1, <2>5, StepIs, FilesTyped
    <3> QED
      BY <1>1, <1>4, <1>8, <2>1, <2>5, <3>1
  <2> QED
    BY <1>3, <1>18, <2>3, <2>4, <2>5 DEF MoveIntoLibrary
<1>19. ASSUME StorePath(w) PROVE Moves(w)
  <2>1. UNCHANGED <<files, sidecars, refused, titled, failures, fresh, parked, listed, crashes, condemned, erased>>
    BY <1>19 DEF StorePath
  <2>2. PICK n \in Names : op[w].target = NamePath(n)
    BY <1>19 DEF StorePath, At, JobInv, JobOK, Named
  <2>3. CASE SetPath(r, op[w].target) /\ Goto(w, "sidecar")
    <3>1. "sidecar" \in Finalizing /\ op[w].target \in Path
      BY <2>2, PathFacts DEF Finalizing
    <3>2. Goes(w, "sidecar") /\ op'[w].target = NamePath(n)
      BY <1>4, <1>6, <2>2, <2>3, <3>1, StepIs
    <3> QED
      BY <1>1, <1>4, <1>9, <2>1, <2>3, <3>1, <3>2
  <2>4. CASE UNCHANGED rows /\ End(w)
    <3>1. Ends(w)
      BY <2>4, StepIs
    <3> QED
      BY <1>1, <1>4, <1>8, <2>1, <2>4, <3>1
  <2> QED
    BY <1>3, <1>19, <2>3, <2>4 DEF StorePath
<1>20. ASSUME WriteSidecar(w) PROVE Moves(w)
  <2>1. UNCHANGED <<rows, files, refused, titled, failures, fresh, parked, listed, crashes, condemned, erased>>
    BY <1>20 DEF WriteSidecar
  <2>2. PICK n \in Names : op[w].target = NamePath(n)
    BY <1>20 DEF WriteSidecar, At, JobInv, JobOK, Named
  <2>3. CASE sidecars' = sidecars \cup {op[w].target} /\ Goto(w, "complete")
    <3>1. "complete" \in Finalizing /\ sidecars' \subseteq Path
      BY <1>1, <2>2, <2>3, PathFacts DEF Finalizing
    <3>2. Goes(w, "complete") /\ op'[w].target = NamePath(n)
      BY <1>4, <1>6, <2>2, <2>3, <3>1, StepIs
    <3> QED
      BY <1>1, <1>4, <1>9, <2>1, <3>1, <3>2
  <2>4. CASE UNCHANGED sidecars /\ End(w)
    <3>1. Ends(w)
      BY <2>4, StepIs
    <3> QED
      BY <1>1, <1>4, <1>8, <2>1, <2>4, <3>1
  <2> QED
    BY <1>20, <2>3, <2>4 DEF WriteSidecar
<1>21. ASSUME Complete(w) PROVE Moves(w)
  <2>1. /\ UNCHANGED <<files, sidecars, refused, titled, failures, fresh, parked, listed, crashes, condemned, erased>>
        /\ SetState(r, "complete") /\ End(w)
    BY <1>3, <1>21 DEF Complete
  <2>2. "complete" \in State \ {"trashed", "missing"} /\ Ends(w)
    BY <2>1, StepIs DEF State
  <2> QED
    BY <1>1, <1>4, <1>8, <2>1, <2>2
<1> QED
  BY <1>10, <1>11, <1>12, <1>13, <1>14, <1>15, <1>16, <1>17, <1>18, <1>19, <1>20, <1>21 DEF FinalizeStep

LEMMA PurgeMoves ==
  ASSUME JobInv, NEW w \in Worker, PurgeStep(w)
  PROVE  Moves(w)
<1>1. /\ TypeOK /\ op \in [Worker -> Op] /\ files \in [Path -> Content] /\ rows \in [Recording -> Row \cup {NoRow}]
      /\ refused \in BOOLEAN /\ failures \in [Recording -> 0 .. MaxRemuxAttempts - 1]
      /\ sidecars \subseteq Path /\ fresh \subseteq Recording /\ parked \subseteq Recording
      /\ listed \in [Recording -> Path \cup {NoPath}] /\ condemned \subseteq Recording
  BY DEF JobInv, TypeOK
<1>2. PICK r : op[w].rec = r
  OBVIOUS
<1>3. op[w].pc \in Purging \cup Releasing
  BY DEF PurgeStep, TrashRefuses, TrashSidecar, TrashClaim, TrashMedia, TrashPathStored, TrashStateStored,
         ReleaseRefuses, ReleaseMedia, ReleaseSidecar, ReleaseRow, At, Purging, Releasing
<1>4. /\ r \in Recording /\ op[w].path \in Path /\ TrashPath(r) \in Path
      /\ op[w].pc \in Releasing => ~Known(r) \/ InState(r, {"trashed", "missing"})
  BY <1>2, <1>3, Parts, PathFacts DEF JobInv, JobOK, Locking
<1>5. ~At(w, "m_refuse") /\ Absent \in Content /\ Placeholder \in Content
  BY <1>3 DEF At, Purging, Releasing, Content
<1>6. Purging \subseteq Step /\ Releasing \subseteq Step
  BY Steps DEF Locking
<1>7. ASSUME Ends(w), rows' \in [Recording -> Row \cup {NoRow}], \A q \in Recording : RowMoves(w, q),
             files' \in [Path -> Content], failures' \in [Recording -> 0 .. MaxRemuxAttempts - 1],
             sidecars' \subseteq Path,
             UNCHANGED <<refused, titled, fresh, parked, listed, crashes, condemned, erased>>
      PROVE  Moves(w)
  <2>1. TypeOK'
    BY <1>1, <1>7, TypeKept DEF Ends
  <2> QED
    BY <1>5, <1>7, <2>1, WorkEnds
<1>8. ASSUME NEW pc, Goes(w, pc), rows' \in [Recording -> Row \cup {NoRow}], \A q \in Recording : RowMoves(w, q),
             files' \in [Path -> Content], sidecars' \subseteq Path, refused' \in BOOLEAN, refused => refused',
             UNCHANGED <<failures, titled, fresh, parked, listed, crashes, condemned, erased>>,
             \/ op[w].pc \in Purging /\ pc \in Purging
                /\ (At(w, "t_refuse") => RefuseUnlessHeld(Recording \ {r}))
             \/ op[w].pc \in Releasing /\ pc \in Releasing /\ UNCHANGED rows
      PROVE  Moves(w)
  <2>1. TypeOK'
    BY <1>1, <1>8, TypeKept DEF Goes
  <2>2. Purging # Finalizing /\ Purging # Releasing /\ Releasing # Finalizing
    BY DEF Finalizing, Purging, Releasing
  <2>3. CASE op[w].pc \in Purging /\ pc \in Purging /\ (At(w, "t_refuse") => RefuseUnlessHeld(Recording \ {r}))
    BY <1>2, <1>8, <2>1, <2>2, <2>3, WorkGoes DEF At
  <2>4. CASE op[w].pc \in Releasing /\ pc \in Releasing /\ UNCHANGED rows
    <3>1. ~Known(r)' \/ InState(r, {"trashed", "missing"})'
      BY <1>4, <2>4 DEF Known, InState
    <3> QED
      BY <1>2, <1>8, <2>1, <2>2, <2>4, <3>1, WorkGoes
  <2> QED
    BY <1>8, <2>3, <2>4
<1>9. UNCHANGED rows => rows' \in [Recording -> Row \cup {NoRow}] /\ \A q \in Recording : RowMoves(w, q)
  BY <1>1, Untouched
<1>10. ASSUME NEW others, RefuseUnlessHeld(others) PROVE refused' \in BOOLEAN /\ (refused => refused')
  BY <1>1, <1>10 DEF RefuseUnlessHeld
<1>11. ASSUME TrashRefuses(w) PROVE Moves(w)
  <2>1. /\ UNCHANGED <<rows, files, sidecars, titled, failures, fresh, parked, listed, crashes, condemned, erased>>
        /\ RefuseUnlessHeld(Recording \ {r}) /\ Goto(w, "t_sidecar") /\ op[w].pc = "t_refuse"
    BY <1>2, <1>11 DEF TrashRefuses, At
  <2>2. "t_sidecar" \in Purging /\ "t_refuse" \in Purging
    BY DEF Purging
  <2>3. Goes(w, "t_sidecar")
    BY <1>4, <1>6, <2>1, <2>2, StepIs
  <2> QED
    BY <1>1, <1>8, <1>9, <1>10, <2>1, <2>2, <2>3
<1>12. ASSUME TrashSidecar(w) PROVE Moves(w)
  <2>1. /\ UNCHANGED <<rows, files, refused, titled, failures, fresh, parked, listed, crashes, condemned, erased>>
        /\ op[w].pc = "t_sidecar"
    BY <1>12 DEF TrashSidecar, At
  <2>2. "t_sidecar" \in Purging /\ "t_claim" \in Purging /\ "t_sidecar" # "t_refuse"
    BY DEF Purging
  <2>3. sidecars' \subseteq Path
    BY <1>1, <1>2, <1>4, <1>12 DEF TrashSidecar
  <2>4. Goes(w, "t_claim") \/ Ends(w)
    BY <1>4, <1>6, <1>12, <2>2, StepIs DEF TrashSidecar
  <2> QED
    BY <1>1, <1>7, <1>8, <1>9, <2>1, <2>2, <2>3, <2>4 DEF At
<1>13. ASSUME TrashClaim(w) PROVE Moves(w)
  <2>1. /\ UNCHANGED <<rows, sidecars, refused, titled, failures, fresh, parked, listed, crashes, condemned, erased>>
        /\ op[w].pc = "t_claim"
    BY <1>13 DEF TrashClaim, At
  <2>2. "t_claim" \in Purging /\ "t_move" \in Purging /\ "t_claim" # "t_refuse"
    BY DEF Purging
  <2>3. files' \in [Path -> Content]
    BY <1>1, <1>5, <1>13, FilesTyped DEF TrashClaim
  <2>4. Goes(w, "t_move") \/ Ends(w)
    BY <1>4, <1>6, <1>13, <2>2, StepIs DEF TrashClaim
  <2> QED
    BY <1>1, <1>7, <1>8, <1>9, <2>1, <2>2, <2>3, <2>4 DEF At
<1>14. ASSUME TrashMedia(w) PROVE Moves(w)
  <2>1. /\ UNCHANGED <<rows, sidecars, refused, titled, failures, fresh, parked, listed, crashes, condemned, erased>>
        /\ op[w].pc = "t_move"
    BY <1>14 DEF TrashMedia, At
  <2>2. "t_path" \in Purging /\ "t_move" \in Purging /\ "t_move" # "t_refuse"
    BY DEF Purging
  <2>3. files' \in [Path -> Content]
    BY <1>1, <1>4, <1>14, FilesTyped DEF TrashMedia
  <2>4. Goes(w, "t_path") \/ Ends(w)
    BY <1>4, <1>6, <1>14, <2>2, StepIs DEF TrashMedia
  <2> QED
    BY <1>1, <1>7, <1>8, <1>9, <2>1, <2>2, <2>3, <2>4 DEF At
<1>15. ASSUME TrashPathStored(w) PROVE Moves(w)
  <2>1. /\ UNCHANGED <<files, sidecars, refused, titled, failures, fresh, parked, listed, crashes, condemned, erased>>
        /\ op[w].pc = "t_path"
    BY <1>15 DEF TrashPathStored, At
  <2>2. "t_path" \in Purging /\ "t_state" \in Purging /\ "t_path" # "t_refuse"
    BY DEF Purging
  <2>3. CASE Known(r) /\ SetPath(r, TrashPath(r)) /\ Goto(w, "t_state")
    <3>1. /\ rows' \in [Recording -> Row \cup {NoRow}] /\ \A q \in Recording \ {r} : rows'[q] = rows[q]
          /\ Known(r)' /\ rows'[r].state = rows[r].state
      BY <1>1, <1>4, <2>3, RowChanges
    <3>2. \A q \in Recording : RowMoves(w, q)
      BY <1>2, <1>4, <2>3, <3>1 DEF RowMoves
    <3>3. Goes(w, "t_state")
      BY <1>4, <1>6, <2>2, <2>3, StepIs
    <3> QED
      BY <1>1, <1>8, <2>1, <2>2, <3>1, <3>2, <3>3 DEF At
  <2>4. CASE UNCHANGED rows /\ End(w)
    <3>1. Ends(w)
      BY <2>4, StepIs
    <3> QED
      BY <1>1, <1>7, <1>9, <2>1, <2>4, <3>1
  <2> QED
    BY <1>2, <1>15, <2>3, <2>4 DEF TrashPathStored
<1>16. ASSUME TrashStateStored(w) PROVE Moves(w)
  <2>1. /\ UNCHANGED <<files, sidecars, refused, titled, fresh, parked, listed, crashes, condemned, erased>>
        /\ At(w, "t_state") /\ End(w)
    BY <1>16 DEF TrashStateStored
  <2>2. Ends(w)
    BY <2>1, StepIs
  <2>3. CASE /\ Known(r) /\ SetState(r, "trashed")
             /\ failures' = IF Organizer(w) = "recorder" THEN [failures EXCEPT ![r] = 0] ELSE failures
    <3>1. "trashed" \in State
      BY DEF State
    <3>2. /\ rows' \in [Recording -> Row \cup {NoRow}] /\ \A q \in Recording \ {r} : rows'[q] = rows[q]
          /\ Known(r)' /\ rows'[r].state = "trashed"
      BY <1>1, <1>4, <2>3, <3>1, RowChanges
    <3>3. \A q \in Recording : RowMoves(w, q)
      BY <1>2, <1>4, <2>1, <2>3, <3>2 DEF RowMoves
    <3>4. failures' \in [Recording -> 0 .. MaxRemuxAttempts - 1]
      <4>1. 0 \in 0 .. MaxRemuxAttempts - 1
        OBVIOUS
      <4> QED
        BY ONLY <1>1, <2>3, <4>1
    <3> QED
      BY <1>1, <1>7, <2>1, <2>2, <3>2, <3>3, <3>4
  <2>4. CASE UNCHANGED <<rows, failures>>
    BY <1>1, <1>7, <1>9, <2>1, <2>2, <2>4
  <2> QED
    BY <1>2, <1>16, <2>3, <2>4 DEF TrashStateStored
<1>17. ASSUME ReleaseRefuses(w) PROVE Moves(w)
  <2>1. /\ UNCHANGED <<rows, files, sidecars, titled, failures, fresh, parked, listed, crashes, condemned, erased>>
        /\ RefuseUnlessHeld(Recording \ {r}) /\ Goto(w, "r_media") /\ op[w].pc = "r_refuse"
    BY <1>2, <1>17 DEF ReleaseRefuses, At
  <2>2. "r_media" \in Releasing /\ "r_refuse" \in Releasing
    BY DEF Releasing
  <2>3. Goes(w, "r_media")
    BY <1>4, <1>6, <2>1, <2>2, StepIs
  <2> QED
    BY <1>1, <1>8, <1>9, <1>10, <2>1, <2>2, <2>3
<1>18. ASSUME ReleaseMedia(w) PROVE Moves(w)
  <2>1. /\ UNCHANGED <<rows, sidecars, refused, titled, failures, fresh, parked, listed, crashes, condemned, erased>>
        /\ op[w].pc = "r_media"
    BY <1>18 DEF ReleaseMedia, At
  <2>2. "r_media" \in Releasing /\ "r_sidecar" \in Releasing
    BY DEF Releasing
  <2>3. files' \in [Path -> Content]
    BY <1>1, <1>18, FilesTyped DEF ReleaseMedia
  <2>4. Goes(w, "r_sidecar") \/ Ends(w)
    BY <1>4, <1>6, <1>18, <2>2, StepIs DEF ReleaseMedia
  <2> QED
    BY <1>1, <1>7, <1>8, <1>9, <2>1, <2>2, <2>3, <2>4
<1>19. ASSUME ReleaseSidecar(w) PROVE Moves(w)
  <2>1. /\ UNCHANGED <<rows, files, refused, titled, failures, fresh, parked, listed, crashes, condemned, erased>>
        /\ op[w].pc = "r_sidecar"
    BY <1>19 DEF ReleaseSidecar, At
  <2>2. "r_sidecar" \in Releasing /\ "r_row" \in Releasing
    BY DEF Releasing
  <2>3. sidecars' \subseteq Path
    BY <1>1, <1>19 DEF ReleaseSidecar
  <2>4. Goes(w, "r_row") \/ Ends(w)
    BY <1>4, <1>6, <1>19, <2>2, StepIs DEF ReleaseSidecar
  <2> QED
    BY <1>1, <1>7, <1>8, <1>9, <2>1, <2>2, <2>3, <2>4
<1>20. ASSUME ReleaseRow(w) PROVE Moves(w)
  <2>1. /\ UNCHANGED <<files, sidecars, refused, titled, fresh, parked, listed, crashes, condemned, erased>>
        /\ At(w, "r_row") /\ End(w) /\ rows' = [rows EXCEPT ![r] = NoRow]
        /\ failures' = [failures EXCEPT ![r] = 0]
    BY <1>2, <1>20 DEF ReleaseRow
  <2>2. Ends(w)
    BY <2>1, StepIs
  <2>3. /\ rows' \in [Recording -> Row \cup {NoRow}] /\ \A q \in Recording \ {r} : rows'[q] = rows[q]
        /\ ~Known(r)'
    BY <1>1, <1>4, <2>1 DEF Known
  <2>4. \A q \in Recording : RowMoves(w, q)
    BY <1>2, <1>4, <2>1, <2>3 DEF RowMoves
  <2>5. failures' \in [Recording -> 0 .. MaxRemuxAttempts - 1]
    <3>1. 0 \in 0 .. MaxRemuxAttempts - 1
      OBVIOUS
    <3> QED
      BY ONLY <1>1, <2>1, <3>1
  <2> QED
    BY <1>1, <1>7, <2>1, <2>2, <2>3, <2>4, <2>5
<1> QED
  BY <1>11, <1>12, <1>13, <1>14, <1>15, <1>16, <1>17, <1>18, <1>19, <1>20 DEF PurgeStep

LEMMA RecompressMoves ==
  ASSUME JobInv, NEW w \in Worker, RecompressStep(w)
  PROVE  Moves(w)
<1>1. /\ TypeOK /\ op \in [Worker -> Op] /\ files \in [Path -> Content] /\ rows \in [Recording -> Row \cup {NoRow}]
      /\ refused \in BOOLEAN /\ failures \in [Recording -> 0 .. MaxRemuxAttempts - 1]
      /\ sidecars \subseteq Path /\ fresh \subseteq Recording /\ parked \subseteq Recording
      /\ listed \in [Recording -> Path \cup {NoPath}] /\ condemned \subseteq Recording
  BY DEF JobInv, TypeOK
<1>2. PICK r : op[w].rec = r
  OBVIOUS
<1>3. op[w].pc \in Encoding
  BY DEF RecompressStep, EncodeBegins, EncodeEnds, SetAside, Install, MarkRecompressed, OriginalGoes, At, Encoding
<1>4. PICK path : op[w].path = path /\ path \in Path
  BY <1>3 DEF JobInv, JobOK, Locking
<1>5. r \in Recording /\ EncodePath(path) \in Path /\ AsidePath(path) \in Path /\ OriginalPath(path) \in Path
  BY <1>2, <1>3, <1>4, Parts, PathFacts DEF JobInv, JobOK, Locking
<1>6. ~At(w, "m_refuse") /\ Absent \in Content /\ Partial \in Content /\ Encoding \subseteq Step
  BY <1>3, Steps DEF At, Encoding, Content, Locking
<1>7. Encoding # Finalizing /\ Encoding # Purging /\ Encoding # Releasing
  BY DEF Finalizing, Purging, Releasing, Encoding
<1>8. ASSUME rows' \in [Recording -> Row \cup {NoRow}], \A q \in Recording : RowMoves(w, q),
             files' \in [Path -> Content],
             UNCHANGED <<refused, titled, failures, sidecars, fresh, parked, listed, crashes, condemned, erased>>,
             Ends(w) \/ \E pc \in Encoding : Goes(w, pc)
      PROVE  Moves(w)
  <2>1. TypeOK'
    BY <1>1, <1>8, TypeKept DEF Ends, Goes
  <2>2. CASE Ends(w)
    BY <1>6, <1>8, <2>1, <2>2, WorkEnds
  <2>3. CASE \E pc \in Encoding : Goes(w, pc)
    BY <1>2, <1>3, <1>7, <1>8, <2>1, <2>3, WorkGoes
  <2> QED
    BY <1>8, <2>2, <2>3
<1>9. UNCHANGED rows => rows' \in [Recording -> Row \cup {NoRow}] /\ \A q \in Recording : RowMoves(w, q)
  BY <1>1, Untouched
<1>10. \A pc \in Encoding : Goto(w, pc) => Goes(w, pc)
  BY <1>4, <1>6, StepIs
<1>11. End(w) => Ends(w)
  BY StepIs
(* What RestoreOriginal leaves at every path.                              *)
<1>12. ASSUME RestoreOriginal(path) PROVE files' \in [Path -> Content]
  <2>1. files[AsidePath(path)] \in Content
    BY <1>1, <1>5
  <2> DEFINE f == [files EXCEPT ![path] = files[AsidePath(path)]]
             g == [f EXCEPT ![AsidePath(path)] = Absent]
             h == [g EXCEPT ![EncodePath(path)] = Absent]
  <2>2. f \in [Path -> Content]
    BY <1>1, <2>1
  <2>3. g \in [Path -> Content]
    <3> HIDE DEF f
    <3> QED
      BY <1>6, <2>2
  <2>4. h \in [Path -> Content]
    <3> HIDE DEF g
    <3> QED
      BY <1>6, <2>3
  <2>5. CASE files' = h
    BY <2>4, <2>5
  <2>6. CASE files' = [files EXCEPT ![path] = Absent, ![EncodePath(path)] = Absent]
    <3> DEFINE k == [files EXCEPT ![path] = Absent]
    <3>1. k \in [Path -> Content]
      BY <1>1, <1>6
    <3>2. files' = [k EXCEPT ![EncodePath(path)] = Absent]
      BY <2>6
    <3> HIDE DEF k
    <3> QED
      BY <1>6, <3>1, <3>2
  <2>7. CASE files' = [files EXCEPT ![EncodePath(path)] = Absent]
    BY <1>1, <1>6, <2>7
  <2> QED
    BY <1>12, <2>5, <2>6, <2>7 DEF RestoreOriginal
<1>13. ASSUME EncodeBegins(w) PROVE Moves(w)
  <2>1. UNCHANGED <<rows, sidecars, refused, titled, failures, fresh, parked, listed, crashes, condemned, erased>>
    BY <1>13 DEF EncodeBegins
  <2>2. "c_encoding" \in Encoding
    BY DEF Encoding
  <2>3. files' \in [Path -> Content] /\ (Goto(w, "c_encoding") \/ End(w))
    BY <1>1, <1>6, <1>13, FilesTyped DEF EncodeBegins
  <2> QED
    BY <1>8, <1>9, <1>10, <1>11, <2>1, <2>2, <2>3
<1>14. ASSUME EncodeEnds(w) PROVE Moves(w)
  <2>1. UNCHANGED <<rows, sidecars, refused, titled, failures, fresh, parked, listed, crashes, condemned, erased>>
    BY <1>14 DEF EncodeEnds
  <2>2. "c_aside" \in Encoding
    BY DEF Encoding
  <2>3. files[path] \in Content
    BY <1>1, <1>4
  <2>4. files' \in [Path -> Content] /\ (Goto(w, "c_aside") \/ End(w))
    BY <1>1, <1>4, <1>14, <2>3, FilesTyped DEF EncodeEnds
  <2> QED
    BY <1>8, <1>9, <1>10, <1>11, <2>1, <2>2, <2>4
<1>15. ASSUME SetAside(w) PROVE Moves(w)
  <2>1. UNCHANGED <<rows, sidecars, refused, titled, failures, fresh, parked, listed, crashes, condemned, erased>>
    BY <1>15 DEF SetAside
  <2>2. "c_install" \in Encoding
    BY DEF Encoding
  <2>3. files' \in [Path -> Content] /\ (Goto(w, "c_install") \/ End(w))
    BY <1>1, <1>4, <1>15, FilesTyped DEF SetAside
  <2> QED
    BY <1>8, <1>9, <1>10, <1>11, <2>1, <2>2, <2>3
<1>16. ASSUME Install(w) PROVE Moves(w)
  <2>1. UNCHANGED <<rows, sidecars, refused, titled, failures, fresh, parked, listed, crashes, condemned, erased>>
    BY <1>16 DEF Install
  <2>2. "c_mark" \in Encoding
    BY DEF Encoding
  <2>3. files' \in [Path -> Content] /\ (Goto(w, "c_mark") \/ End(w))
    BY <1>1, <1>4, <1>5, <1>12, <1>16, FilesTyped DEF Install
  <2> QED
    BY <1>8, <1>9, <1>10, <1>11, <2>1, <2>2, <2>3
<1>17. ASSUME MarkRecompressed(w) PROVE Moves(w)
  <2>1. UNCHANGED <<sidecars, refused, titled, failures, fresh, parked, listed, crashes, condemned, erased>>
    BY <1>17 DEF MarkRecompressed
  <2>2. CASE Known(r) /\ rows' = [rows EXCEPT ![r].recompressed = TRUE] /\ UNCHANGED files /\ Goto(w, "c_clean")
    <3>1. /\ rows' \in [Recording -> Row \cup {NoRow}] /\ \A q \in Recording \ {r} : rows'[q] = rows[q]
          /\ Known(r)' /\ rows'[r].state = rows[r].state
      BY <1>1, <1>5, <2>2, RowChanges
    <3>2. \A q \in Recording : RowMoves(w, q)
      BY <1>2, <1>5, <2>2, <3>1 DEF RowMoves
    <3>3. "c_clean" \in Encoding
      BY DEF Encoding
    <3> QED
      BY <1>1, <1>8, <1>10, <2>1, <2>2, <3>1, <3>2, <3>3
  <2>3. CASE RestoreOriginal(path) /\ UNCHANGED rows /\ End(w)
    BY <1>8, <1>9, <1>11, <1>12, <2>1, <2>3
  <2> QED
    BY <1>2, <1>4, <1>17, <2>2, <2>3 DEF MarkRecompressed
<1>18. ASSUME OriginalGoes(w) PROVE Moves(w)
  <2>1. /\ UNCHANGED <<rows, sidecars, refused, titled, failures, fresh, parked, listed, crashes, condemned, erased>>
        /\ End(w)
    BY <1>18 DEF OriginalGoes
  <2>2. files' \in [Path -> Content]
    BY <1>1, <1>4, <1>5, <1>18, FilesTyped DEF OriginalGoes
  <2> QED
    BY <1>8, <1>9, <1>11, <2>1, <2>2
<1> QED
  BY <1>13, <1>14, <1>15, <1>16, <1>17, <1>18 DEF RecompressStep

(* A worker that rests, or begins at a recording whose row is there.       *)
LEMMA WorkRests ==
  ASSUME JobInv, NEW w \in Worker, UNCHANGED <<op, rows, refused, crashes>>, TypeOK', ~At(w, "m_refuse")
  PROVE  Moves(w)
<1>1. JobOK(w)'
  BY DEF JobInv, JobOK, Known, InState
<1>2. \A q \in Recording : RowMoves(w, q)
  BY Untouched
<1>3. refused \in BOOLEAN
  BY DEF JobInv, TypeOK
<1>4. op'[w].pc \in Purging \ {"t_refuse"} => op[w].pc \in Purging \ {"t_refuse"}
  OBVIOUS
<1>5. op'[w].pc \in Locking =>
        /\ op[w].pc \in Locking /\ op'[w].rec = op[w].rec
        /\ \A part \in {Finalizing, Purging, Releasing, Encoding} : op[w].pc \in part <=> op'[w].pc \in part
  OBVIOUS
<1> QED
  BY <1>1, <1>2, <1>3, <1>4, <1>5 DEF Moves

LEMMA WorkBegins ==
  ASSUME JobInv, NEW w \in Worker, Free(w), NEW r \in Recording, Known(r), ~Busy(w, r),
         NEW pc \in {"remux", "render", "t_refuse", "r_refuse", "c_encode"}, Begin(w, r, pc),
         pc = "t_refuse" <=> w \in Operator,
         pc = "r_refuse" => w \in Releaser /\ InState(r, {"trashed"}),
         UNCHANGED <<rows, files, sidecars, refused, titled, failures, listed, crashes, erased>>,
         fresh' \subseteq Recording, parked' \subseteq Recording, condemned' \subseteq Recording
  PROVE  Moves(w)
<1>1. TypeOK /\ refused \in BOOLEAN
  BY DEF JobInv, TypeOK
<1>2. pc \in Step /\ pc \in Locking /\ pc # "idle" /\ pc \notin Named
  BY DEF Step, Locking, Finalizing, Purging, Releasing, Encoding, Named
<1>3. /\ op' \in [Worker -> Op] /\ \A v \in Worker \ {w} : op'[v] = op[v]
      /\ op'[w].pc = pc /\ op'[w].rec = r /\ op'[w].path = rows[r].path /\ rows[r].path \in Path
  BY <1>1, <1>2, Begins
<1>4. TypeOK'
  BY <1>1, <1>3, TypeKept DEF TypeOK
<1>5. /\ pc \in Purging <=> pc = "t_refuse"
      /\ pc \in Releasing <=> pc = "r_refuse"
  BY DEF Purging, Releasing
<1>6. Known(r)' /\ (pc = "r_refuse" => InState(r, {"trashed"})')
  BY DEF Known, InState
<1>7. JobOK(w)'
  <2>1. pc \in Releasing => w \in Releaser /\ (~Known(r)' \/ InState(r, {"trashed", "missing"})')
    BY <1>5, <1>6 DEF InState
  <2>2. (pc \in Finalizing \cup Encoding => w \notin Operator) /\ (pc \in Purging => w \in Operator)
    BY <1>5, Parts
  <2> QED
    BY <1>2, <1>3, <1>6, <2>1, <2>2 DEF JobOK, Known, InState
<1>8. \A q \in Recording : RowMoves(w, q)
  BY Untouched
<1>9. op[w].pc = "idle" /\ ~Busy(w, op'[w].rec) /\ ~At(w, "m_refuse")
  BY <1>3 DEF Free, At
<1>10. InState(r, {"trashed"})' => InState(r, {"trashed"})
  BY DEF InState, Known
<1> QED
  BY <1>1, <1>3, <1>4, <1>5, <1>6, <1>7, <1>8, <1>9, <1>10 DEF Moves

LEMMA BeginMoves ==
  ASSUME JobInv, NEW w \in Worker, NEW r \in Recording,
         BeginFinalize(w, r) \/ BeginTrash(w, r) \/ BeginRelease(w, r) \/ BeginRecompress(w, r)
  PROVE  Moves(w)
<1>1. fresh \subseteq Recording /\ parked \subseteq Recording /\ condemned \subseteq Recording
  BY DEF JobInv, TypeOK
<1>2. ASSUME BeginFinalize(w, r) PROVE Moves(w)
  <2> DEFINE pc == IF rows[r].path = CapturePath(r) THEN "remux" ELSE "render"
  <2>1. /\ Free(w) /\ Known(r) /\ ~Busy(w, r) /\ Begin(w, r, pc) /\ w \in Watcher \cup Sweeper
        /\ UNCHANGED <<rows, files, sidecars, refused, titled, failures, listed, crashes, condemned, erased>>
        /\ fresh' \subseteq Recording /\ parked' \subseteq Recording
    BY <1>1, <1>2 DEF BeginFinalize
  <2>2. pc \in {"remux", "render"} /\ w \notin Operator
    BY <2>1
  <2> HIDE DEF pc
  <2> QED
    BY <1>1, <2>1, <2>2, WorkBegins
<1>3. ASSUME BeginTrash(w, r) PROVE Moves(w)
  <2>1. /\ Free(w) /\ Known(r) /\ ~Busy(w, r) /\ Begin(w, r, "t_refuse") /\ w \in Operator
        /\ UNCHANGED <<rows, files, sidecars, refused, titled, failures, fresh, parked, listed, crashes, erased>>
        /\ condemned' \subseteq Recording
    BY <1>1, <1>3 DEF BeginTrash
  <2> QED
    BY <1>1, <2>1, WorkBegins
<1>4. ASSUME BeginRelease(w, r) PROVE Moves(w)
  <2>1. /\ Free(w) /\ Known(r) /\ ~Busy(w, r) /\ Begin(w, r, "r_refuse") /\ w \in Releaser
        /\ w \notin Operator /\ InState(r, {"trashed"})
        /\ UNCHANGED <<rows, files, sidecars, refused, titled, failures, fresh, parked, listed, crashes,
                       condemned, erased>>
    BY <1>1, <1>4 DEF BeginRelease, InState
  <2> QED
    BY <1>1, <2>1, WorkBegins
<1>5. ASSUME BeginRecompress(w, r) PROVE Moves(w)
  <2>1. /\ Free(w) /\ Known(r) /\ ~Busy(w, r) /\ Begin(w, r, "c_encode") /\ w \notin Operator
        /\ UNCHANGED <<rows, files, sidecars, refused, titled, failures, fresh, parked, listed, crashes,
                       condemned, erased>>
    BY <1>1, <1>5 DEF BeginRecompress, InState
  <2> QED
    BY <1>1, <2>1, WorkBegins
<1> QED
  BY <1>2, <1>3, <1>4, <1>5

LEMMA SweepMoves ==
  ASSUME JobInv, NEW w \in Worker, SweepStep(w)
  PROVE  Moves(w)
<1>1. /\ TypeOK /\ op \in [Worker -> Op] /\ files \in [Path -> Content] /\ rows \in [Recording -> Row \cup {NoRow}]
      /\ refused \in BOOLEAN /\ failures \in [Recording -> 0 .. MaxRemuxAttempts - 1]
      /\ sidecars \subseteq Path /\ fresh \subseteq Recording /\ parked \subseteq Recording
      /\ listed \in [Recording -> Path \cup {NoPath}] /\ condemned \subseteq Recording
  BY DEF JobInv, TypeOK
<1>2. ASSUME ListParked(w) PROVE Moves(w)
  <2>1. /\ UNCHANGED <<rows, files, sidecars, refused, titled, failures, fresh, listed, op, crashes, condemned, erased>>
        /\ parked' \subseteq Recording /\ ~At(w, "m_refuse")
    BY <1>2 DEF ListParked, SweepsNothing, Free, At
  <2>2. TypeOK'
    BY <1>1, <2>1, TypeKept
  <2> QED
    BY <2>1, <2>2, WorkRests
<1>3. ASSUME NEW r \in Recording, SkipParked(w, r) PROVE Moves(w)
  <2>1. /\ UNCHANGED <<rows, files, sidecars, refused, titled, failures, fresh, listed, op, crashes, condemned, erased>>
        /\ parked' \subseteq Recording /\ ~At(w, "m_refuse")
    BY <1>1, <1>3 DEF SkipParked, Free, At
  <2>2. TypeOK'
    BY <1>1, <2>1, TypeKept
  <2> QED
    BY <2>1, <2>2, WorkRests
<1>4. ASSUME ListComplete(w) PROVE Moves(w)
  <2>1. /\ UNCHANGED <<rows, files, sidecars, refused, titled, failures, fresh, parked, op, crashes, condemned, erased>>
        /\ ~At(w, "m_refuse")
    BY <1>4 DEF ListComplete, SweepsNothing, Free, At
  <2>2. \A r \in Recording : InState(r, {"complete"}) => rows[r].path \in Path
    BY <1>1 DEF InState, Known, Row
  <2>3. listed' \in [Recording -> Path \cup {NoPath}]
    BY <1>4, <2>2 DEF ListComplete
  <2>4. TypeOK'
    BY <1>1, <2>1, <2>3, TypeKept
  <2> QED
    BY <2>1, <2>4, WorkRests
<1>5. ASSUME NEW r \in Recording, LookForFile(w, r) PROVE Moves(w)
  <2>1. /\ UNCHANGED <<rows, files, sidecars, refused, titled, failures, fresh, parked, crashes, condemned, erased>>
        /\ listed' \in [Recording -> Path \cup {NoPath}] /\ op[w].pc = "idle" /\ ~At(w, "m_refuse")
    BY <1>1, <1>5 DEF LookForFile, Free, At
  <2>2. CASE op' = op
    <3>1. TypeOK'
      BY <1>1, <2>1, <2>2, TypeKept
    <3> QED
      BY <2>1, <2>2, <3>1, WorkRests
  <2>3. CASE op' = [op EXCEPT ![w] = [Idle EXCEPT !.pc = "m_state", !.rec = r]]
    <3> DEFINE x == [Idle EXCEPT !.pc = "m_state"]
               y == [x EXCEPT !.rec = r]
    <3>1. "m_state" \in Step /\ "m_state" \notin Locking /\ "m_state" # "idle"
      BY DEF Step, Locking, Finalizing, Purging, Releasing, Encoding
    <3>2. x \in Op /\ x.pc = "m_state"
      BY <3>1, Steps, OpFields
    <3>3. y \in Op /\ y.pc = "m_state" /\ y.rec = r
      <4> HIDE DEF x
      <4> QED
        BY <3>2 DEF Op
    <3>4. op' = [op EXCEPT ![w] = y]
      BY <2>3
    <3>5. op' \in [Worker -> Op] /\ (\A v \in Worker \ {w} : op'[v] = op[v]) /\ op'[w].pc = "m_state" /\ op'[w].rec = r
      <4> HIDE DEF y
      <4> QED
        BY <3>3, <3>4, Replaced
    <3>6. TypeOK'
      BY <1>1, <2>1, <3>5, TypeKept
    <3>7. JobOK(w)'
      BY <3>1, <3>5, Steps DEF JobOK, Locking
    <3>8. \A q \in Recording : RowMoves(w, q)
      BY <2>1, Untouched
    <3>9. op'[w].pc \notin Purging
      BY <3>1, <3>5 DEF Locking
    <3> QED
      BY <1>1, <2>1, <3>1, <3>5, <3>6, <3>7, <3>8, <3>9 DEF Moves
  <2> QED
    BY <1>5, <2>2, <2>3 DEF LookForFile
<1>6. ASSUME DeclareMissing(w) PROVE Moves(w)
  <2>1. /\ UNCHANGED <<files, sidecars, refused, titled, failures, fresh, parked, listed, crashes, condemned, erased>>
        /\ op[w].pc = "m_state" /\ ~At(w, "m_refuse") /\ At(w, "m_state")
    BY <1>6 DEF DeclareMissing, At
  <2>2. PICK r : op[w].rec = r /\ r \in Recording
    BY <2>1 DEF JobInv, JobOK
  <2>3. CASE Known(r) /\ SetState(r, "missing") /\ Goto(w, "m_refuse")
    <3>1. "missing" \in State /\ "m_refuse" \in Step /\ "m_refuse" \notin Locking /\ "m_refuse" # "idle"
      BY DEF State, Step, Locking, Finalizing, Purging, Releasing, Encoding
    <3>2. /\ rows' \in [Recording -> Row \cup {NoRow}] /\ \A q \in Recording \ {r} : rows'[q] = rows[q]
          /\ Known(r)' /\ rows'[r].state = "missing"
      BY <1>1, <2>2, <2>3, <3>1, RowChanges
    <3>3. /\ op' \in [Worker -> Op] /\ \A v \in Worker \ {w} : op'[v] = op[v]
          /\ op'[w].pc = "m_refuse" /\ op'[w].rec = r
      BY <1>1, <2>2, <2>3, <3>1, GoesOn
    <3>4. \A q \in Recording : RowMoves(w, q)
      BY <2>1, <2>2, <2>3, <3>2, <3>3 DEF RowMoves, At
    <3>5. TypeOK'
      BY <1>1, <2>1, <3>2, <3>3, TypeKept
    <3>6. JobOK(w)'
      BY <2>2, <3>1, <3>3, Steps DEF JobOK, Locking
    <3>7. op'[w].pc \notin Purging
      BY <3>1, <3>3 DEF Locking
    <3> QED
      BY <1>1, <2>1, <3>1, <3>3, <3>4, <3>5, <3>6, <3>7 DEF Moves
  <2>4. CASE UNCHANGED rows /\ End(w)
    <3>1. Ends(w)
      BY <2>4, StepIs
    <3>2. TypeOK'
      BY <1>1, <2>1, <2>4, <3>1, TypeKept DEF Ends
    <3> QED
      BY <2>1, <2>4, <3>1, <3>2, Untouched, WorkEnds
  <2> QED
    BY <1>6, <2>2, <2>3, <2>4 DEF DeclareMissing
<1>7. ASSUME MissingRefuses(w) PROVE Moves(w)
  <2>1. /\ UNCHANGED <<rows, files, sidecars, titled, failures, fresh, parked, listed, crashes, condemned, erased>>
        /\ RefuseUnlessHeld(Recording) /\ End(w)
    BY <1>7 DEF MissingRefuses
  <2>2. Ends(w) /\ refused' \in BOOLEAN /\ (refused => refused')
    BY <1>1, <2>1, StepIs DEF RefuseUnlessHeld
  <2>3. TypeOK'
    BY <1>1, <2>1, <2>2, TypeKept DEF Ends
  <2> QED
    BY <2>1, <2>2, <2>3, Untouched, WorkEnds
<1> QED
  BY <1>2, <1>3, <1>4, <1>5, <1>6, <1>7 DEF SweepStep

LEMMA WorkMoves == ASSUME JobInv, NEW w \in Worker, Work(w) PROVE Moves(w)
<1>1. ASSUME StoreCallFails(w) PROVE Moves(w)
  <2>1. /\ UNCHANGED <<rows, files, sidecars, refused, titled, failures, fresh, parked, listed, crashes,
                       condemned, erased>>
        /\ StoreFails /\ End(w)
    BY <1>1 DEF StoreCallFails
  <2>2. Ends(w)
    BY <2>1, StepIs
  <2>3. TypeOK'
    BY <2>1, <2>2, TypeKept DEF Ends, JobInv, TypeOK
  <2> QED
    BY <2>1, <2>2, <2>3, Untouched, WorkEnds
<1> QED
  BY <1>1, BeginMoves, FinalizeMoves, PurgeMoves, RecompressMoves, SweepMoves DEF Work


----------------------------------------------------------------------------
(* Whatever the others are at stays in order *)

LEMMA OthersKeep ==
  ASSUME JobInv, NEW w \in Worker, Moves(w), NEW v \in Worker \ {w}
  PROVE  JobOK(v)'
<1>1. PICK r : op[v].rec = r
  OBVIOUS
<1>2. op'[v] = op[v] /\ JobOK(v) /\ JobOK(w)
  BY DEF Moves, JobInv
<1>3. ASSUME op[v].pc \in Finalizing
      PROVE  v \notin Operator /\ Known(r)'
  <2>1. v \notin Operator /\ Known(r) /\ r \in Recording /\ op[v].pc \in Locking
    BY <1>1, <1>2, <1>3, Parts DEF JobOK, Locking
  <2>2. RowMoves(w, r)
    BY <2>1 DEF Moves
  <2>3. CASE rows'[r] = rows[r]
    BY <2>1, <2>3 DEF Known
  <2>4. CASE r = op[w].rec /\ At(w, "r_row")
    <3>1. op[w].pc \in Releasing /\ op[w].pc \in Locking
      BY <2>4 DEF At, Releasing, Locking
    <3>2. Organizer(v) = Organizer(w)
      BY <1>2, <2>1, <3>1, OrganizerAssumption DEF JobOK, Organizer
    <3> QED
      BY <1>1, <2>1, <2>4, <3>1, <3>2 DEF JobInv, Apart
  <2> QED
    BY <2>1, <2>2, <2>3, <2>4 DEF RowMoves
<1>4. ASSUME op[v].pc \in Releasing
      PROVE  v \in Releaser /\ (~Known(r)' \/ InState(r, {"trashed", "missing"})')
  <2>1. /\ v \in Releaser /\ r \in Recording /\ op[v].pc \in Locking
        /\ ~Known(r) \/ InState(r, {"trashed", "missing"})
    BY <1>1, <1>2, <1>4, Parts DEF JobOK, Locking
  <2>2. RowMoves(w, r)
    BY <2>1 DEF Moves
  <2>3. CASE rows'[r] = rows[r]
    BY <2>1, <2>3 DEF Known, InState
  <2>4. CASE r = op[w].rec /\ op[w].pc \in Finalizing
    <3>1. op[w].pc \in Locking
      BY <2>4 DEF Locking
    <3>2. Organizer(v) = Organizer(w)
      BY <1>2, <2>1, <2>4, OrganizerAssumption DEF JobOK, Organizer
    <3> QED
      BY <1>1, <2>1, <2>4, <3>1, <3>2 DEF JobInv, Apart
  <2> QED
    BY <2>1, <2>2, <2>3, <2>4 DEF RowMoves, InState
<1> QED
  BY <1>1, <1>2, <1>3, <1>4 DEF JobOK

LEMMA ApartKept ==
  ASSUME JobInv, NEW w \in Worker, Moves(w)
  PROVE  Apart'
<1>1. ASSUME NEW v \in Worker \ {w}, Organizer(v) = Organizer(w), op'[v].pc \in Locking, op'[w].pc \in Locking
      PROVE  op'[v].rec # op'[w].rec
  <2>1. op'[v] = op[v]
    BY DEF Moves
  <2>2. CASE op[w].pc \in Locking /\ op'[w].rec = op[w].rec
    BY <1>1, <2>1, <2>2 DEF JobInv, Apart
  <2>3. CASE ~Busy(w, op'[w].rec)
    <3>1. op[v].pc \notin {"m_state", "m_refuse"}
      BY <1>1, <2>1, Parts DEF Locking, Sweeping
    <3> QED
      BY <1>1, <2>1, <2>3, <3>1 DEF Busy
  <2> QED
    BY <1>1, <2>2, <2>3 DEF Moves
<1>2. ASSUME NEW u \in Worker \ {w}, NEW v \in Worker \ {w}, u # v, Organizer(u) = Organizer(v),
             op'[u].pc \in Locking, op'[v].pc \in Locking
      PROVE  op'[u].rec # op'[v].rec
  BY <1>2 DEF Moves, JobInv, Apart
<1> QED
  BY <1>1, <1>2 DEF Apart, Organizer

(* A crash ends what the process was at, and nothing else moves.           *)
LEMMA CrashKeeps ==
  ASSUME JobInv, NEW process, Crash(process)
  PROVE  /\ JobInv' /\ UNCHANGED <<rows, refused>> /\ crashes' = crashes + 1
         /\ \A w \in Worker : op'[w] = op[w] \/ op'[w] = Idle
<1>1. /\ crashes < MaxCrashes /\ crashes' = crashes + 1
      /\ UNCHANGED <<rows, files, sidecars, refused, titled, condemned, erased>>
      /\ op' = [w \in Worker |-> IF Organizer(w) = process THEN Idle ELSE op[w]]
  BY DEF Crash
<1>2. \A w \in Worker : op'[w] = op[w] \/ op'[w] = Idle
  BY <1>1
<1>3. TypeOK'
  <2>1. op' \in [Worker -> Op]
    BY <1>1, Steps DEF JobInv, TypeOK
  <2>2. crashes' \in 0 .. MaxCrashes
    BY <1>1 DEF JobInv, TypeOK
  <2>3. /\ failures' \in [Recording -> 0 .. MaxRemuxAttempts - 1]
        /\ fresh' \subseteq Recording /\ parked' \subseteq Recording
        /\ listed' \in [Recording -> Path \cup {NoPath}]
    <3>1. CASE /\ failures' = [r \in Recording |-> 0] /\ fresh' = {} /\ parked' = {}
               /\ listed' = [r \in Recording |-> NoPath]
      <4>1. 0 \in 0 .. MaxRemuxAttempts - 1
        BY OrganizerAssumption
      <4> QED
        BY <3>1, <4>1
    <3>2. CASE UNCHANGED <<failures, fresh, parked, listed>>
      BY <3>2 DEF JobInv, TypeOK
    <3> QED
      BY <3>1, <3>2 DEF Crash
  <2> QED
    BY <1>1, <2>1, <2>2, <2>3 DEF JobInv, TypeOK
<1>4. Idle.pc = "idle" /\ "idle" \notin Locking
  BY Steps DEF Idle
<1>5. Apart'
  BY <1>2, <1>4 DEF JobInv, Apart, Organizer
<1>6. \A w \in Worker : JobOK(w)'
  BY <1>1, <1>2, <1>4, Steps DEF JobInv, JobOK, Known, InState, Locking
<1> QED
  BY <1>1, <1>2, <1>3, <1>5, <1>6 DEF JobInv

(* What neither a worker nor a crash does: no row and no operation moves.  *)
LEMMA RestKeeps ==
  ASSUME JobInv, Describe \/ (\E n \in Names : Erase(n)) \/ UNCHANGED vars
  PROVE  JobInv' /\ UNCHANGED <<rows, refused, op, crashes>>
<1>1. UNCHANGED <<rows, refused, op, crashes>>
  BY DEF Describe, Erase, vars
<1>2. TypeOK'
  <2>1. CASE Describe
    BY <2>1 DEF Describe, JobInv, TypeOK
  <2>2. ASSUME NEW n \in Names, Erase(n) PROVE TypeOK'
    <3>1. files' \in [Path -> Content]
      BY <2>2, FilesTyped DEF Erase, JobInv, TypeOK
    <3> QED
      BY <2>2, <3>1 DEF Erase, JobInv, TypeOK
  <2>3. CASE UNCHANGED vars
    BY <2>3 DEF vars, JobInv, TypeOK
  <2> QED
    BY <2>1, <2>2, <2>3
<1>3. Apart' /\ \A w \in Worker : JobOK(w)'
  BY <1>1 DEF JobInv, Apart, JobOK, Known, InState
<1> QED
  BY <1>1, <1>2, <1>3 DEF JobInv

LEMMA JobInvInit == Init => JobInv
<1> SUFFICES ASSUME Init PROVE JobInv
  OBVIOUS
<1>1. \A r \in Recording : Arrival(r) \in Path
  BY PathFacts DEF Arrival
<1>2. rows \in [Recording -> Row \cup {NoRow}]
  BY <1>1 DEF Init, Row, State
<1>3. files \in [Path -> Content]
  BY DEF Init, Content
<1>4. failures \in [Recording -> 0 .. MaxRemuxAttempts - 1] /\ crashes \in 0 .. MaxCrashes
  <2>1. 0 \in 0 .. MaxRemuxAttempts - 1 /\ 0 \in 0 .. MaxCrashes
    BY OrganizerAssumption
  <2> QED
    BY <2>1 DEF Init
<1>5. op \in [Worker -> Op] /\ \A w \in Worker : op[w].pc = "idle"
  BY Steps DEF Init
<1>6. TypeOK
  BY <1>2, <1>3, <1>4, <1>5 DEF Init, TypeOK
<1>7. Apart /\ \A w \in Worker : JobOK(w)
  BY <1>5, Parts DEF Apart, JobOK, Locking, Named, Finalizing
<1> QED
  BY <1>6, <1>7 DEF JobInv

LEMMA WorkKeeps ==
  ASSUME JobInv, NEW w \in Worker, Work(w)
  PROVE  JobInv' /\ Moves(w)
<1>1. Moves(w)
  BY WorkMoves
<1> QED
  BY <1>1, OthersKeep, ApartKept DEF JobInv, Moves

LEMMA JobInvStep == JobInv /\ [Next]_vars => JobInv'
  BY WorkKeeps, CrashKeeps, RestKeeps DEF Next

(* Whatever fails, crashes or is held open, the rows, the volume and what  *)
(* each worker is at stay what the organizer's code can produce.           *)
THEOREM TypeCorrect == Spec => []TypeOK
<1>1. Init => JobInv
  BY JobInvInit
<1>2. JobInv /\ [Next]_vars => JobInv'
  BY JobInvStep
<1>3. JobInv => TypeOK
  BY DEF JobInv
<1> QED
  BY <1>1, <1>2, <1>3, PTL DEF Spec

(* Two calls through one organizer are at two recordings, and a recording  *)
(* somebody releases has no row, or one in the trash or declared missing.  *)
THEOREM WorkIsApart == Spec => []JobInv
<1>1. Init => JobInv
  BY JobInvInit
<1>2. JobInv /\ [Next]_vars => JobInv'
  BY JobInvStep
<1> QED
  BY <1>1, <1>2, PTL DEF Spec

----------------------------------------------------------------------------
(* What the operator deleted stays deleted *)

(* A broadcast all of whose recordings are missing is refused, or the      *)
(* sweep that found the last of them so is about to refuse it.             *)
DeletedInv ==
  crashes = 0 /\ (\A r \in Recording : InState(r, {"missing"})) =>
    refused \/ \E w \in Worker : At(w, "m_refuse")

LEMMA DeletedByWork ==
  ASSUME ~StoreFails, JobInv, DeletedInv, NEW w \in Worker, Moves(w)
  PROVE  DeletedInv'
<1> SUFFICES ASSUME crashes' = 0, \A r \in Recording : InState(r, {"missing"})', ~refused'
             PROVE  \E v \in Worker : At(v, "m_refuse")'
  BY DEF DeletedInv
<1>1. crashes = 0 /\ ~refused
  BY DEF Moves
<1>2. CASE \A r \in Recording : InState(r, {"missing"})
  <2>1. PICK v \in Worker : At(v, "m_refuse")
    BY <1>1, <1>2 DEF DeletedInv
  <2>2. v # w
    <3>1. \A r \in Recording : ~HoldsBytes(rows[r].state)
      BY <1>2 DEF InState, HoldsBytes, PendingStates
    <3> QED
      BY <2>1, <3>1 DEF Moves, RefuseUnlessHeld
  <2> QED
    BY <2>1, <2>2 DEF Moves, At
<1>3. ASSUME NEW r \in Recording, ~InState(r, {"missing"}) PROVE At(w, "m_refuse")'
  <2>1. InState(r, {"missing"})' /\ RowMoves(w, r)
    BY DEF Moves
  <2> QED
    BY <1>3, <2>1 DEF RowMoves, InState, Known
<1> QED
  BY <1>2, <1>3

(* refuseFetchIfNothingLeft (daemon.go): a broadcast whose files the       *)
(* operator deleted does not come back.  While the store answers, every    *)
(* recording found missing and the sweep done, recovery may not download   *)
(* the broadcast, however the sweep ran beside the other workers.          *)
THEOREM DeletedRefused == ~StoreFails => (Spec => []DeletedIsRefused)
<1> SUFFICES ASSUME ~StoreFails PROVE Spec => []DeletedIsRefused
  OBVIOUS
<1>1. Init => JobInv /\ DeletedInv
  <2>1. Init => DeletedInv
    BY OrganizerAssumption DEF Init, DeletedInv, InState
  <2> QED
    BY <2>1, JobInvInit
<1>2. JobInv /\ DeletedInv /\ [Next]_vars => JobInv' /\ DeletedInv'
  <2> SUFFICES ASSUME JobInv, DeletedInv, [Next]_vars PROVE JobInv' /\ DeletedInv'
    OBVIOUS
  <2>1. ASSUME NEW w \in Worker, Work(w) PROVE JobInv' /\ DeletedInv'
    BY <2>1, WorkKeeps, DeletedByWork
  <2>2. ASSUME NEW process, Crash(process) PROVE JobInv' /\ DeletedInv'
    <3>1. JobInv' /\ crashes' = crashes + 1
      BY <2>2, CrashKeeps
    <3>2. crashes \in Nat
      BY OrganizerAssumption DEF JobInv, TypeOK
    <3> QED
      BY <3>1, <3>2 DEF DeletedInv
  <2>3. CASE Describe \/ (\E n \in Names : Erase(n)) \/ UNCHANGED vars
    BY <2>3, RestKeeps DEF DeletedInv, InState, Known, At
  <2> QED
    BY <2>1, <2>2, <2>3 DEF Next
<1>3. DeletedInv => DeletedIsRefused
  BY DEF DeletedInv, DeletedIsRefused, At, Free
<1> QED
  BY <1>1, <1>2, <1>3, PTL DEF Spec

----------------------------------------------------------------------------
(* What the operator purged stays purged *)

(* A recording that is purged, or that somebody is releasing.              *)
Gone(q) ==
  \/ ~Known(q) \/ InState(q, {"trashed"})
  \/ \E w \in Worker : op[w].pc \in Releasing /\ op[w].rec = q

(* A purge past its refusal knows the others of the broadcast: if all of   *)
(* them are gone it has refused the broadcast already.                     *)
PurgeInv ==
  /\ (\A q \in Recording : Gone(q)) => refused
  /\ \A w \in Worker :
       /\ op[w].pc \in Purging \ {"t_refuse"}
       /\ \A q \in Recording \ {op[w].rec} : Gone(q)
       => refused

LEMMA GoneHoldsNothing ==
  ASSUME JobInv, NEW q \in Recording, Gone(q)
  PROVE  ~(Known(q) /\ HoldsBytes(rows[q].state))
<1>1. ~Known(q) \/ InState(q, {"trashed", "missing"})
  BY DEF Gone, JobInv, JobOK, InState
<1> QED
  BY <1>1 DEF InState, HoldsBytes, PendingStates

(* Only the last step of a purge makes a recording gone.                   *)
LEMMA GoneBefore ==
  ASSUME JobInv, NEW w \in Worker, Moves(w), NEW q \in Recording, Gone(q)'
  PROVE  Gone(q) \/ (At(w, "t_state") /\ op[w].rec = q)
<1>1. RowMoves(w, q)
  BY DEF Moves
<1>2. CASE ~Known(q)'
  <2>1. At(w, "r_row") => op[w].pc \in Releasing
    BY DEF At, Releasing
  <2> QED
    BY <1>1, <1>2, <2>1 DEF RowMoves, Gone, Known
<1>3. CASE InState(q, {"trashed"})'
  BY <1>1, <1>3 DEF RowMoves, Gone, InState, Known
<1>4. ASSUME NEW v \in Worker, op'[v].pc \in Releasing, op'[v].rec = q PROVE Gone(q)
  <2>1. CASE v # w
    BY <1>4, <2>1 DEF Moves, Gone
  <2>2. CASE v = w
    <3>1. op'[w].pc \in Locking
      BY <1>4, <2>2 DEF Locking
    <3>2. CASE op'[w].rec = op[w].rec /\ op[w].pc \in Releasing
      BY <1>4, <2>2, <3>2 DEF Gone
    <3>3. CASE InState(op'[w].rec, {"trashed"})
      BY <1>4, <2>2, <3>3 DEF Gone
    <3> QED
      BY <1>4, <2>2, <3>1, <3>2, <3>3 DEF Moves
  <2> QED
    BY <2>1, <2>2
<1> QED
  BY <1>2, <1>3, <1>4 DEF Gone

LEMMA PurgeByWork ==
  ASSUME \A v, w \in Operator : v = w, JobInv, PurgeInv, NEW w \in Worker, Moves(w)
  PROVE  PurgeInv'
<1>1. refused => refused'
  BY DEF Moves
<1>2. At(w, "t_state") => op[w].pc \in Purging \ {"t_refuse"} /\ w \in Operator
  BY DEF At, Purging, JobInv, JobOK
<1>3. ASSUME \A q \in Recording : Gone(q)' PROVE refused'
  <2>1. CASE \A q \in Recording : Gone(q)
    BY <1>1, <2>1 DEF PurgeInv
  <2>2. ASSUME NEW r \in Recording, ~Gone(r) PROVE refused'
    <3>1. At(w, "t_state") /\ op[w].rec = r
      BY <1>3, <2>2, GoneBefore
    <3>2. \A q \in Recording \ {r} : Gone(q)
      BY <1>3, <3>1, GoneBefore
    <3> QED
      BY <1>1, <1>2, <3>1, <3>2 DEF PurgeInv
  <2> QED
    BY <2>1, <2>2
<1>4. ASSUME NEW v \in Worker, op'[v].pc \in Purging \ {"t_refuse"}, NEW r, op'[v].rec = r,
             \A q \in Recording \ {r} : Gone(q)'
      PROVE  refused'
  <2>1. CASE v # w
    <3>1. op[v] = op'[v]
      BY <2>1 DEF Moves
    <3>2. v \in Operator
      BY <1>4, <3>1 DEF JobInv, JobOK
    <3>3. \A q \in Recording \ {r} : Gone(q)
      BY <1>2, <1>4, <2>1, <3>2, GoneBefore
    <3> QED
      BY <1>1, <1>4, <3>1, <3>3 DEF PurgeInv
  <2>2. CASE v = w
    <3>1. op'[w].pc \in Locking /\ op'[w].pc # "t_refuse"
      BY <1>4, <2>2 DEF Locking
    <3>2. op[w].rec = r /\ op[w].pc \in Purging
      BY <1>4, <2>2, <3>1 DEF Moves
    <3>3. \A q \in Recording \ {r} : Gone(q)
      BY <1>4, <3>2, GoneBefore
    <3>4. CASE op[w].pc \in Purging \ {"t_refuse"}
      BY <1>1, <3>2, <3>3, <3>4 DEF PurgeInv
    <3>5. CASE RefuseUnlessHeld(Recording \ {op[w].rec})
      BY <3>2, <3>3, <3>5, GoneHoldsNothing DEF RefuseUnlessHeld
    <3> QED
      BY <1>4, <2>2, <3>4, <3>5 DEF Moves
  <2> QED
    BY <2>1, <2>2
<1> QED
  BY <1>3, <1>4 DEF PurgeInv

(* refuseFetchWithoutThisCopy (organize.go): once every recording of a     *)
(* broadcast is in the trash or released, recovery may not download it     *)
(* again, whatever crashes between the steps of the purges and whatever    *)
(* the recorder does meanwhile.  It takes one interface: two that purge    *)
(* the last two recordings at once each see the other's still held.        *)
THEOREM PurgedRefused ==
  (\A v, w \in Operator : v = w) => (Spec => []PurgedIsRefused)
<1> SUFFICES ASSUME \A v, w \in Operator : v = w PROVE Spec => []PurgedIsRefused
  OBVIOUS
<1>1. Init => JobInv /\ PurgeInv
  <2> SUFFICES ASSUME Init PROVE PurgeInv
    BY JobInvInit
  <2>1. \A w \in Worker : op[w].pc = "idle"
    BY Steps DEF Init
  <2>2. "idle" \notin Purging \cup Releasing
    BY DEF Purging, Releasing
  <2>3. \A q \in Recording : rows[q] \in Row /\ rows[q].state = "awaiting_finalize"
    BY PathFacts DEF Init, Row, State, Arrival
  <2>4. \A q \in Recording : ~Gone(q)
    BY <2>1, <2>2, <2>3, OrganizerAssumption DEF Gone, Known, InState
  <2> QED
    BY <2>1, <2>2, <2>4, OrganizerAssumption DEF PurgeInv
<1>2. JobInv /\ PurgeInv /\ [Next]_vars => JobInv' /\ PurgeInv'
  <2> SUFFICES ASSUME JobInv, PurgeInv, [Next]_vars PROVE JobInv' /\ PurgeInv'
    OBVIOUS
  <2>1. ASSUME NEW w \in Worker, Work(w) PROVE JobInv' /\ PurgeInv'
    BY <2>1, WorkKeeps, PurgeByWork
  <2>2. ASSUME NEW process, Crash(process) PROVE JobInv' /\ PurgeInv'
    <3>1. /\ JobInv' /\ UNCHANGED <<rows, refused>>
          /\ \A w \in Worker : op'[w] = op[w] \/ op'[w] = Idle
      BY <2>2, CrashKeeps
    <3>2. Idle.pc \notin Purging \cup Releasing
      BY DEF Idle, Purging, Releasing
    <3>3. \A q \in Recording : Gone(q)' => Gone(q)
      BY <3>1, <3>2 DEF Gone, Known, InState
    <3> QED
      BY <3>1, <3>2, <3>3 DEF PurgeInv
  <2>3. CASE Describe \/ (\E n \in Names : Erase(n)) \/ UNCHANGED vars
    BY <2>3, RestKeeps DEF PurgeInv, Gone, InState, Known
  <2> QED
    BY <2>1, <2>2, <2>3 DEF Next
<1>3. PurgeInv => PurgedIsRefused
  BY DEF PurgeInv, Gone, PurgedIsRefused, InState
<1> QED
  BY <1>1, <1>2, <1>3, PTL DEF Spec

----------------------------------------------------------------------------
(* What is finalized is whole *)

(* Recordings are finalized, and nothing else is done to them: none is     *)
(* purged, released or encoded again, nobody deletes library files, and    *)
(* the lengths tell recordings apart.  A file is held by another program   *)
(* only while one worker finalizes.                                        *)
Calm ==
  /\ Recompressor = {} /\ Releaser = {} /\ Operator = {} /\ Longest = {} /\ ~MayErase
  /\ FileLocks => \A v, w \in Worker : v = w

Vacant(n) == ~Present(NamePath(n)) /\ NamePath(n) \notin sidecars

(* Where the media of a recording lies, by what its row names.             *)
Lies(r) ==
  \/ rows[r].path = CapturePath(r) /\ files[CapturePath(r)] = r
  \/ /\ rows[r].path = RemuxPath(r)
     /\ \/ files[RemuxPath(r)] = r
        \/ files[RemuxPath(r)] = Absent /\ \E n \in Names : files[NamePath(n)] = r
  \/ \E n \in Names : rows[r].path = NamePath(n) /\ files[NamePath(n)] = r

(* Media takes the first free name, and a name once taken is not given up  *)
(* below it: nothing that lies in the library ever moves to another name.  *)
NoGaps == \A j, k \in Names : j < k /\ files[NamePath(k)] \in Recording => ~Vacant(j)

Filed ==
  /\ \A r \in Recording : Known(r) /\ Lies(r)
  /\ NoGaps
  /\ sidecars \subseteq {NamePath(n) : n \in Names}
  /\ \A r \in Recording : rows[r].state = "complete" => rows[r].path \in sidecars

(* Every lower name is taken, and no higher one that would be stranded if  *)
(* this one were given up.                                                 *)
Reserved(n) ==
  \A k \in Names : /\ k < n => ~Vacant(k)
                   /\ FileLocks /\ n < k => files[NamePath(k)] \notin Recording

(* What a worker that finalizes r knows at each step.                      *)
Knows(o, r) ==
  /\ o.pc \in Finalizing \cup Sweeping
  /\ \A n \in o.taken : n \in Names => Present(NamePath(n))
  /\ o.taken # {} => o.path = RemuxPath(r)
  /\ o.pc \in {"remux", "remuxing"} => o.path = CapturePath(r) /\ rows[r].path = CapturePath(r)
  /\ o.pc = "drop" => o.path = CapturePath(r) /\ rows[r].path = RemuxPath(r)
  /\ o.pc \in {"render", "pick", "claim", "move", "path"} =>
       o.path = rows[r].path /\ rows[r].path # CapturePath(r)
  /\ o.pc \in {"claim", "move"} =>
       /\ o.path = RemuxPath(r) /\ files[RemuxPath(r)] = r
       /\ \E n \in Names : o.target = NamePath(n) /\ Reserved(n)
  /\ o.pc = "move" => files[o.target] = Placeholder
  /\ o.pc = "path" => files[o.target] = r /\ (o.target = o.path \/ files[o.path] = Absent)
  /\ o.pc \in {"sidecar", "complete"} => rows[r].path = o.target
  /\ o.pc = "complete" => o.target \in sidecars

OnIt(w) == op[w].pc # "idle" => Knows(op[w], op[w].rec)

OwnTargets ==
  \A v, w \in Worker : v # w /\ At(v, "move") /\ At(w, "move") => op[v].target # op[w].target

WholeInv == JobInv /\ Filed /\ OwnTargets /\ \A w \in Worker : OnIt(w)

LEMMA PathsApart ==
  /\ \A q, r \in Recording : /\ CapturePath(q) = CapturePath(r) => q = r
                             /\ RemuxPath(q) = RemuxPath(r) => q = r
                             /\ CapturePath(q) # RemuxPath(r)
  /\ \A r \in Recording, n \in Names : CapturePath(r) # NamePath(n) /\ RemuxPath(r) # NamePath(n)
  /\ \A m, n \in Names : NamePath(m) = NamePath(n) => m = n
  BY DEF CapturePath, RemuxPath, NamePath

LEMMA RowFields ==
  ASSUME JobInv, NEW r \in Recording, Known(r)
  PROVE  /\ \A state \in State : SetState(r, state) =>
              /\ \A q \in Recording \ {r} : rows'[q] = rows[q]
              /\ rows'[r].path = rows[r].path /\ rows'[r].state = state
         /\ \A path \in Path : SetPath(r, path) =>
              /\ \A q \in Recording \ {r} : rows'[q] = rows[q]
              /\ rows'[r].path = path /\ rows'[r].state = rows[r].state
<1>1. rows \in [Recording -> Row \cup {NoRow}] /\ rows[r] \in Row
  BY DEF JobInv, TypeOK, Known
<1>2. ASSUME NEW row, rows' = [rows EXCEPT ![r] = row]
      PROVE  rows'[r] = row /\ \A q \in Recording \ {r} : rows'[q] = rows[q]
  BY <1>1, <1>2
<1>3. ASSUME NEW state \in State, SetState(r, state)
      PROVE  /\ \A q \in Recording \ {r} : rows'[q] = rows[q]
             /\ rows'[r].path = rows[r].path /\ rows'[r].state = state
  <2> DEFINE new == [rows[r] EXCEPT !.state = state]
  <2>1. new.path = rows[r].path /\ new.state = state
    BY <1>1 DEF Row
  <2>2. rows' = [rows EXCEPT ![r] = new]
    BY <1>3 DEF SetState
  <2> HIDE DEF new
  <2> QED
    BY <1>2, <2>1, <2>2
<1>4. ASSUME NEW path \in Path, SetPath(r, path)
      PROVE  /\ \A q \in Recording \ {r} : rows'[q] = rows[q]
             /\ rows'[r].path = path /\ rows'[r].state = rows[r].state
  <2> DEFINE new == [rows[r] EXCEPT !.path = path]
  <2>1. new.path = path /\ new.state = rows[r].state
    BY <1>1 DEF Row
  <2>2. rows' = [rows EXCEPT ![r] = new]
    BY <1>4 DEF SetPath
  <2> HIDE DEF new
  <2> QED
    BY <1>2, <2>1, <2>2
<1> QED
  BY <1>3, <1>4

(* What a step of one worker leaves to the others.                         *)
Gentle(w, r) ==
  /\ \A v \in Worker \ {w} : op'[v] = op[v]
  /\ \A q \in Recording \ {r} : rows'[q] = rows[q]
  /\ \A q \in Recording : q # r \/ op[w].pc \notin Finalizing =>
       /\ rows'[q].path = rows[q].path
       /\ files'[CapturePath(q)] = files[CapturePath(q)] /\ files'[RemuxPath(q)] = files[RemuxPath(q)]
  /\ \A n \in Names :
       /\ files[NamePath(n)] \in Recording => files'[NamePath(n)] = files[NamePath(n)]
       /\ ~FileLocks /\ Present(NamePath(n)) => Present(NamePath(n))'
       /\ files[NamePath(n)] = Placeholder =>
            files'[NamePath(n)] = Placeholder \/ (At(w, "move") /\ op[w].target = NamePath(n))
  /\ sidecars \subseteq sidecars'

LEMMA OthersLie ==
  ASSUME JobInv, Filed, NEW w \in Worker, NEW r \in Recording, Gentle(w, r), NEW q \in Recording \ {r}
  PROVE  Lies(q)'
<1>1. /\ rows'[q] = rows[q] /\ files'[CapturePath(q)] = files[CapturePath(q)]
      /\ files'[RemuxPath(q)] = files[RemuxPath(q)]
      /\ \A n \in Names : files[NamePath(n)] = q => files'[NamePath(n)] = q
  BY DEF Gentle
<1>2. Lies(q)
  BY DEF Filed
<1> QED
  BY <1>1, <1>2 DEF Lies

LEMMA OthersKnow ==
  ASSUME Calm, WholeInv, NEW w \in Worker, NEW r, op[w].rec = r, Gentle(w, r), NEW v \in Worker \ {w}
  PROVE  OnIt(v)'
<1> SUFFICES ASSUME op'[v].pc # "idle" PROVE OnIt(v)'
  BY DEF OnIt
<1>1. PICK q : op[v].rec = q
  OBVIOUS
<1>2. PICK o : op[v] = o
  OBVIOUS
<1>3. op'[v] = o /\ o.rec = q /\ q \in Recording /\ Knows(o, q) /\ ~FileLocks
  BY <1>1, <1>2 DEF Gentle, WholeInv, JobInv, JobOK, OnIt, Calm
<1>4. \A n \in Names : (Present(NamePath(n)) => Present(NamePath(n))') /\ (~Vacant(n) => ~Vacant(n)')
  BY <1>3 DEF Gentle, Vacant, Present
<1>5. o.pc \in Finalizing =>
        /\ rows'[q].path = rows[q].path
        /\ files'[CapturePath(q)] = files[CapturePath(q)] /\ files'[RemuxPath(q)] = files[RemuxPath(q)]
  <2> SUFFICES ASSUME o.pc \in Finalizing PROVE q # r \/ op[w].pc \notin Finalizing
    BY <1>3 DEF Gentle
  <2> SUFFICES ASSUME op[w].pc \in Finalizing PROVE q # r
    OBVIOUS
  <2>1. Organizer(v) = Organizer(w)
    BY DEF Calm, Organizer
  <2> QED
    BY <1>1, <1>2, <2>1 DEF WholeInv, JobInv, Apart, Locking
<1>6. o.pc \in {"remux", "remuxing", "drop", "render", "pick", "claim", "move", "path", "sidecar", "complete"} =>
        o.pc \in Finalizing
  BY DEF Finalizing
<1>7. o.pc \in Named => \E n \in Names : o.target = NamePath(n)
  BY <1>2 DEF WholeInv, JobInv, JobOK
<1>8. o.pc \in {"claim", "move"} => \E n \in Names : o.target = NamePath(n) /\ Reserved(n)'
  BY <1>3, <1>4 DEF Knows, Reserved
<1>9. o.pc = "move" => files'[o.target] = Placeholder
  <2> SUFFICES ASSUME o.pc = "move" PROVE files'[o.target] = Placeholder
    OBVIOUS
  <2>1. PICK n \in Names : o.target = NamePath(n)
    BY <1>7 DEF Named
  <2>2. files[NamePath(n)] = Placeholder
    BY <1>3, <2>1 DEF Knows
  <2>3. ~(At(w, "move") /\ op[w].target = NamePath(n))
    BY <1>2, <2>1 DEF WholeInv, OwnTargets, At
  <2> QED
    BY <2>1, <2>2, <2>3 DEF Gentle
<1>10. o.pc = "path" => files'[o.target] = q /\ (o.target = o.path \/ files'[o.path] = Absent)
  <2> SUFFICES ASSUME o.pc = "path"
               PROVE  files'[o.target] = q /\ (o.target = o.path \/ files'[o.path] = Absent)
    OBVIOUS
  <2>1. PICK n \in Names : o.target = NamePath(n)
    BY <1>7 DEF Named
  <2>2. files[NamePath(n)] = q /\ (o.target = o.path \/ files[o.path] = Absent)
        /\ o.path = rows[q].path /\ rows[q].path # CapturePath(q)
    BY <1>3, <2>1 DEF Knows
  <2>3. files'[NamePath(n)] = q
    BY <1>3, <2>2 DEF Gentle
  <2>4. ASSUME files[o.path] = Absent PROVE files'[o.path] = Absent
    <3>1. o.path = RemuxPath(q)
      BY <1>3, <2>2, <2>4, OrganizerAssumption DEF WholeInv, Filed, Lies
    <3> QED
      BY <1>5, <1>6, <2>4, <3>1
  <2> QED
    BY <2>1, <2>2, <2>3, <2>4
<1>11. sidecars \subseteq sidecars'
  BY DEF Gentle
<1>12. \A n \in o.taken : n \in Names => Present(NamePath(n))'
  BY <1>3, <1>4 DEF Knows
<1>13. Knows(o, q)'
  BY <1>3, <1>5, <1>6, <1>8, <1>9, <1>10, <1>11, <1>12 DEF Knows
<1> QED
  BY <1>3, <1>13 DEF OnIt

LEMMA NamesKeep ==
  ASSUME NoGaps, \A n \in Names : files'[NamePath(n)] \in Recording => files[NamePath(n)] \in Recording,
         \A n \in Names : ~Vacant(n) => ~Vacant(n)'
  PROVE  NoGaps'
  BY DEF NoGaps

LEMMA Settled ==
  ASSUME Calm, WholeInv, NEW w \in Worker, NEW r \in Recording, op[w].rec = r, Gentle(w, r),
         OnIt(w)', Known(r)', Lies(r)', NoGaps', sidecars' \subseteq {NamePath(n) : n \in Names},
         rows'[r].state = "complete" => rows'[r].path \in sidecars',
         op'[w].pc = "move" => files[op'[w].target] # Placeholder
  PROVE  Filed' /\ OwnTargets' /\ \A v \in Worker : OnIt(v)'
<1>1. JobInv /\ Filed /\ OwnTargets
  BY DEF WholeInv
<1>2. \A q \in Recording \ {r} : rows'[q] = rows[q] /\ Lies(q)'
  BY <1>1, OthersLie DEF Gentle
<1>3. \A q \in Recording : Known(q)' /\ Lies(q)'
  BY <1>1, <1>2 DEF Filed, Known
<1>4. \A q \in Recording : rows'[q].state = "complete" => rows'[q].path \in sidecars'
  BY <1>1, <1>2 DEF Filed, Gentle
<1>5. Filed'
  BY <1>3, <1>4 DEF Filed
<1>6. \A v \in Worker : OnIt(v)'
  BY OthersKnow
<1>7. OwnTargets'
  <2>1. ASSUME NEW v \in Worker \ {w}, At(v, "move")', At(w, "move")'
        PROVE  op'[v].target # op'[w].target
    <3>1. op'[v] = op[v] /\ op[v].pc = "move"
      BY <2>1 DEF Gentle, At
    <3>2. files[op[v].target] = Placeholder
      BY <3>1 DEF WholeInv, OnIt, Knows
    <3> QED
      BY <2>1, <3>1, <3>2 DEF At
  <2>2. ASSUME NEW u \in Worker \ {w}, NEW v \in Worker \ {w}, u # v, At(u, "move")', At(v, "move")'
        PROVE  op'[u].target # op'[v].target
    BY <1>1, <2>2 DEF Gentle, At, OwnTargets
  <2> QED
    BY <2>1, <2>2 DEF OwnTargets, At
<1> QED
  BY <1>5, <1>6, <1>7

(* Only the operation itself moves.                                        *)
LEMMA OnlyGoes ==
  ASSUME Calm, WholeInv, NEW w \in Worker, UNCHANGED <<rows, files, sidecars>>,
         \A v \in Worker \ {w} : op'[v] = op[v], OnIt(w)', op'[w].pc # "move"
  PROVE  Filed' /\ OwnTargets' /\ \A v \in Worker : OnIt(v)'
<1>1. JobInv /\ Filed /\ OwnTargets
  BY DEF WholeInv
<1>2. \A n \in Names : (~Vacant(n) <=> ~Vacant(n)')
  BY DEF Vacant, Present
<1>3. Filed'
  <2>1. NoGaps'
    BY <1>1, <1>2, NamesKeep DEF Filed
  <2>2. \A r \in Recording : Known(r)' /\ Lies(r)'
    BY <1>1 DEF Filed, Known, Lies
  <2> QED
    BY <1>1, <2>1, <2>2 DEF Filed
<1>4. OwnTargets'
  BY <1>1 DEF OwnTargets, At
<1>5. ASSUME NEW v \in Worker \ {w} PROVE OnIt(v)'
  <2>1. op'[v] = op[v] /\ OnIt(v)
    BY DEF WholeInv
  <2>2. PICK o : op[v] = o
    OBVIOUS
  <2>3. PICK q : o.rec = q
    OBVIOUS
  <2>4. Knows(o, q) => Knows(o, q)'
    BY <1>2 DEF Knows, Present, Reserved
  <2> QED
    BY <2>1, <2>2, <2>3, <2>4 DEF OnIt
<1> QED
  BY <1>3, <1>4, <1>5

LEMMA OnwardFields ==
  ASSUME JobInv, NEW w \in Worker
  PROVE  /\ \A pc \in Step : Goto(w, pc) =>
              /\ \A v \in Worker \ {w} : op'[v] = op[v]
              /\ op'[w].pc = pc /\ op'[w].rec = op[w].rec /\ op'[w].path = op[w].path
              /\ op'[w].target = op[w].target /\ op'[w].taken = op[w].taken
         /\ End(w) => (\A v \in Worker \ {w} : op'[v] = op[v]) /\ op'[w].pc = "idle"
         /\ \A r \in Recording, pc \in Step : Begin(w, r, pc) =>
              /\ \A v \in Worker \ {w} : op'[v] = op[v]
              /\ op'[w].pc = pc /\ op'[w].rec = r /\ op'[w].path = rows[r].path
              /\ op'[w].taken = {}
<1>1. op \in [Worker -> Op] /\ op[w] \in Op
  BY DEF JobInv, TypeOK
<1>2. ASSUME NEW pc \in Step, Goto(w, pc)
      PROVE  /\ \A v \in Worker \ {w} : op'[v] = op[v]
             /\ op'[w].pc = pc /\ op'[w].rec = op[w].rec /\ op'[w].path = op[w].path
             /\ op'[w].target = op[w].target /\ op'[w].taken = op[w].taken
  <2> DEFINE o == [op[w] EXCEPT !.pc = pc]
  <2>1. /\ o.pc = pc /\ o.rec = op[w].rec /\ o.path = op[w].path
        /\ o.target = op[w].target /\ o.taken = op[w].taken
    BY <1>1 DEF Op
  <2>2. op' = [op EXCEPT ![w] = o]
    BY <1>2 DEF Goto
  <2> HIDE DEF o
  <2> QED
    BY <1>1, <2>1, <2>2
<1>3. ASSUME End(w) PROVE (\A v \in Worker \ {w} : op'[v] = op[v]) /\ op'[w].pc = "idle"
  BY <1>1, <1>3, Steps DEF End
<1>4. ASSUME NEW r \in Recording, NEW pc \in Step, Begin(w, r, pc)
      PROVE  /\ \A v \in Worker \ {w} : op'[v] = op[v]
             /\ op'[w].pc = pc /\ op'[w].rec = r /\ op'[w].path = rows[r].path
             /\ op'[w].taken = {}
  <2> DEFINE o == [Idle EXCEPT !.pc = pc, !.rec = r, !.path = rows[r].path]
  <2>1. o.pc = pc /\ o.rec = r /\ o.path = rows[r].path /\ o.taken = {}
    BY DEF Idle
  <2>2. op' = [op EXCEPT ![w] = o]
    BY <1>4 DEF Begin
  <2> HIDE DEF o
  <2> QED
    BY <1>1, <2>1, <2>2
<1> QED
  BY <1>2, <1>3, <1>4

(* An operation that ends leaves nothing to know.                          *)
LEMMA SweepsWhole ==
  ASSUME Calm, WholeInv, NEW w \in Worker,
         SweepStep(w) \/ StoreCallFails(w) \/ (\E r \in Recording : BeginFinalize(w, r))
  PROVE  Filed' /\ OwnTargets' /\ \A v \in Worker : OnIt(v)'
<1>1. JobInv /\ Filed /\ op \in [Worker -> Op]
  BY DEF WholeInv, JobInv, TypeOK
<1>2. ASSUME UNCHANGED <<rows, files, sidecars>>, End(w)
      PROVE  Filed' /\ OwnTargets' /\ \A v \in Worker : OnIt(v)'
  <2>1. (\A v \in Worker \ {w} : op'[v] = op[v]) /\ op'[w].pc = "idle"
    BY <1>1, <1>2, OnwardFields
  <2> QED
    BY <1>2, <2>1, OnlyGoes DEF OnIt
<1>3. ASSUME UNCHANGED <<rows, files, sidecars, op>>, op[w].pc = "idle"
      PROVE  Filed' /\ OwnTargets' /\ \A v \in Worker : OnIt(v)'
  BY <1>3, OnlyGoes DEF OnIt
<1>4. ASSUME NEW r \in Recording, BeginFinalize(w, r)
      PROVE  Filed' /\ OwnTargets' /\ \A v \in Worker : OnIt(v)'
  <2> DEFINE pc == IF rows[r].path = CapturePath(r) THEN "remux" ELSE "render"
  <2>1. Begin(w, r, pc) /\ UNCHANGED <<rows, files, sidecars>> /\ pc \in Step
    BY <1>4 DEF BeginFinalize, Step
  <2>2. /\ pc = "remux" => rows[r].path = CapturePath(r)
        /\ pc = "render" => rows[r].path # CapturePath(r)
        /\ pc \in {"remux", "render"}
    OBVIOUS
  <2> HIDE DEF pc
  <2>3. /\ \A v \in Worker \ {w} : op'[v] = op[v]
        /\ op'[w].pc = pc /\ op'[w].rec = r /\ op'[w].path = rows[r].path /\ op'[w].taken = {}
    BY <1>1, <2>1, OnwardFields
  <2>4. PICK o : op'[w] = o
    OBVIOUS
  <2>5. Knows(o, r)'
    BY <2>1, <2>2, <2>3, <2>4 DEF Knows, Finalizing
  <2> QED
    BY <2>1, <2>2, <2>3, <2>4, <2>5, OnlyGoes DEF OnIt
<1>5. ASSUME NEW r \in Recording, LookForFile(w, r)
      PROVE  Filed' /\ OwnTargets' /\ \A v \in Worker : OnIt(v)'
  <2>1. UNCHANGED <<rows, files, sidecars>> /\ op[w].pc = "idle"
    BY <1>5 DEF LookForFile, Free
  <2>2. CASE op' = [op EXCEPT ![w] = [Idle EXCEPT !.pc = "m_state", !.rec = r]]
    <3> DEFINE o == [Idle EXCEPT !.pc = "m_state", !.rec = r]
    <3>1. o.pc = "m_state" /\ o.taken = {} /\ o.rec = r
      BY DEF Idle
    <3>2. op' = [op EXCEPT ![w] = o]
      BY <2>2
    <3> HIDE DEF o
    <3>3. op'[w] = o /\ \A v \in Worker \ {w} : op'[v] = op[v]
      BY <1>1, <3>2
    <3>4. Knows(o, r)'
      BY <3>1 DEF Knows, Sweeping
    <3> QED
      BY <2>1, <3>1, <3>3, <3>4, OnlyGoes DEF OnIt
  <2> QED
    BY <1>3, <1>5, <2>1, <2>2 DEF LookForFile
<1>6. ASSUME DeclareMissing(w)
      PROVE  Filed' /\ OwnTargets' /\ \A v \in Worker : OnIt(v)'
  <2>1. UNCHANGED <<files, sidecars>> /\ op[w].pc = "m_state"
    BY <1>6 DEF DeclareMissing, At
  <2>2. PICK r \in Recording : op[w].rec = r
    BY <2>1 DEF WholeInv, JobInv, JobOK
  <2>3. SetState(r, "missing") /\ Goto(w, "m_refuse") /\ Known(r)
    BY <1>1, <1>6, <2>2 DEF DeclareMissing, Filed
  <2>4. /\ \A q \in Recording \ {r} : rows'[q] = rows[q]
        /\ rows'[r].path = rows[r].path /\ rows'[r].state = "missing"
    BY <1>1, <2>3, RowFields DEF State
  <2>5. /\ \A v \in Worker \ {w} : op'[v] = op[v]
        /\ op'[w].pc = "m_refuse" /\ op'[w].rec = r /\ op'[w].taken = op[w].taken /\ op'[w].path = op[w].path
    BY <1>1, <2>2, <2>3, OnwardFields DEF Step
  <2>6. Gentle(w, r)
    BY <2>1, <2>4, <2>5 DEF Gentle, Present
  <2>7. OnIt(w)'
    <3>1. PICK o : op'[w] = o
      OBVIOUS
    <3>2. Knows(op[w], r)
      BY <2>1, <2>2 DEF WholeInv, OnIt
    <3>3. Knows(o, r)'
      BY <2>1, <2>5, <3>1, <3>2 DEF Knows, Sweeping, Present
    <3> QED
      BY <2>5, <3>1, <3>3 DEF OnIt
  <2>8. Known(r)' /\ Lies(r)' /\ NoGaps'
    <3>1. Known(r)'
      BY <1>1, <2>3, RowChanges DEF JobInv, State
    <3>2. Lies(r)'
      BY <1>1, <2>1, <2>4 DEF Filed, Lies
    <3>3. NoGaps'
      BY <1>1, <2>1, NamesKeep DEF Filed, Vacant, Present
    <3> QED
      BY <3>1, <3>2, <3>3
  <2> QED
    BY <1>1, <2>1, <2>2, <2>4, <2>5, <2>6, <2>7, <2>8, Settled DEF Filed
<1>7. CASE ListParked(w) \/ ListComplete(w)
  BY <1>3, <1>7 DEF ListParked, ListComplete, SweepsNothing, Free
<1>8. ASSUME NEW r \in Recording, SkipParked(w, r) PROVE Filed' /\ OwnTargets' /\ \A v \in Worker : OnIt(v)'
  BY <1>3, <1>8 DEF SkipParked, Free
<1>9. CASE MissingRefuses(w) \/ StoreCallFails(w)
  BY <1>2, <1>9 DEF MissingRefuses, StoreCallFails
<1> QED
  BY <1>4, <1>5, <1>6, <1>7, <1>8, <1>9 DEF SweepStep

LEMMA FinalizeWhole ==
  ASSUME Calm, WholeInv, NEW w \in Worker, FinalizeStep(w)
  PROVE  Filed' /\ OwnTargets' /\ \A v \in Worker : OnIt(v)'
<1> DEFINE Whole == Filed' /\ OwnTargets' /\ \A v \in Worker : OnIt(v)'
<1>1. /\ JobInv /\ Filed /\ op \in [Worker -> Op] /\ files \in [Path -> Content]
      /\ rows \in [Recording -> Row \cup {NoRow}]
  BY DEF WholeInv, JobInv, TypeOK
<1>2. op[w].pc \in Finalizing /\ op[w].pc # "idle"
  BY DEF FinalizeStep, RemuxBegins, RemuxCommits, RemuxFails, RemuxToolMissing, CaptureDropped, Render,
         PickName, ClaimName, MoveIntoLibrary, StorePath, WriteSidecar, Complete, At, Finalizing
<1>3. PICK r \in Recording : op[w].rec = r
  BY <1>1, <1>2 DEF JobInv, JobOK
<1>4. Known(r) /\ Lies(r) /\ Knows(op[w], r) /\ NoGaps /\ op[w].path \in Path
  BY <1>1, <1>2, <1>3 DEF Filed, WholeInv, OnIt, JobInv, JobOK, Locking
<1>5. /\ CapturePath(r) \in Path /\ RemuxPath(r) \in Path
      /\ \A q \in Recording : CapturePath(q) \in Path /\ RemuxPath(q) \in Path
      /\ \A n \in Names : NamePath(n) \in Path
  BY PathFacts
<1>6. Finalizing \subseteq Step /\ {"failed", "awaiting_metadata", "awaiting_file", "complete"} \subseteq State
  BY Steps DEF Locking, State
<1>7. /\ \A state \in State : SetState(r, state) =>
           /\ \A q \in Recording \ {r} : rows'[q] = rows[q]
           /\ rows'[r].path = rows[r].path /\ rows'[r].state = state /\ Known(r)'
      /\ \A path \in Path : SetPath(r, path) =>
           /\ \A q \in Recording \ {r} : rows'[q] = rows[q]
           /\ rows'[r].path = path /\ rows'[r].state = rows[r].state /\ Known(r)'
  BY <1>1, <1>4, RowFields, RowChanges DEF JobInv
<1>8. rows[r].state = "complete" =>
        rows[r].path \in sidecars /\ files[rows[r].path] = r
        /\ \E n \in Names : rows[r].path = NamePath(n)
  BY <1>1, <1>4, PathsApart DEF Filed, Lies
<1>9. ASSUME NEW x, NEW p \in {CapturePath(r), RemuxPath(r)}, files' = [files EXCEPT ![p] = x]
      PROVE  /\ \A n \in Names : files'[NamePath(n)] = files[NamePath(n)]
             /\ \A q \in Recording \ {r} : /\ files'[CapturePath(q)] = files[CapturePath(q)]
                                           /\ files'[RemuxPath(q)] = files[RemuxPath(q)]
             /\ p # CapturePath(r) => files'[CapturePath(r)] = files[CapturePath(r)]
             /\ p # RemuxPath(r) => files'[RemuxPath(r)] = files[RemuxPath(r)]
             /\ files'[p] = x
  BY <1>1, <1>5, <1>9, PathsApart
<1>10. ChargeRemux(r) => /\ \A q \in Recording \ {r} : rows'[q] = rows[q]
                         /\ rows'[r].path = rows[r].path /\ Known(r)'
                         /\ rows'[r].state = rows[r].state \/ rows'[r].state # "complete"
  BY <1>4, <1>6, <1>7 DEF ChargeRemux, Known
(* A step that leaves the library's names and where the row points.        *)
<1>11. ASSUME \A v \in Worker \ {w} : op'[v] = op[v],
              \A n \in Names : files'[NamePath(n)] = files[NamePath(n)],
              \A q \in Recording \ {r} : /\ rows'[q] = rows[q]
                                         /\ files'[CapturePath(q)] = files[CapturePath(q)]
                                         /\ files'[RemuxPath(q)] = files[RemuxPath(q)],
              sidecars' = sidecars, Known(r)', Lies(r)', op'[w].pc # "move", OnIt(w)',
              rows'[r].state = "complete" => rows'[r].path \in sidecars'
       PROVE  Whole
  <2>1. Gentle(w, r)
    BY <1>2, <1>11 DEF Gentle, Present
  <2>2. NoGaps'
    BY <1>4, <1>11, NamesKeep DEF Vacant, Present
  <2> QED
    BY <1>1, <1>3, <1>11, <2>1, <2>2, Settled DEF Filed
<1>12. ASSUME \A v \in Worker \ {w} : op'[v] = op[v],
              \A n \in Names : files'[NamePath(n)] = files[NamePath(n)],
              \A q \in Recording \ {r} : /\ rows'[q] = rows[q]
                                         /\ files'[CapturePath(q)] = files[CapturePath(q)]
                                         /\ files'[RemuxPath(q)] = files[RemuxPath(q)],
              sidecars' = sidecars, Known(r)', op'[w].pc # "move", OnIt(w)',
              rows[r].path = CapturePath(r) => files'[CapturePath(r)] = files[CapturePath(r)],
              rows[r].path = RemuxPath(r) => files'[RemuxPath(r)] = files[RemuxPath(r)],
              rows'[r].path = rows[r].path,
              rows'[r].state = rows[r].state \/ rows'[r].state # "complete"
       PROVE  Whole
  <2>1. Lies(r)'
    BY <1>4, <1>12 DEF Lies
  <2> QED
    BY <1>8, <1>11, <1>12, <2>1
<1>13. ASSUME UNCHANGED <<rows, files, sidecars>>, End(w)
       PROVE  Whole
  BY <1>1, <1>13, OnwardFields, OnlyGoes DEF OnIt
<1>14. End(w) => (\A v \in Worker \ {w} : op'[v] = op[v]) /\ op'[w].pc = "idle" /\ op'[w].pc # "move" /\ OnIt(w)'
  BY <1>1, OnwardFields DEF OnIt
<1>15. \A pc \in Finalizing : Goto(w, pc) =>
         /\ \A v \in Worker \ {w} : op'[v] = op[v]
         /\ op'[w].pc = pc /\ op'[w].rec = r /\ op'[w].path = op[w].path
         /\ op'[w].target = op[w].target /\ op'[w].taken = op[w].taken
  BY <1>1, <1>3, <1>6, OnwardFields
<1>16. ASSUME RemuxBegins(w) PROVE Whole
  <2>1. op[w].pc = "remux" /\ op[w].path = CapturePath(r) /\ rows[r].path = CapturePath(r)
        /\ UNCHANGED <<rows, sidecars>>
    BY <1>4, <1>16 DEF RemuxBegins, At, Knows
  <2>2. CASE files' = [files EXCEPT ![RemuxPath(r)] = Partial] /\ Goto(w, "remuxing")
    <3>1. "remuxing" \in Finalizing
      BY DEF Finalizing
    <3>2. /\ \A v \in Worker \ {w} : op'[v] = op[v]
          /\ op'[w].pc = "remuxing" /\ op'[w].rec = r /\ op'[w].path = op[w].path
          /\ op'[w].target = op[w].target /\ op'[w].taken = op[w].taken
      BY <1>15, <2>2, <3>1
    <3>3. /\ \A n \in Names : files'[NamePath(n)] = files[NamePath(n)]
          /\ \A q \in Recording \ {r} : /\ files'[CapturePath(q)] = files[CapturePath(q)]
                                        /\ files'[RemuxPath(q)] = files[RemuxPath(q)]
          /\ files'[CapturePath(r)] = files[CapturePath(r)]
      BY <1>9, <2>2, PathsApart
    <3>4. PICK o : op'[w] = o
      OBVIOUS
    <3>5. Knows(o, r)'
      BY <1>4, <2>1, <3>1, <3>2, <3>3, <3>4 DEF Knows, Present
    <3>6. OnIt(w)' /\ Known(r)'
      BY <1>4, <2>1, <3>2, <3>4, <3>5 DEF OnIt, Known
    <3> QED
      BY <1>12, <2>1, <3>2, <3>3, <3>6, PathsApart
  <2> QED
    BY <1>3, <1>13, <1>16, <2>1, <2>2 DEF RemuxBegins
<1>17. ASSUME RemuxCommits(w) PROVE Whole
  <2>1. op[w].pc = "remuxing" /\ op[w].path = CapturePath(r) /\ rows[r].path = CapturePath(r)
        /\ UNCHANGED sidecars
    BY <1>4, <1>17 DEF RemuxCommits, At, Knows
  <2>2. files[CapturePath(r)] = r
    BY <1>4, <2>1, PathsApart DEF Lies
  <2>3. files' = [files EXCEPT ![RemuxPath(r)] = r] /\ SetPath(r, RemuxPath(r)) /\ Goto(w, "drop")
    BY <1>3, <1>17, <2>1, <2>2 DEF RemuxCommits
  <2>4. "drop" \in Finalizing
    BY DEF Finalizing
  <2>5. /\ \A v \in Worker \ {w} : op'[v] = op[v]
        /\ op'[w].pc = "drop" /\ op'[w].rec = r /\ op'[w].path = op[w].path
        /\ op'[w].target = op[w].target /\ op'[w].taken = op[w].taken
    BY <1>15, <2>3, <2>4
  <2>6. /\ \A n \in Names : files'[NamePath(n)] = files[NamePath(n)]
        /\ \A q \in Recording \ {r} : /\ files'[CapturePath(q)] = files[CapturePath(q)]
                                      /\ files'[RemuxPath(q)] = files[RemuxPath(q)]
        /\ files'[RemuxPath(r)] = r
    BY <1>9, <2>3
  <2>7. /\ \A q \in Recording \ {r} : rows'[q] = rows[q]
        /\ rows'[r].path = RemuxPath(r) /\ rows'[r].state = rows[r].state /\ Known(r)'
    BY <1>5, <1>7, <2>3
  <2>8. PICK o : op'[w] = o
    OBVIOUS
  <2>9. Knows(o, r)'
    BY <1>4, <2>1, <2>4, <2>5, <2>6, <2>7, <2>8 DEF Knows, Present
  <2>10. OnIt(w)' /\ Lies(r)'
    BY <2>5, <2>6, <2>7, <2>8, <2>9 DEF OnIt, Lies
  <2>11. rows'[r].state # "complete"
    BY <1>8, <2>1, <2>7, PathsApart
  <2> QED
    BY <1>11, <2>1, <2>5, <2>6, <2>7, <2>10, <2>11
<1>18. ASSUME RemuxFails(w) \/ RemuxToolMissing(w) PROVE Whole
  <2>1. op[w].pc = "remuxing" /\ rows[r].path = CapturePath(r) /\ UNCHANGED sidecars
        /\ Remove(RemuxPath(r)) /\ End(w)
    BY <1>3, <1>4, <1>18 DEF RemuxFails, RemuxToolMissing, At, Knows
  <2>2. /\ \A q \in Recording \ {r} : rows'[q] = rows[q]
        /\ rows'[r].path = rows[r].path /\ Known(r)'
        /\ rows'[r].state = rows[r].state \/ rows'[r].state # "complete"
    BY <1>3, <1>4, <1>10, <1>18 DEF RemuxFails, RemuxToolMissing, Known
  <2>3. /\ \A n \in Names : files'[NamePath(n)] = files[NamePath(n)]
        /\ \A q \in Recording \ {r} : /\ files'[CapturePath(q)] = files[CapturePath(q)]
                                      /\ files'[RemuxPath(q)] = files[RemuxPath(q)]
        /\ files'[CapturePath(r)] = files[CapturePath(r)]
    BY <1>9, <2>1, PathsApart DEF Remove
  <2> QED
    BY <1>12, <1>14, <2>1, <2>2, <2>3, PathsApart
<1>19. ASSUME CaptureDropped(w) PROVE Whole
  <2>1. op[w].pc = "drop" /\ op[w].path = CapturePath(r) /\ rows[r].path = RemuxPath(r) /\ UNCHANGED sidecars
    BY <1>4, <1>19 DEF CaptureDropped, At, Knows
  <2>2. CASE /\ Remove(CapturePath(r)) /\ UNCHANGED rows
             /\ op' = [op EXCEPT ![w].pc = "render", ![w].path = RemuxPath(r)]
    <3>1. /\ \A n \in Names : files'[NamePath(n)] = files[NamePath(n)]
          /\ \A q \in Recording \ {r} : /\ files'[CapturePath(q)] = files[CapturePath(q)]
                                        /\ files'[RemuxPath(q)] = files[RemuxPath(q)]
          /\ files'[RemuxPath(r)] = files[RemuxPath(r)]
      BY <1>9, <2>2, PathsApart DEF Remove
    <3> DEFINE x == [op[w] EXCEPT !.pc = "render"]
               o == [x EXCEPT !.path = RemuxPath(r)]
    <3>2. x \in Op /\ x.pc = "render" /\ x.rec = r /\ x.taken = op[w].taken
      BY <1>1, <1>3 DEF Op, Step
    <3>3. o.pc = "render" /\ o.rec = r /\ o.path = RemuxPath(r) /\ o.taken = op[w].taken
      <4> HIDE DEF x
      <4> QED
        BY <3>2 DEF Op
    <3>4. op' = [op EXCEPT ![w] = o]
      BY <1>1, <2>2
    <3> HIDE DEF o
    <3>5. PICK y : y = o
      OBVIOUS
    <3>6. op'[w] = y /\ \A v \in Worker \ {w} : op'[v] = op[v]
      BY <1>1, <3>4, <3>5
    <3>7. Knows(y, r)'
      BY <1>4, <2>1, <2>2, <3>1, <3>3, <3>5, PathsApart DEF Knows, Present, Finalizing
    <3>8. OnIt(w)' /\ op'[w].pc # "move" /\ Known(r)'
      BY <1>4, <2>2, <3>3, <3>5, <3>6, <3>7 DEF OnIt, Known
    <3> QED
      BY <1>12, <2>1, <2>2, <3>1, <3>6, <3>8, PathsApart
  <2>3. CASE ChargeRemux(r) /\ End(w) /\ UNCHANGED files
    BY <1>10, <1>12, <1>14, <2>1, <2>3
  <2> QED
    BY <1>3, <1>19, <2>1, <2>2, <2>3 DEF CaptureDropped
<1>20. ASSUME Render(w) PROVE Whole
  <2>1. op[w].pc = "render" /\ UNCHANGED <<files, sidecars>>
    BY <1>20 DEF Render, At
  <2>2. CASE UNCHANGED rows /\ Goto(w, "pick")
    <3>1. "pick" \in Finalizing
      BY DEF Finalizing
    <3>2. /\ \A v \in Worker \ {w} : op'[v] = op[v]
          /\ op'[w].pc = "pick" /\ op'[w].rec = r /\ op'[w].path = op[w].path
          /\ op'[w].target = op[w].target /\ op'[w].taken = op[w].taken
      BY <1>15, <2>2, <3>1
    <3>3. PICK o : op'[w] = o
      OBVIOUS
    <3>4. Knows(o, r)'
      BY <1>4, <2>1, <2>2, <3>1, <3>2, <3>3 DEF Knows, Present
    <3> QED
      BY <2>1, <2>2, <3>2, <3>3, <3>4, OnlyGoes DEF OnIt
  <2>3. CASE SetState(r, "awaiting_metadata") /\ End(w)
    BY <1>6, <1>7, <1>12, <1>14, <2>1, <2>3
  <2> QED
    BY <1>3, <1>20, <2>2, <2>3 DEF Render
<1>21. ASSUME PickName(w) PROVE Whole
  <2> DEFINE names == IF Present(op[w].path) THEN FreeNames(w) ELSE Orphans(op[w].rec)
             name == NamePath(First(names))
             pc == IF Present(op[w].path) /\ name # op[w].path THEN "claim" ELSE "path"
  <2>1. op[w].pc = "pick" /\ UNCHANGED <<rows, files, sidecars>>
    BY <1>21 DEF PickName, At
  <2>2. op[w].path = rows[r].path /\ rows[r].path # CapturePath(r)
        /\ (\A n \in op[w].taken : n \in Names => Present(NamePath(n)))
        /\ (op[w].taken # {} => op[w].path = RemuxPath(r))
    BY <1>4, <2>1 DEF Knows
  <2>3. CASE End(w)
    BY <1>13, <2>1, <2>3
  <2>4. CASE names # {} /\ op' = [op EXCEPT ![w].target = name, ![w].pc = pc]
    <3>1. names \in SUBSET Names
      BY DEF FreeNames, Orphans
    <3>2. First(names) \in names /\ First(names) \in Names /\ \A m \in names : First(names) <= m
      <4> HIDE DEF names
      <4> QED
        BY <2>4, <3>1, FirstIsIn
    <3>3. PICK n \in Names : n = First(names)
      BY <3>2
    <3>4. n \in names /\ (\A m \in names : n <= m) /\ name = NamePath(n)
      BY <3>2, <3>3
    <3>5. /\ \A v \in Worker \ {w} : op'[v] = op[v]
          /\ op'[w].pc = pc /\ op'[w].rec = r /\ op'[w].path = op[w].path
          /\ op'[w].target = NamePath(n) /\ op'[w].taken = op[w].taken
      <4> DEFINE x == [op[w] EXCEPT !.target = name]
                 y == [x EXCEPT !.pc = pc]
      <4>1. x \in [pc : Step, rec : Recording \cup {NoRecording}, path : Path \cup {NoPath},
                   target : Path, taken : SUBSET Names]
            /\ x.rec = r /\ x.path = op[w].path /\ x.target = NamePath(n) /\ x.taken = op[w].taken
        <5> HIDE DEF name
        <5> QED
          BY <1>1, <1>3, <1>5, <3>4 DEF Op
      <4>2. y.pc = pc /\ y.rec = r /\ y.path = op[w].path /\ y.target = NamePath(n) /\ y.taken = op[w].taken
        <5> HIDE DEF x, pc
        <5> QED
          BY <4>1
      <4>3. op' = [op EXCEPT ![w] = y]
        BY <2>4
      <4> HIDE DEF y
      <4> QED
        BY <1>1, <4>2, <4>3
    <3>6. PICK o : op'[w] = o
      OBVIOUS
    <3>7. CASE ~Present(op[w].path)
      <4>1. pc = "path" /\ n \in Orphans(r)
        BY <1>3, <3>4, <3>7
      <4>2. files[NamePath(n)] = r /\ files[op[w].path] = Absent
        BY <3>7, <4>1 DEF Orphans, HoldsRecording, Calm, Present
      <4> HIDE DEF names, name, pc
      <4>3. Knows(o, r)'
        BY <2>1, <2>2, <3>5, <3>6, <4>1, <4>2 DEF Knows, Present, Finalizing
      <4> QED
        BY <2>1, <3>5, <3>6, <4>1, <4>3, OnlyGoes DEF OnIt
    <3>8. CASE Present(op[w].path) /\ op[w].path = RemuxPath(r)
      <4>1. files[RemuxPath(r)] = r
        BY <1>4, <2>2, <3>8, PathsApart DEF Lies, Present
      <4>2. n \in FreeNames(w) /\ (\A m \in FreeNames(w) : n <= m) /\ pc = "claim"
        BY <3>4, <3>8, PathsApart
      <4>3. \A m \in Names : m \in FreeNames(w) <=> m \notin op[w].taken /\ Vacant(m)
        BY <3>8, PathsApart DEF FreeNames, Vacant
      <4>4. ASSUME NEW k \in Names, k < n PROVE ~Vacant(k)
        <5>1. k \notin FreeNames(w)
          BY <4>2, <4>4 DEF Names
        <5> QED
          BY <2>2, <4>3, <5>1 DEF Vacant
      <4>5. ASSUME NEW k \in Names, n < k PROVE files[NamePath(k)] \notin Recording
        BY <1>4, <4>2, <4>3, <4>5 DEF NoGaps
      <4>6. Reserved(n)'
        BY <2>1, <4>4, <4>5 DEF Reserved, Vacant, Present
      <4> HIDE DEF names, name, pc
      <4>7. Knows(o, r)'
        BY <2>1, <2>2, <3>5, <3>6, <3>8, <4>1, <4>2, <4>6 DEF Knows, Present, Finalizing
      <4> QED
        BY <2>1, <3>5, <3>6, <4>2, <4>7, OnlyGoes DEF OnIt
    <3>9. CASE Present(op[w].path) /\ op[w].path # RemuxPath(r)
      <4>1. PICK m \in Names : rows[r].path = NamePath(m) /\ files[NamePath(m)] = r
        BY <1>4, <2>2, <3>9 DEF Lies
      <4>2. m \in FreeNames(w) /\ n \in FreeNames(w) /\ n <= m
        BY <2>2, <3>4, <3>9, <4>1 DEF FreeNames
      <4>3. n = m
        <5> SUFFICES ASSUME n < m PROVE FALSE
          BY <4>2 DEF Names
        <5>1. ~Vacant(n)
          BY <1>4, <4>1 DEF NoGaps
        <5>2. NamePath(n) # op[w].path
          BY <2>2, <4>1, PathsApart DEF Names
        <5> QED
          BY <4>2, <5>1, <5>2 DEF FreeNames, Vacant
      <4>4. pc = "path" /\ files[NamePath(n)] = r /\ NamePath(n) = op[w].path
        BY <2>2, <3>4, <4>1, <4>3
      <4> HIDE DEF names, name, pc
      <4>5. Knows(o, r)'
        BY <2>1, <2>2, <3>5, <3>6, <4>4 DEF Knows, Present, Finalizing
      <4> QED
        BY <2>1, <3>5, <3>6, <4>4, <4>5, OnlyGoes DEF OnIt
    <3> QED
      BY <3>7, <3>8, <3>9
  <2> QED
    BY <1>21, <2>3, <2>4 DEF PickName
<1>22. ASSUME ClaimName(w) PROVE Whole
  <2>1. op[w].pc = "claim" /\ UNCHANGED <<rows, sidecars>>
    BY <1>22 DEF ClaimName, At
  <2>2. PICK n \in Names : op[w].target = NamePath(n) /\ Reserved(n)
    BY <1>4, <2>1 DEF Knows
  <2>3. /\ op[w].path = RemuxPath(r) /\ rows[r].path = RemuxPath(r) /\ files[RemuxPath(r)] = r
        /\ \A m \in op[w].taken : m \in Names => Present(NamePath(m))
    BY <1>4, <2>1 DEF Knows
  <2>4. CASE /\ Present(op[w].target) /\ UNCHANGED files
             /\ op' = [op EXCEPT ![w].pc = "pick", ![w].target = NoPath, ![w].taken = @ \cup {op[w].target[2]}]
    <3> DEFINE x == [op[w] EXCEPT !.pc = "pick"]
               y == [x EXCEPT !.target = NoPath]
               z == [y EXCEPT !.taken = @ \cup {n}]
    <3>1. x \in Op /\ x.pc = "pick" /\ x.rec = r /\ x.path = op[w].path /\ x.taken = op[w].taken
      BY <1>1, <1>3 DEF Op, Step
    <3>2. y \in Op /\ y.pc = "pick" /\ y.rec = r /\ y.path = op[w].path /\ y.taken = op[w].taken
      <4> HIDE DEF x
      <4> QED
        BY <3>1 DEF Op
    <3>3. z.pc = "pick" /\ z.rec = r /\ z.path = op[w].path /\ z.taken = op[w].taken \cup {n}
      <4> HIDE DEF y
      <4> QED
        BY <3>2 DEF Op
    <3>4. op[w].target[2] = n
      BY <2>2, PathFacts
    <3>5. op' = [op EXCEPT ![w] = z]
      BY <2>4, <3>4
    <3> HIDE DEF z
    <3>6. PICK o : o = z
      OBVIOUS
    <3>7. op'[w] = o /\ \A v \in Worker \ {w} : op'[v] = op[v]
      BY <1>1, <3>5, <3>6
    <3>8. \A m \in o.taken : m \in Names => Present(NamePath(m))
      BY <2>2, <2>3, <2>4, <3>3, <3>6
    <3>9. Knows(o, r)'
      BY <2>1, <2>3, <2>4, <3>3, <3>6, <3>8, PathsApart DEF Knows, Present, Finalizing
    <3> QED
      BY <2>1, <2>4, <3>3, <3>6, <3>7, <3>9, OnlyGoes DEF OnIt
  <2>5. CASE ~Present(op[w].target) /\ files' = [files EXCEPT ![op[w].target] = Placeholder] /\ Goto(w, "move")
    <3>1. "move" \in Finalizing
      BY DEF Finalizing
    <3>2. /\ \A v \in Worker \ {w} : op'[v] = op[v]
          /\ op'[w].pc = "move" /\ op'[w].rec = r /\ op'[w].path = op[w].path
          /\ op'[w].target = op[w].target /\ op'[w].taken = op[w].taken
      BY <1>15, <2>5, <3>1
    <3>3. files[NamePath(n)] = Absent /\ files' = [files EXCEPT ![NamePath(n)] = Placeholder]
      BY <2>2, <2>5 DEF Present
    <3>4. /\ \A m \in Names : m # n => files'[NamePath(m)] = files[NamePath(m)]
          /\ files'[NamePath(n)] = Placeholder
          /\ \A q \in Recording : /\ files'[CapturePath(q)] = files[CapturePath(q)]
                                   /\ files'[RemuxPath(q)] = files[RemuxPath(q)]
      BY <1>1, <1>5, <3>3, PathsApart
    <3>5. \A m \in Names : /\ Present(NamePath(m)) => Present(NamePath(m))'
                           /\ ~Vacant(m) => ~Vacant(m)'
                           /\ files'[NamePath(m)] \in Recording => files[NamePath(m)] \in Recording
                           /\ files[NamePath(m)] \in Recording => files'[NamePath(m)] = files[NamePath(m)]
                           /\ files[NamePath(m)] = Placeholder => files'[NamePath(m)] = Placeholder
      BY <2>1, <3>3, <3>4 DEF Vacant, Present
    <3>6. Gentle(w, r)
      BY <1>2, <2>1, <3>2, <3>4, <3>5 DEF Gentle
    <3>7. NoGaps'
      BY <1>4, <3>5, NamesKeep
    <3>8. Reserved(n)'
      BY <2>2, <3>5 DEF Reserved
    <3>9. PICK o : op'[w] = o
      OBVIOUS
    <3>10. Knows(o, r)'
      BY <2>1, <2>2, <2>3, <3>1, <3>2, <3>4, <3>5, <3>8, <3>9, PathsApart DEF Knows
    <3>11. OnIt(w)' /\ Known(r)' /\ Lies(r)'
      BY <1>4, <2>1, <2>3, <3>2, <3>4, <3>9, <3>10 DEF OnIt, Known, Lies
    <3>12. rows'[r].state = "complete" => rows'[r].path \in sidecars'
      BY <1>8, <2>1
    <3>13. files[op'[w].target] # Placeholder
      BY <2>2, <3>2, <3>3
    <3> QED
      BY <1>1, <1>3, <2>1, <3>6, <3>7, <3>11, <3>12, <3>13, Settled DEF Filed
  <2> QED
    BY <1>22, <2>4, <2>5 DEF ClaimName
<1>23. ASSUME MoveIntoLibrary(w) PROVE Whole
  <2>1. op[w].pc = "move" /\ UNCHANGED sidecars
    BY <1>23 DEF MoveIntoLibrary, At
  <2>2. PICK n \in Names : op[w].target = NamePath(n) /\ Reserved(n)
    BY <1>4, <2>1 DEF Knows
  <2>3. /\ op[w].path = RemuxPath(r) /\ rows[r].path = RemuxPath(r) /\ files[RemuxPath(r)] = r
        /\ files[NamePath(n)] = Placeholder
        /\ \A m \in op[w].taken : m \in Names => Present(NamePath(m))
    BY <1>4, <2>1, <2>2 DEF Knows
  <2>4. Placeholder \notin Recording /\ Absent \notin Recording /\ RemuxPath(r) # NamePath(n)
    BY PathsApart
  <2>5. CASE Move(op[w].path, op[w].target) /\ Goto(w, "path") /\ UNCHANGED rows
    <3>1. "path" \in Finalizing
      BY DEF Finalizing
    <3>2. /\ \A v \in Worker \ {w} : op'[v] = op[v]
          /\ op'[w].pc = "path" /\ op'[w].rec = r /\ op'[w].path = op[w].path
          /\ op'[w].target = op[w].target /\ op'[w].taken = op[w].taken
      BY <1>15, <2>5, <3>1
    <3>3. files' = [files EXCEPT ![NamePath(n)] = r, ![RemuxPath(r)] = Absent]
      BY <2>2, <2>3, <2>5 DEF Move
    <3>4. /\ \A m \in Names : m # n => files'[NamePath(m)] = files[NamePath(m)]
          /\ files'[NamePath(n)] = r /\ files'[RemuxPath(r)] = Absent
          /\ \A q \in Recording \ {r} : /\ files'[CapturePath(q)] = files[CapturePath(q)]
                                        /\ files'[RemuxPath(q)] = files[RemuxPath(q)]
      BY <1>1, <1>5, <2>4, <3>3, PathsApart
    <3>5. \A m \in Names : /\ Present(NamePath(m)) => Present(NamePath(m))'
                           /\ ~Vacant(m) => ~Vacant(m)'
                           /\ files[NamePath(m)] \in Recording => files'[NamePath(m)] = files[NamePath(m)]
                           /\ files[NamePath(m)] = Placeholder => files'[NamePath(m)] = Placeholder \/ m = n
      BY <2>1, <2>3, <2>4, <3>4 DEF Vacant, Present
    <3>6. Gentle(w, r)
      BY <1>2, <2>1, <2>2, <2>5, <3>2, <3>4, <3>5 DEF Gentle, At
    <3>7. NoGaps'
      <4> SUFFICES ASSUME NEW j \in Names, NEW k \in Names, j < k, files'[NamePath(k)] \in Recording
                   PROVE  ~Vacant(j)'
        BY DEF NoGaps
      <4>1. CASE k = n
        BY <2>2, <3>5, <4>1 DEF Reserved
      <4>2. CASE k # n
        BY <1>4, <3>4, <3>5, <4>2 DEF NoGaps
      <4> QED
        BY <4>1, <4>2
    <3>8. PICK o : op'[w] = o
      OBVIOUS
    <3>9. Knows(o, r)'
      BY <2>1, <2>2, <2>3, <2>5, <3>1, <3>2, <3>4, <3>5, <3>8, PathsApart DEF Knows
    <3>10. OnIt(w)' /\ Known(r)' /\ Lies(r)'
      BY <1>4, <2>3, <2>5, <3>2, <3>4, <3>8, <3>9 DEF OnIt, Known, Lies
    <3>11. rows'[r].state = "complete" => rows'[r].path \in sidecars'
      BY <1>8, <2>1, <2>5
    <3> QED
      BY <1>1, <1>3, <2>1, <3>2, <3>6, <3>7, <3>10, <3>11, Settled DEF Filed
  <2>6. ASSUME FileLocks, Remove(op[w].target), End(w), SetState(r, "awaiting_file") \/ UNCHANGED rows
        PROVE  Whole
    <3>1. /\ \A q \in Recording \ {r} : rows'[q] = rows[q]
          /\ rows'[r].path = rows[r].path /\ Known(r)'
          /\ rows'[r].state = rows[r].state \/ rows'[r].state # "complete"
      BY <1>4, <1>6, <1>7, <2>6 DEF Known
    <3>2. files' = [files EXCEPT ![NamePath(n)] = Absent]
      BY <2>2, <2>6 DEF Remove
    <3>3. /\ \A m \in Names : m # n => files'[NamePath(m)] = files[NamePath(m)]
          /\ files'[NamePath(n)] = Absent
          /\ \A q \in Recording : /\ files'[CapturePath(q)] = files[CapturePath(q)]
                                   /\ files'[RemuxPath(q)] = files[RemuxPath(q)]
      BY <1>1, <1>5, <3>2, PathsApart
    <3>4. Gentle(w, r)
      BY <1>2, <1>14, <2>1, <2>2, <2>3, <2>4, <2>6, <3>1, <3>3 DEF Gentle, At
    <3>5. NoGaps'
      <4> SUFFICES ASSUME NEW j \in Names, NEW k \in Names, j < k, files'[NamePath(k)] \in Recording
                   PROVE  ~Vacant(j)'
        BY DEF NoGaps
      <4>1. k # n /\ files[NamePath(k)] \in Recording
        BY <2>4, <3>3
      <4>2. j # n
        BY <2>2, <2>6, <4>1 DEF Reserved
      <4> QED
        BY <1>4, <2>1, <3>3, <4>1, <4>2 DEF NoGaps, Vacant, Present
    <3>6. Lies(r)'
      BY <2>3, <3>1, <3>3 DEF Lies
    <3>7. rows'[r].state = "complete" => rows'[r].path \in sidecars'
      BY <1>8, <2>1, <3>1
    <3> QED
      BY <1>1, <1>3, <1>14, <2>1, <2>6, <3>1, <3>4, <3>5, <3>6, <3>7, Settled DEF Filed
  <2>7. Present(op[w].path)
    BY <2>3, <2>4 DEF Present
  <2> QED
    BY <1>3, <1>23, <2>5, <2>6, <2>7 DEF MoveIntoLibrary
<1>24. ASSUME StorePath(w) PROVE Whole
  <2>1. op[w].pc = "path" /\ UNCHANGED <<files, sidecars>>
    BY <1>24 DEF StorePath, At
  <2>2. PICK n \in Names : op[w].target = NamePath(n)
    BY <1>1, <2>1 DEF JobInv, JobOK, Named
  <2>3. /\ files[NamePath(n)] = r /\ op[w].path = rows[r].path /\ rows[r].path # CapturePath(r)
        /\ NamePath(n) = op[w].path \/ files[op[w].path] = Absent
    BY <1>4, <2>1, <2>2 DEF Knows
  <2>4. CASE SetPath(r, op[w].target) /\ Goto(w, "sidecar")
    <3>1. "sidecar" \in Finalizing
      BY DEF Finalizing
    <3>2. /\ \A v \in Worker \ {w} : op'[v] = op[v]
          /\ op'[w].pc = "sidecar" /\ op'[w].rec = r /\ op'[w].path = op[w].path
          /\ op'[w].target = op[w].target /\ op'[w].taken = op[w].taken
      BY <1>15, <2>4, <3>1
    <3>3. /\ \A q \in Recording \ {r} : rows'[q] = rows[q]
          /\ rows'[r].path = NamePath(n) /\ rows'[r].state = rows[r].state /\ Known(r)'
      BY <1>5, <1>7, <2>2, <2>4
    <3>4. PICK o : op'[w] = o
      OBVIOUS
    <3>5. Knows(o, r)'
      BY <1>4, <2>1, <2>2, <3>1, <3>2, <3>3, <3>4 DEF Knows, Present
    <3>6. OnIt(w)' /\ Lies(r)'
      BY <2>1, <2>3, <3>2, <3>3, <3>4, <3>5 DEF OnIt, Lies
    <3>7. rows'[r].state = "complete" => rows'[r].path \in sidecars'
      BY <1>8, <2>1, <2>3, <3>3
    <3> QED
      BY <1>11, <2>1, <3>2, <3>3, <3>6, <3>7
  <2> QED
    BY <1>3, <1>13, <1>24, <2>1, <2>4 DEF StorePath
<1>25. ASSUME WriteSidecar(w) PROVE Whole
  <2>1. op[w].pc = "sidecar" /\ UNCHANGED <<rows, files>>
    BY <1>25 DEF WriteSidecar, At
  <2>2. PICK n \in Names : op[w].target = NamePath(n)
    BY <1>1, <2>1 DEF JobInv, JobOK, Named
  <2>3. CASE sidecars' = sidecars \cup {op[w].target} /\ Goto(w, "complete")
    <3>1. "complete" \in Finalizing
      BY DEF Finalizing
    <3>2. /\ \A v \in Worker \ {w} : op'[v] = op[v]
          /\ op'[w].pc = "complete" /\ op'[w].rec = r /\ op'[w].path = op[w].path
          /\ op'[w].target = op[w].target /\ op'[w].taken = op[w].taken
      BY <1>15, <2>3, <3>1
    <3>3. Gentle(w, r)
      BY <2>1, <2>3, <3>2 DEF Gentle, Present
    <3>4. NoGaps'
      BY <1>4, <2>1, <2>3, NamesKeep DEF Vacant, Present
    <3>5. PICK o : op'[w] = o
      OBVIOUS
    <3>6. Knows(o, r)'
      BY <1>4, <2>1, <2>3, <3>1, <3>2, <3>5 DEF Knows, Present
    <3>7. OnIt(w)' /\ Known(r)' /\ Lies(r)'
      BY <1>4, <2>1, <3>2, <3>5, <3>6 DEF OnIt, Known, Lies
    <3>8. sidecars' \subseteq {NamePath(m) : m \in Names}
      BY <1>1, <2>2, <2>3 DEF Filed
    <3>9. rows'[r].state = "complete" => rows'[r].path \in sidecars'
      BY <1>8, <2>1, <2>3
    <3> QED
      BY <1>3, <3>2, <3>3, <3>4, <3>7, <3>8, <3>9, Settled
  <2> QED
    BY <1>13, <1>25, <2>1, <2>3 DEF WriteSidecar
<1>26. ASSUME Complete(w) PROVE Whole
  <2>1. op[w].pc = "complete" /\ UNCHANGED <<files, sidecars>> /\ SetState(r, "complete") /\ End(w)
    BY <1>3, <1>26 DEF Complete, At
  <2>2. rows[r].path \in sidecars
    BY <1>4, <2>1 DEF Knows
  <2>3. /\ \A q \in Recording \ {r} : rows'[q] = rows[q]
        /\ rows'[r].path = rows[r].path /\ Known(r)'
    BY <1>6, <1>7, <2>1
  <2>4. Lies(r)'
    BY <1>4, <2>1, <2>3 DEF Lies
  <2> QED
    BY <1>11, <1>14, <2>1, <2>2, <2>3, <2>4
<1> QED
  BY <1>16, <1>17, <1>18, <1>19, <1>20, <1>21, <1>22, <1>23, <1>24, <1>25, <1>26 DEF FinalizeStep

(* While it is calm a worker finalizes or sweeps.                          *)
LEMMA CalmWork ==
  ASSUME Calm, WholeInv, NEW w \in Worker, Work(w)
  PROVE  \/ \E r \in Recording : BeginFinalize(w, r)
         \/ FinalizeStep(w) \/ SweepStep(w) \/ StoreCallFails(w)
<1>1. w \notin Operator /\ w \notin Releaser /\ w \notin Recompressor
  BY DEF Calm
<1>2. \A r \in Recording : ~BeginTrash(w, r) /\ ~BeginRelease(w, r) /\ ~BeginRecompress(w, r)
  BY <1>1 DEF BeginTrash, BeginRelease, BeginRecompress
<1>3. op[w].pc \notin Purging \cup Releasing
  BY <1>1 DEF WholeInv, JobInv, JobOK
<1>4. op[w].pc \notin Encoding
  <2>1. op[w].pc = "idle" \/ op[w].pc \in Finalizing \cup Sweeping
    BY DEF WholeInv, OnIt, Knows
  <2> QED
    BY <2>1, Parts DEF Locking
<1>5. ~PurgeStep(w)
  BY <1>3 DEF PurgeStep, TrashRefuses, TrashSidecar, TrashClaim, TrashMedia, TrashPathStored, TrashStateStored,
              ReleaseRefuses, ReleaseMedia, ReleaseSidecar, ReleaseRow, At, Purging, Releasing
<1>6. ~RecompressStep(w)
  BY <1>4 DEF RecompressStep, EncodeBegins, EncodeEnds, SetAside, Install, MarkRecompressed, OriginalGoes,
              At, Encoding
<1> QED
  BY <1>2, <1>5, <1>6 DEF Work

LEMMA WholeInit == Calm /\ Init => WholeInv
<1> SUFFICES ASSUME Calm, Init PROVE WholeInv
  OBVIOUS
<1>1. JobInv
  BY JobInvInit
<1>2. \A w \in Worker : op[w] = Idle /\ op[w].pc = "idle"
  BY Steps DEF Init
<1>3. \A r \in Recording : Known(r)
  <2> SUFFICES ASSUME NEW r \in Recording PROVE rows[r] # NoRow
    BY DEF Known
  <2>1. rows[r] = [state |-> "awaiting_finalize", path |-> Arrival(r), recompressed |-> FALSE]
    BY DEF Init
  <2>2. Arrival(r) \in Path /\ "awaiting_finalize" \in State
    BY PathFacts DEF Arrival, State
  <2>3. rows[r] \in Row
    BY <2>1, <2>2 DEF Row
  <2> QED
    BY <2>3, OrganizerAssumption
<1>4. \A r \in Recording : rows[r].path = Arrival(r) /\ rows[r].state # "complete"
  BY DEF Init
<1>5. \A r \in Recording, q \in Recording : Arrival(q) = Arrival(r) => q = r
  BY PathsApart DEF Arrival
<1>6. \A r \in Recording : files[Arrival(r)] = r
  <2> SUFFICES ASSUME NEW r \in Recording PROVE files[Arrival(r)] = r
    OBVIOUS
  <2>1. Arrival(r) \in Path
    BY PathFacts DEF Arrival
  <2>2. PICK x : x = CHOOSE q \in Recording : Arrival(r) = Arrival(q)
    OBVIOUS
  <2>3. x = r
    BY <1>5, <2>2
  <2>4. files[Arrival(r)] = x
    BY <2>1, <2>2 DEF Init
  <2> QED
    BY <2>3, <2>4
<1>7. \A r \in Recording : Lies(r)
  BY <1>4, <1>6 DEF Lies, Arrival
<1>8. \A n \in Names : files[NamePath(n)] = Absent
  <2> SUFFICES ASSUME NEW n \in Names PROVE files[NamePath(n)] = Absent
    OBVIOUS
  <2>1. NamePath(n) \in Path /\ \A r \in Recording : NamePath(n) # Arrival(r)
    BY PathFacts, PathsApart DEF Arrival
  <2> QED
    BY <2>1 DEF Init
<1>9. Filed
  BY <1>3, <1>4, <1>7, <1>8, OrganizerAssumption DEF Filed, NoGaps, Init
<1> QED
  BY <1>1, <1>2, <1>9 DEF WholeInv, OwnTargets, OnIt, At

(* Nothing on disk moves, and what is under way goes on or dies.           *)
LEMMA StandsWhole ==
  ASSUME WholeInv, UNCHANGED <<rows, files, sidecars>>,
         \A w \in Worker : op'[w] = op[w] \/ op'[w] = Idle
  PROVE  Filed' /\ OwnTargets' /\ \A w \in Worker : OnIt(w)'
<1>1. JobInv /\ Filed /\ OwnTargets /\ \A w \in Worker : OnIt(w)
  BY DEF WholeInv
<1>3. Idle.pc = "idle"
  BY Steps
<1>4. \A n \in Names : (~Vacant(n) <=> ~Vacant(n)')
  BY DEF Vacant, Present
<1>5. Filed'
  <2>1. NoGaps'
    BY <1>1, <1>4, NamesKeep DEF Filed
  <2>2. \A r \in Recording : Known(r)' /\ Lies(r)'
    BY <1>1 DEF Filed, Known, Lies
  <2> QED
    BY <1>1, <2>1, <2>2 DEF Filed
<1>6. OwnTargets'
  BY <1>1, <1>3 DEF OwnTargets, At
<1>7. ASSUME NEW w \in Worker PROVE OnIt(w)'
  <2>1. CASE op'[w] = Idle
    BY <1>3, <2>1 DEF OnIt
  <2>2. CASE op'[w] = op[w]
    <3>1. PICK o : op[w] = o
      OBVIOUS
    <3>2. PICK q : o.rec = q
      OBVIOUS
    <3>3. Knows(o, q) => Knows(o, q)'
      BY <1>4 DEF Knows, Present, Reserved
    <3> QED
      BY <1>1, <2>2, <3>1, <3>2, <3>3 DEF OnIt
  <2> QED
    BY <2>1, <2>2
<1> QED
  BY <1>5, <1>6, <1>7

LEMMA WholeStep == Calm /\ WholeInv /\ [Next]_vars => WholeInv'
<1> SUFFICES ASSUME Calm, WholeInv, [Next]_vars PROVE WholeInv'
  OBVIOUS
<1>1. JobInv /\ JobInv'
  BY JobInvStep DEF WholeInv
<1>2. ASSUME NEW w \in Worker, Work(w) PROVE Filed' /\ OwnTargets' /\ \A v \in Worker : OnIt(v)'
  BY <1>2, CalmWork, SweepsWhole, FinalizeWhole
<1>3. ASSUME NEW process, Crash(process) PROVE Filed' /\ OwnTargets' /\ \A v \in Worker : OnIt(v)'
  <2>1. UNCHANGED <<rows, files, sidecars>> /\ \A w \in Worker : op'[w] = op[w] \/ op'[w] = Idle
    BY <1>1, <1>3, CrashKeeps DEF Crash
  <2> QED
    BY <2>1, StandsWhole
<1>4. ASSUME Describe \/ UNCHANGED vars PROVE Filed' /\ OwnTargets' /\ \A v \in Worker : OnIt(v)'
  BY <1>4, StandsWhole DEF Describe, vars
<1>5. \A n \in Names : ~Erase(n)
  BY DEF Erase, Calm
<1>6. Filed' /\ OwnTargets' /\ \A v \in Worker : OnIt(v)'
  <2>1. Next \/ UNCHANGED vars
    OBVIOUS
  <2>2. CASE Next
    BY <1>2, <1>3, <1>4, <1>5, <2>2 DEF Next
  <2> QED
    BY <1>4, <2>1, <2>2
<1> QED
  BY <1>1, <1>6 DEF WholeInv

LEMMA CompleteHolds ==
  ASSUME Filed, NEW r \in Recording, rows[r].state = "complete"
  PROVE  files[rows[r].path] = r /\ rows[r].path \in sidecars
<1>1. rows[r].path \in sidecars /\ \E n \in Names : rows[r].path = NamePath(n)
  BY DEF Filed
<1>2. rows[r].path # CapturePath(r) /\ rows[r].path # RemuxPath(r)
  BY <1>1, PathsApart
<1> QED
  BY <1>1, <1>2 DEF Filed, Lies

(* However often the recorder crashes, whichever tool or store call fails, *)
(* and however many goroutines finalize how many recordings of a broadcast *)
(* at once: a row that reads complete names its own media with a sidecar   *)
(* beside it.  What a crash leaves half done never passes for whole.       *)
THEOREM CompleteWhole == Calm => (Spec => []CompleteIsWhole)
<1> SUFFICES ASSUME Calm PROVE Spec => []CompleteIsWhole
  OBVIOUS
<1>1. Init => WholeInv
  BY WholeInit
<1>2. WholeInv /\ [Next]_vars => WholeInv'
  BY WholeStep
<1>3. WholeInv => CompleteIsWhole
  BY CompleteHolds DEF WholeInv, CompleteIsWhole, InState
<1> QED
  BY <1>1, <1>2, <1>3, PTL DEF Spec

(* The search along the series of names adopts no other recording's media, *)
(* although all of a broadcast's recordings render the same name and a     *)
(* crash may leave any of them moved with its path not stored.             *)
THEOREM AdoptsOwn == Calm => (Spec => []AdoptsOwnMedia)
<1> SUFFICES ASSUME Calm PROVE Spec => []AdoptsOwnMedia
  OBVIOUS
<1>1. Init => WholeInv
  BY WholeInit
<1>2. WholeInv /\ [Next]_vars => WholeInv'
  BY WholeStep
<1>3. WholeInv => AdoptsOwnMedia
  BY CompleteHolds DEF WholeInv, AdoptsOwnMedia, InState
<1> QED
  BY <1>1, <1>2, <1>3, PTL DEF Spec

(* No step of a finalize takes the last copy of a recording off the        *)
(* volume, whichever step a crash comes after.                             *)
THEOREM NothingIsLost == Calm => (Spec => OnlyCondemnedAreLost)
<1> SUFFICES ASSUME Calm PROVE Spec => OnlyCondemnedAreLost
  OBVIOUS
<1>1. Init => WholeInv
  BY WholeInit
<1>2. WholeInv /\ [Next]_vars => WholeInv'
  BY WholeStep
<1>3. WholeInv => \A r \in Recording : Copies(r) # {}
  BY PathFacts DEF WholeInv, Filed, Lies, Copies
<1>4. WholeInv' => (\A r \in Recording : Copies(r) # {})'
  BY <1>3, PTL
<1>5. WholeInv' => [\A r \in Recording :
                     Copies(r) # {} /\ Copies(r)' = {} => r \in condemned \cup erased']_vars
  BY <1>4
<1> QED
  BY <1>1, <1>2, <1>5, PTL DEF Spec, OnlyCondemnedAreLost

----------------------------------------------------------------------------
(* What is re-encoded is kept *)

(* One recording, which nobody deletes by hand.  Everything else may happen *)
(* to it: any number of goroutines finalize, sweep, encode, purge and      *)
(* release it, files are held open, tools and store calls fail, and        *)
(* processes crash.                                                        *)
OneRecording == (\A q, r \in Recording : q = r) /\ ~MayErase

Unnamed(r, names) == \A n \in names : files[NamePath(n)] # r

(* Every lower name is taken, so that the same name is chosen again.       *)
Topped(n) == \A k \in Names : k < n => ~Vacant(k)

(* The media lies where the row says, on its way to the library, or beside *)
(* its name while a recompress has set it aside; and nowhere else in the   *)
(* series of names.                                                        *)
Stands(r) ==
  \/ rows[r].path = CapturePath(r) /\ files[CapturePath(r)] = r /\ Unnamed(r, Names)
  \/ rows[r].path = RemuxPath(r) /\ files[RemuxPath(r)] = r /\ Unnamed(r, Names)
  \/ /\ rows[r].path = RemuxPath(r) /\ files[RemuxPath(r)] = Absent
     /\ \E n \in Names : files[NamePath(n)] = r /\ Unnamed(r, Names \ {n}) /\ Topped(n)
  \/ \E n \in Names :
       /\ rows[r].path = NamePath(n) /\ Unnamed(r, Names \ {n}) /\ Topped(n)
       /\ \/ files[NamePath(n)] = r
          \/ /\ files[NamePath(n)] = Absent /\ files[AsidePath(NamePath(n))] = r
             /\ NamePath(n) \in sidecars

(* What a worker that finalizes or encodes r knows at each step.           *)
Holds(o, r) ==
  /\ o.pc \in Finalizing \cup Encoding /\ o.taken = {}
  /\ o.pc \in {"remux", "remuxing"} => o.path = CapturePath(r) /\ rows[r].path = CapturePath(r)
  /\ o.pc = "drop" => o.path = CapturePath(r) /\ rows[r].path = RemuxPath(r)
  /\ o.pc \in {"render", "pick", "claim", "move", "path"} =>
       o.path = rows[r].path /\ rows[r].path # CapturePath(r)
  /\ o.pc \in {"claim", "move"} =>
       /\ o.path = RemuxPath(r) /\ files[RemuxPath(r)] = r
       /\ \E n \in Names : o.target = NamePath(n) /\ Topped(n)
  /\ o.pc = "claim" => files[o.target] = Absent
  /\ o.pc = "path" => files[o.target] = r
  /\ o.pc \in {"sidecar", "complete"} => rows[r].path = o.target
  /\ o.pc = "complete" => o.target \in sidecars
  /\ o.pc \in Encoding =>
       /\ o.path = rows[r].path /\ rows[r].path \in sidecars
       /\ o.pc \in {"c_aside", "c_mark", "c_clean"} => files[o.path] = r
       /\ o.pc \in {"c_aside", "c_install"} => files[EncodePath(o.path)] = r
       /\ o.pc = "c_install" => files[o.path] = Absent
       /\ o.pc \in {"c_install", "c_mark"} => files[AsidePath(o.path)] = r

HeldAt(w) == op[w].pc \in Locking => Holds(op[w], op[w].rec)

Kept(r) ==
  /\ Known(r) /\ rows[r].state # "trashed" /\ Stands(r)
  /\ sidecars \subseteq {NamePath(n) : n \in Names}
  /\ rows[r].state = "complete" => rows[r].path \in sidecars

Beside(r) == Kept(r) /\ \A w \in Worker : HeldAt(w)

(* Until the operator purges it.                                           *)
BesideInv == JobInv /\ (condemned = {} => \A r \in Recording : Beside(r))

LEMMA SwapApart ==
  \A m, n \in Names :
     /\ {EncodePath(NamePath(n)), AsidePath(NamePath(n)), OriginalPath(NamePath(n))} \subseteq Path
     /\ NamePath(m) \notin {EncodePath(NamePath(n)), AsidePath(NamePath(n)), OriginalPath(NamePath(n))}
     /\ EncodePath(NamePath(n)) # AsidePath(NamePath(n))
     /\ OriginalPath(NamePath(n)) # AsidePath(NamePath(n))
  BY DEF Path, NamePath, EncodePath, AsidePath, OriginalPath

(* Whoever finalizes or encodes the recording has it to itself.            *)
LEMMA OneAtWork ==
  ASSUME JobInv, NEW r, Recording = {r}, Beside(r), NEW w \in Worker, op[w].pc \in Locking,
         \A v \in Worker \ {w} : op'[v] = op[v], Kept(r)', HeldAt(w)'
  PROVE  Beside(r)'
<1>1. ASSUME NEW v \in Worker, op[v].pc \in Locking
      PROVE  op[v].rec = r /\ Organizer(v) = "recorder"
  <2>1. op[v].rec = r
    BY <1>1, Parts DEF JobInv, JobOK
  <2>2. op[v].pc \in Finalizing \cup Encoding
    BY <1>1 DEF Beside, HeldAt, Holds
  <2>3. v \notin Operator
    BY <2>2 DEF JobInv, JobOK
  <2> QED
    BY <2>1, <2>3 DEF Organizer
<1>2. \A v \in Worker \ {w} : op[v].pc \notin Locking
  BY <1>1 DEF JobInv, Apart
<1>3. \A v \in Worker \ {w} : HeldAt(v)'
  BY <1>2 DEF HeldAt
<1> QED
  BY <1>3 DEF Beside

(* Nothing on disk moves, nor what the row says of it.                     *)
LEMMA RestsBeside ==
  ASSUME NEW r, Recording = {r}, JobInv, Beside(r), UNCHANGED <<files, sidecars>>,
         Known(r)', rows'[r].path = rows[r].path, rows'[r].state # "trashed",
         rows'[r].state = "complete" => rows[r].state = "complete"
  PROVE  /\ Kept(r)'
         /\ \A w \in Worker : op'[w] = op[w] \/ op'[w].pc \notin Locking => HeldAt(w)'
<1>1. Kept(r)'
  BY DEF Beside, Kept, Stands, Unnamed, Topped, Vacant, Present
<1>2. ASSUME NEW w \in Worker, op'[w] = op[w], op[w].pc \in Locking PROVE HeldAt(w)'
  <2>1. PICK o : op[w] = o
    OBVIOUS
  <2>2. o.rec = r
    BY <1>2, <2>1, Parts DEF JobInv, JobOK
  <2>3. Holds(o, r)
    BY <1>2, <2>1, <2>2 DEF Beside, HeldAt
  <2>4. Holds(o, r)'
    BY <2>3 DEF Holds, Topped, Vacant, Present
  <2> QED
    BY <1>2, <2>1, <2>2, <2>4 DEF HeldAt
<1> QED
  BY <1>1, <1>2 DEF HeldAt

LEMMA BeginsBeside ==
  ASSUME JobInv, NEW r, Recording = {r}, Beside(r), NEW w \in Worker,
         BeginFinalize(w, r) \/ BeginRecompress(w, r)
  PROVE  Beside(r)'
<1>1. /\ rows \in [Recording -> Row \cup {NoRow}] /\ Known(r) /\ UNCHANGED <<rows, files, sidecars>>
      /\ rows[r].state # "trashed" /\ (rows[r].state = "complete" => rows[r].path \in sidecars)
  BY DEF JobInv, TypeOK, Beside, Kept, BeginFinalize, BeginRecompress
<1>2. Known(r)' /\ rows'[r] = rows[r]
  BY <1>1 DEF Known
<1>3. Kept(r)' /\ \A v \in Worker : op'[v] = op[v] => HeldAt(v)'
  BY <1>1, <1>2, RestsBeside
<1>4. PICK pc : /\ Begin(w, r, pc) /\ pc \in {"remux", "render", "c_encode"}
                /\ pc = "remux" => rows[r].path = CapturePath(r)
                /\ pc = "render" => rows[r].path # CapturePath(r)
                /\ pc = "c_encode" => rows[r].path \in sidecars
  <2>1. CASE BeginFinalize(w, r)
    <3> DEFINE begin == IF rows[r].path = CapturePath(r) THEN "remux" ELSE "render"
    <3>1. Begin(w, r, begin)
      BY <2>1 DEF BeginFinalize
    <3>2. /\ begin \in {"remux", "render", "c_encode"} /\ begin # "c_encode"
          /\ begin = "remux" => rows[r].path = CapturePath(r)
          /\ begin = "render" => rows[r].path # CapturePath(r)
      OBVIOUS
    <3> HIDE DEF begin
    <3> QED
      BY <3>1, <3>2
  <2>2. CASE BeginRecompress(w, r)
    BY <1>1, <2>2 DEF BeginRecompress, InState
  <2> QED
    BY <2>1, <2>2
<1>5. pc \in Step /\ pc \in Finalizing \cup Encoding
  BY <1>4 DEF Step, Finalizing, Encoding
<1>6. /\ \A v \in Worker \ {w} : op'[v] = op[v]
      /\ op'[w].pc = pc /\ op'[w].rec = r /\ op'[w].path = rows[r].path /\ op'[w].taken = {}
  BY <1>4, <1>5, OnwardFields
<1>7. PICK o : op'[w] = o
  OBVIOUS
<1>8. Holds(o, r)'
  BY <1>1, <1>2, <1>4, <1>6, <1>7 DEF Holds, Finalizing, Encoding
<1>9. HeldAt(w)'
  BY <1>6, <1>7, <1>8 DEF HeldAt
<1> QED
  BY <1>3, <1>6, <1>9 DEF Beside

LEMMA SweepsBeside ==
  ASSUME JobInv, NEW r, Recording = {r}, Beside(r), NEW w \in Worker, SweepStep(w) \/ StoreCallFails(w)
  PROVE  Beside(r)'
<1>1. /\ rows \in [Recording -> Row \cup {NoRow}] /\ Known(r) /\ rows[r].state # "trashed"
      /\ op \in [Worker -> Op]
  BY DEF JobInv, TypeOK, Beside, Kept
<1>2. ASSUME UNCHANGED <<rows, files, sidecars>>,
             \A v \in Worker : op'[v] = op[v] \/ op'[v].pc \notin Locking
      PROVE  Beside(r)'
  BY <1>1, <1>2, RestsBeside DEF Beside, Known
<1>3. ASSUME End(w), UNCHANGED <<rows, files, sidecars>> PROVE Beside(r)'
  <2>1. (\A v \in Worker \ {w} : op'[v] = op[v]) /\ op'[w].pc = "idle"
    BY <1>3, OnwardFields
  <2> QED
    BY <1>2, <1>3, <2>1, Parts
<1>4. ASSUME NEW q \in Recording, LookForFile(w, q) PROVE Beside(r)'
  <2> DEFINE o == [Idle EXCEPT !.pc = "m_state", !.rec = q]
  <2>1. o.pc = "m_state"
    BY DEF Idle
  <2>2. op' = op \/ op' = [op EXCEPT ![w] = o]
    BY <1>4 DEF LookForFile
  <2> HIDE DEF o
  <2>3. "m_state" \notin Locking
    BY DEF Locking, Finalizing, Purging, Releasing, Encoding
  <2>4. \A v \in Worker : op'[v] = op[v] \/ op'[v].pc \notin Locking
    BY <1>1, <2>1, <2>2, <2>3
  <2> QED
    BY <1>2, <1>4, <2>4 DEF LookForFile
<1>5. ASSUME DeclareMissing(w) PROVE Beside(r)'
  <2>1. op[w].pc = "m_state" /\ UNCHANGED <<files, sidecars>>
    BY <1>5 DEF DeclareMissing, At
  <2>2. op[w].rec = r
    BY <2>1 DEF JobInv, JobOK
  <2>3. SetState(r, "missing") /\ Goto(w, "m_refuse")
    BY <1>1, <1>5, <2>2 DEF DeclareMissing
  <2>4. Known(r)' /\ rows'[r].path = rows[r].path /\ rows'[r].state = "missing"
    BY <1>1, <2>3, RowFields, RowChanges DEF State, JobInv
  <2>5. (\A v \in Worker \ {w} : op'[v] = op[v]) /\ op'[w].pc = "m_refuse"
    BY <2>3, OnwardFields DEF Step
  <2>6. "m_refuse" \notin Locking
    BY DEF Locking, Finalizing, Purging, Releasing, Encoding
  <2> QED
    BY <2>1, <2>4, <2>5, <2>6, RestsBeside DEF Beside
<1>6. CASE ListParked(w) \/ ListComplete(w) \/ \E q \in Recording : SkipParked(w, q)
  BY <1>2, <1>6 DEF ListParked, ListComplete, SkipParked
<1>7. CASE MissingRefuses(w) \/ StoreCallFails(w)
  BY <1>3, <1>7 DEF MissingRefuses, StoreCallFails
<1> QED
  BY <1>4, <1>5, <1>6, <1>7 DEF SweepStep

LEMMA FinalizeBeside ==
  ASSUME JobInv, NEW r, Recording = {r}, Beside(r), NEW w \in Worker, FinalizeStep(w)
  PROVE  Beside(r)'
<1>1. /\ op \in [Worker -> Op] /\ files \in [Path -> Content] /\ rows \in [Recording -> Row \cup {NoRow}]
      /\ r \in Recording /\ Kept(r) /\ Known(r) /\ Stands(r) /\ rows[r].state # "trashed"
  BY DEF JobInv, TypeOK, Beside, Kept
<1>2. op[w].pc \in Finalizing /\ op[w].pc \in Locking /\ op[w].pc # "idle"
  BY Parts DEF FinalizeStep, RemuxBegins, RemuxCommits, RemuxFails, RemuxToolMissing, CaptureDropped, Render,
         PickName, ClaimName, MoveIntoLibrary, StorePath, WriteSidecar, Complete, At, Finalizing, Locking
<1>3. op[w].rec = r /\ Holds(op[w], r) /\ op[w].path \in Path /\ op[w].taken = {}
  <2>1. op[w].rec = r /\ op[w].path \in Path
    BY <1>2 DEF JobInv, JobOK
  <2> QED
    BY <1>2, <2>1 DEF Beside, HeldAt, Holds
<1>4. /\ CapturePath(r) \in Path /\ RemuxPath(r) \in Path /\ CapturePath(r) # RemuxPath(r)
      /\ \A n \in Names : /\ NamePath(n) \in Path /\ NamePath(n) # CapturePath(r) /\ NamePath(n) # RemuxPath(r)
                          /\ AsidePath(NamePath(n)) \notin {CapturePath(r), RemuxPath(r)}
                          /\ \A m \in Names : NamePath(m) # AsidePath(NamePath(n))
  BY <1>1, PathFacts, PathsApart, SwapApart DEF AsidePath, CapturePath, RemuxPath
<1>5. Finalizing \subseteq Step /\ {"failed", "awaiting_metadata", "awaiting_file", "complete"} \subseteq State
      /\ Absent # r /\ Partial # r /\ Placeholder # r /\ Placeholder # Absent
  BY <1>1, Steps DEF Locking, State
<1>6. /\ \A state \in State : SetState(r, state) =>
           rows'[r].path = rows[r].path /\ rows'[r].state = state /\ Known(r)'
      /\ \A path \in Path : SetPath(r, path) =>
           rows'[r].path = path /\ rows'[r].state = rows[r].state /\ Known(r)'
  BY <1>1, RowFields, RowChanges DEF JobInv
<1>7. rows[r].state = "complete" => \E n \in Names : rows[r].path = NamePath(n)
  BY <1>1 DEF Kept
<1>8. ChargeRemux(r) => rows'[r].path = rows[r].path /\ Known(r)' /\ rows'[r].state # "trashed"
                        /\ (rows'[r].state = "complete" => rows[r].state = "complete")
  BY <1>1, <1>5, <1>6 DEF ChargeRemux, Known
<1>9. UNCHANGED rows => rows'[r].path = rows[r].path /\ Known(r)' /\ rows'[r].state = rows[r].state
  BY <1>1 DEF Known
(* The operation ends, or goes on with what it must know.                  *)
<1>10. ASSUME End(w), Kept(r)' PROVE Beside(r)'
  <2>1. (\A v \in Worker \ {w} : op'[v] = op[v]) /\ op'[w].pc = "idle"
    BY <1>10, OnwardFields
  <2>2. HeldAt(w)'
    BY <2>1, Parts DEF HeldAt
  <2> QED
    BY <1>2, <1>10, <2>1, <2>2, OneAtWork
<1>11. ASSUME NEW o, op'[w] = o, \A v \in Worker \ {w} : op'[v] = op[v], o.rec = r, Holds(o, r)', Kept(r)'
       PROVE  Beside(r)'
  <2>1. HeldAt(w)'
    BY <1>11 DEF HeldAt
  <2> QED
    BY <1>2, <1>11, <2>1, OneAtWork
<1>12. ASSUME NEW pc \in Finalizing, Goto(w, pc)
       PROVE  \E o : /\ op'[w] = o /\ \A v \in Worker \ {w} : op'[v] = op[v]
                     /\ o.pc = pc /\ o.rec = r /\ o.path = op[w].path /\ o.target = op[w].target
                     /\ o.taken = {}
  BY <1>3, <1>5, <1>12, OnwardFields
<1>13. ASSUME Known(r)', rows'[r].path = rows[r].path, rows'[r].state # "trashed", UNCHANGED sidecars,
              rows'[r].state = "complete" => rows[r].state = "complete", Stands(r)'
       PROVE  Kept(r)'
  BY <1>1, <1>13 DEF Kept
(* A file written or removed in incoming leaves the library as it is.      *)
<1>14. ASSUME NEW x, NEW p \in {CapturePath(r), RemuxPath(r)}, files' = [files EXCEPT ![p] = x]
       PROVE  /\ \A n \in Names : /\ files'[NamePath(n)] = files[NamePath(n)]
                                  /\ files'[AsidePath(NamePath(n))] = files[AsidePath(NamePath(n))]
              /\ p # CapturePath(r) => files'[CapturePath(r)] = files[CapturePath(r)]
              /\ p # RemuxPath(r) => files'[RemuxPath(r)] = files[RemuxPath(r)]
              /\ files'[p] = x
  BY <1>1, <1>4, <1>14, SwapApart
<1>15. rows[r].path = CapturePath(r) => files[CapturePath(r)] = r /\ Unnamed(r, Names)
  BY <1>1, <1>4 DEF Stands
<1>16. ASSUME RemuxBegins(w) PROVE Beside(r)'
  <2>1. op[w].pc = "remux" /\ op[w].path = CapturePath(r) /\ rows[r].path = CapturePath(r)
        /\ UNCHANGED <<rows, sidecars>>
    BY <1>3, <1>16 DEF RemuxBegins, At, Holds
  <2>2. files' = [files EXCEPT ![RemuxPath(r)] = Partial] /\ Goto(w, "remuxing")
    BY <1>3, <1>5, <1>15, <1>16, <2>1 DEF RemuxBegins, Present
  <2>3. "remuxing" \in Finalizing
    BY DEF Finalizing
  <2>4. PICK o : /\ op'[w] = o /\ \A v \in Worker \ {w} : op'[v] = op[v]
                 /\ o.pc = "remuxing" /\ o.rec = r /\ o.path = op[w].path /\ o.taken = {}
    BY <1>12, <2>2, <2>3
  <2>5. Stands(r)'
    BY <1>4, <1>9, <1>14, <1>15, <2>1, <2>2 DEF Stands, Unnamed
  <2>6. Kept(r)'
    BY <1>1, <1>9, <1>13, <2>1, <2>5
  <2>7. Holds(o, r)'
    BY <1>9, <2>1, <2>3, <2>4 DEF Holds, Encoding
  <2> QED
    BY <1>11, <2>4, <2>6, <2>7
<1>17. ASSUME RemuxCommits(w) PROVE Beside(r)'
  <2>1. op[w].pc = "remuxing" /\ op[w].path = CapturePath(r) /\ rows[r].path = CapturePath(r)
        /\ UNCHANGED sidecars
    BY <1>3, <1>17 DEF RemuxCommits, At, Holds
  <2>2. files' = [files EXCEPT ![RemuxPath(r)] = r] /\ SetPath(r, RemuxPath(r)) /\ Goto(w, "drop")
    BY <1>3, <1>15, <1>17, <2>1 DEF RemuxCommits
  <2>3. "drop" \in Finalizing
    BY DEF Finalizing
  <2>4. PICK o : /\ op'[w] = o /\ \A v \in Worker \ {w} : op'[v] = op[v]
                 /\ o.pc = "drop" /\ o.rec = r /\ o.path = op[w].path /\ o.taken = {}
    BY <1>12, <2>2, <2>3
  <2>5. rows'[r].path = RemuxPath(r) /\ rows'[r].state = rows[r].state /\ Known(r)'
    BY <1>4, <1>6, <2>2
  <2>6. Stands(r)'
    BY <1>14, <1>15, <2>1, <2>2, <2>5 DEF Stands, Unnamed
  <2>7. rows'[r].state # "complete"
    BY <1>4, <1>7, <2>1, <2>5
  <2>8. Kept(r)'
    BY <1>1, <2>1, <2>5, <2>6, <2>7 DEF Kept
  <2>9. Holds(o, r)'
    BY <2>1, <2>3, <2>4, <2>5 DEF Holds, Encoding
  <2> QED
    BY <1>11, <2>4, <2>8, <2>9
<1>18. ASSUME RemuxFails(w) \/ RemuxToolMissing(w) PROVE Beside(r)'
  <2>1. op[w].pc = "remuxing" /\ rows[r].path = CapturePath(r) /\ UNCHANGED sidecars
        /\ files' = [files EXCEPT ![RemuxPath(r)] = Absent] /\ End(w)
    BY <1>3, <1>18 DEF RemuxFails, RemuxToolMissing, At, Holds, Remove
  <2>2. Known(r)' /\ rows'[r].path = rows[r].path /\ rows'[r].state # "trashed"
        /\ (rows'[r].state = "complete" => rows[r].state = "complete")
    BY <1>1, <1>3, <1>8, <1>9, <1>18 DEF RemuxFails, RemuxToolMissing
  <2>3. Stands(r)'
    BY <1>4, <1>14, <1>15, <2>1, <2>2 DEF Stands, Unnamed
  <2> QED
    BY <1>10, <1>13, <2>1, <2>2, <2>3
<1>19. ASSUME CaptureDropped(w) PROVE Beside(r)'
  <2>1. op[w].pc = "drop" /\ op[w].path = CapturePath(r) /\ rows[r].path = RemuxPath(r) /\ UNCHANGED sidecars
    BY <1>3, <1>19 DEF CaptureDropped, At, Holds
  <2>2. CASE /\ Remove(CapturePath(r)) /\ UNCHANGED rows
             /\ op' = [op EXCEPT ![w].pc = "render", ![w].path = RemuxPath(r)]
    <3>1. files' = [files EXCEPT ![CapturePath(r)] = Absent]
      BY <2>2 DEF Remove
    <3> DEFINE x == [op[w] EXCEPT !.pc = "render"]
               o == [x EXCEPT !.path = RemuxPath(r)]
    <3>2. x \in Op /\ x.pc = "render" /\ x.rec = r /\ x.taken = {}
      BY <1>1, <1>3 DEF Op, Step
    <3>3. o.pc = "render" /\ o.rec = r /\ o.path = RemuxPath(r) /\ o.taken = {}
      <4> HIDE DEF x
      <4> QED
        BY <3>2 DEF Op
    <3>4. op' = [op EXCEPT ![w] = o]
      BY <1>1, <2>2
    <3> HIDE DEF o
    <3>5. PICK y : y = o
      OBVIOUS
    <3>6. op'[w] = y /\ \A v \in Worker \ {w} : op'[v] = op[v]
      BY <1>1, <3>4, <3>5
    <3>7. Holds(y, r)'
      BY <1>4, <1>9, <2>1, <2>2, <3>3, <3>5 DEF Holds, Finalizing, Encoding
    <3>8. /\ files'[RemuxPath(r)] = files[RemuxPath(r)]
          /\ \A n \in Names : files'[NamePath(n)] = files[NamePath(n)]
      BY <1>4, <1>14, <3>1
    <3>9. Stands(r)'
      <4>1. Stands(r) /\ rows'[r].path = RemuxPath(r) /\ rows[r].path # CapturePath(r)
            /\ \A n \in Names : rows[r].path # NamePath(n)
        BY <1>1, <1>4, <1>9, <2>1, <2>2
      <4> QED
        BY <2>1, <3>8, <4>1 DEF Stands, Unnamed, Topped, Vacant, Present
    <3> QED
      BY <1>1, <1>9, <1>11, <1>13, <2>1, <2>2, <3>3, <3>5, <3>6, <3>7, <3>9
  <2>3. CASE ChargeRemux(r) /\ End(w) /\ UNCHANGED files
    <3>1. Kept(r)'
      BY <1>8, <2>1, <2>3, RestsBeside
    <3> QED
      BY <1>10, <2>3, <3>1
  <2> QED
    BY <1>3, <1>19, <2>1, <2>2, <2>3 DEF CaptureDropped
<1>20. ASSUME Render(w) PROVE Beside(r)'
  <2>1. op[w].pc = "render" /\ UNCHANGED <<files, sidecars>>
    BY <1>20 DEF Render, At
  <2>2. CASE UNCHANGED rows /\ Goto(w, "pick")
    <3>1. "pick" \in Finalizing
      BY DEF Finalizing
    <3>2. PICK o : /\ op'[w] = o /\ \A v \in Worker \ {w} : op'[v] = op[v]
                   /\ o.pc = "pick" /\ o.rec = r /\ o.path = op[w].path /\ o.taken = {}
      BY <1>12, <2>2, <3>1
    <3>3. Kept(r)'
      BY <1>1, <1>9, <2>1, <2>2, RestsBeside
    <3>4. Holds(o, r)'
      BY <1>3, <1>9, <2>1, <2>2, <3>1, <3>2 DEF Holds, Encoding
    <3> QED
      BY <1>11, <3>2, <3>3, <3>4
  <2>3. CASE SetState(r, "awaiting_metadata") /\ End(w)
    <3>1. Known(r)' /\ rows'[r].path = rows[r].path /\ rows'[r].state = "awaiting_metadata"
      BY <1>5, <1>6, <2>3
    <3>2. Kept(r)'
      BY <2>1, <3>1, RestsBeside
    <3> QED
      BY <1>10, <2>3, <3>2
  <2> QED
    BY <1>3, <1>20, <2>2, <2>3 DEF Render
<1>21. ASSUME PickName(w) PROVE Beside(r)'
  <2> DEFINE names == IF Present(op[w].path) THEN FreeNames(w) ELSE Orphans(op[w].rec)
             name == NamePath(First(names))
             pc == IF Present(op[w].path) /\ name # op[w].path THEN "claim" ELSE "path"
  <2>1. op[w].pc = "pick" /\ UNCHANGED <<rows, files, sidecars>>
    BY <1>21 DEF PickName, At
  <2>2. op[w].path = rows[r].path /\ rows[r].path # CapturePath(r)
    BY <1>3, <2>1 DEF Holds
  <2>3. Kept(r)'
    BY <1>1, <1>9, <2>1, RestsBeside
  <2>4. CASE End(w)
    BY <1>10, <2>3, <2>4
  <2>5. CASE names # {} /\ op' = [op EXCEPT ![w].target = name, ![w].pc = pc]
    <3>1. names \in SUBSET Names
      BY DEF FreeNames, Orphans
    <3>2. First(names) \in names /\ First(names) \in Names /\ \A m \in names : First(names) <= m
      <4> HIDE DEF names
      <4> QED
        BY <2>5, <3>1, FirstIsIn
    <3>3. PICK n \in Names : n = First(names)
      BY <3>2
    <3>4. n \in names /\ (\A m \in names : n <= m) /\ name = NamePath(n)
      BY <3>2, <3>3
    <3>5. /\ \A v \in Worker \ {w} : op'[v] = op[v]
          /\ op'[w].pc = pc /\ op'[w].rec = r /\ op'[w].path = op[w].path
          /\ op'[w].target = NamePath(n) /\ op'[w].taken = {}
      <4> DEFINE x == [op[w] EXCEPT !.target = name]
                 y == [x EXCEPT !.pc = pc]
      <4>1. x \in [pc : Step, rec : Recording \cup {NoRecording}, path : Path \cup {NoPath},
                   target : Path, taken : SUBSET Names]
            /\ x.rec = r /\ x.path = op[w].path /\ x.target = NamePath(n) /\ x.taken = {}
        <5> HIDE DEF name
        <5> QED
          BY <1>1, <1>3, <1>4, <3>4 DEF Op
      <4>2. y.pc = pc /\ y.rec = r /\ y.path = op[w].path /\ y.target = NamePath(n) /\ y.taken = {}
        <5> HIDE DEF x, pc
        <5> QED
          BY <4>1
      <4>3. op' = [op EXCEPT ![w] = y]
        BY <2>5
      <4> HIDE DEF y
      <4> QED
        BY <1>1, <4>2, <4>3
    <3>6. PICK o : op'[w] = o
      OBVIOUS
    <3>7. ASSUME pc = "path", files[NamePath(n)] = r PROVE Beside(r)'
      <4> HIDE DEF names, name, pc
      <4>1. Holds(o, r)'
        BY <1>3, <1>9, <2>1, <2>2, <3>5, <3>6, <3>7 DEF Holds, Finalizing, Encoding
      <4> QED
        BY <1>11, <2>3, <3>5, <3>6, <4>1
    <3>8. CASE ~Present(op[w].path)
      <4>1. pc = "path" /\ n \in Orphans(r)
        BY <1>3, <3>4, <3>8
      <4>2. files[NamePath(n)] = r
        BY <1>1, <4>1 DEF Orphans, HoldsRecording
      <4> QED
        BY <3>7, <4>1, <4>2
    <3>9. \A m \in Names : m \in FreeNames(w) <=> NamePath(m) = op[w].path \/ Vacant(m)
      BY <1>3 DEF FreeNames, Vacant
    <3>10. CASE Present(op[w].path) /\ op[w].path = RemuxPath(r)
      <4>1. files[RemuxPath(r)] = r
        BY <1>1, <1>4, <2>2, <3>10 DEF Stands, Present
      <4>2. n \in FreeNames(w) /\ (\A m \in FreeNames(w) : n <= m) /\ pc = "claim"
        BY <1>4, <3>4, <3>10
      <4>3. Vacant(n)
        BY <1>4, <3>9, <3>10, <4>2
      <4>4. Topped(n)
        <5> SUFFICES ASSUME NEW k \in Names, k < n PROVE ~Vacant(k)
          BY DEF Topped
        <5>1. k \notin FreeNames(w)
          BY <4>2 DEF Names
        <5> QED
          BY <3>9, <5>1
      <4> HIDE DEF names, name, pc
      <4>5. Topped(n)' /\ files'[NamePath(n)] = Absent /\ files'[RemuxPath(r)] = r
        BY <2>1, <4>1, <4>3, <4>4 DEF Topped, Vacant, Present
      <4>6. Holds(o, r)'
        BY <1>3, <1>4, <1>9, <2>1, <2>2, <3>5, <3>6, <3>10, <4>2, <4>5 DEF Holds, Finalizing, Encoding
      <4> QED
        BY <1>11, <2>3, <3>5, <3>6, <4>6
    <3>11. CASE Present(op[w].path) /\ op[w].path # RemuxPath(r)
      <4>1. PICK m \in Names : rows[r].path = NamePath(m) /\ files[NamePath(m)] = r /\ Topped(m)
        BY <1>1, <2>2, <3>11 DEF Stands, Present
      <4>2. m \in FreeNames(w) /\ n \in FreeNames(w) /\ n <= m
        BY <2>2, <3>4, <3>9, <3>11, <4>1
      <4>3. n = m
        <5> SUFFICES ASSUME n # m PROVE FALSE
          OBVIOUS
        <5>1. n < m
          BY <4>2 DEF Names
        <5>2. ~Vacant(n) /\ NamePath(n) # op[w].path
          BY <2>2, <4>1, <5>1, PathsApart DEF Topped
        <5> QED
          BY <3>9, <4>2, <5>2
      <4>4. pc = "path"
        BY <2>2, <3>4, <4>1, <4>3
      <4> QED
        BY <3>7, <4>1, <4>3, <4>4
    <3> QED
      BY <3>8, <3>10, <3>11
  <2> QED
    BY <1>21, <2>4, <2>5 DEF PickName
<1>22. ASSUME ClaimName(w) PROVE Beside(r)'
  <2>1. op[w].pc = "claim" /\ UNCHANGED <<rows, sidecars>>
    BY <1>22 DEF ClaimName, At
  <2>2. PICK n \in Names : op[w].target = NamePath(n) /\ Topped(n)
    BY <1>3, <2>1 DEF Holds
  <2>3. op[w].path = RemuxPath(r) /\ rows[r].path = RemuxPath(r) /\ files[RemuxPath(r)] = r
        /\ files[NamePath(n)] = Absent
    BY <1>3, <2>1, <2>2 DEF Holds
  <2>4. files' = [files EXCEPT ![NamePath(n)] = Placeholder] /\ Goto(w, "move")
    BY <1>22, <2>2, <2>3 DEF ClaimName, Present
  <2>5. "move" \in Finalizing
    BY DEF Finalizing
  <2>6. PICK o : /\ op'[w] = o /\ \A v \in Worker \ {w} : op'[v] = op[v]
                 /\ o.pc = "move" /\ o.rec = r /\ o.path = op[w].path /\ o.target = op[w].target
                 /\ o.taken = {}
    BY <1>12, <2>4, <2>5
  <2>7. /\ \A m \in Names : m # n => files'[NamePath(m)] = files[NamePath(m)]
        /\ files'[NamePath(n)] = Placeholder /\ files'[RemuxPath(r)] = r
    BY <1>1, <1>4, <2>3, <2>4, PathsApart
  <2>8. Unnamed(r, Names)
    BY <1>1, <1>4, <1>5, <2>3 DEF Stands
  <2>9. Stands(r)'
    BY <1>5, <1>9, <2>1, <2>3, <2>7, <2>8 DEF Stands, Unnamed
  <2>10. Topped(n)'
    BY <1>5, <2>1, <2>2, <2>7 DEF Topped, Vacant, Present
  <2>11. Holds(o, r)'
    BY <1>4, <1>9, <2>1, <2>2, <2>3, <2>5, <2>6, <2>7, <2>10 DEF Holds, Encoding
  <2> QED
    BY <1>1, <1>9, <1>11, <1>13, <2>1, <2>6, <2>9, <2>11
<1>23. ASSUME MoveIntoLibrary(w) PROVE Beside(r)'
  <2>1. op[w].pc = "move" /\ UNCHANGED sidecars
    BY <1>23 DEF MoveIntoLibrary, At
  <2>2. PICK n \in Names : op[w].target = NamePath(n) /\ Topped(n)
    BY <1>3, <2>1 DEF Holds
  <2>3. op[w].path = RemuxPath(r) /\ rows[r].path = RemuxPath(r) /\ files[RemuxPath(r)] = r
    BY <1>3, <2>1, <2>2 DEF Holds
  <2>4. Unnamed(r, Names)
    BY <1>1, <1>4, <1>5, <2>3 DEF Stands
  <2>5. CASE Move(op[w].path, op[w].target) /\ Goto(w, "path") /\ UNCHANGED rows
    <3>1. "path" \in Finalizing
      BY DEF Finalizing
    <3>2. PICK o : /\ op'[w] = o /\ \A v \in Worker \ {w} : op'[v] = op[v]
                   /\ o.pc = "path" /\ o.rec = r /\ o.path = op[w].path /\ o.target = op[w].target
                   /\ o.taken = {}
      BY <1>12, <2>5, <3>1
    <3>3. files' = [files EXCEPT ![NamePath(n)] = r, ![RemuxPath(r)] = Absent]
      BY <2>2, <2>3, <2>5 DEF Move
    <3>4. /\ \A m \in Names : m # n => files'[NamePath(m)] = files[NamePath(m)]
          /\ files'[NamePath(n)] = r /\ files'[RemuxPath(r)] = Absent
      BY <1>1, <1>4, <3>3, PathsApart
    <3>5. Topped(n)'
      BY <2>1, <2>2, <3>4 DEF Topped, Vacant, Present, Names
    <3>6. Stands(r)'
      BY <1>9, <2>3, <2>4, <2>5, <3>4, <3>5 DEF Stands, Unnamed
    <3>7. Holds(o, r)'
      BY <1>4, <1>9, <2>2, <2>3, <2>5, <3>1, <3>2, <3>4 DEF Holds, Encoding
    <3> QED
      BY <1>1, <1>9, <1>11, <1>13, <2>1, <2>5, <3>2, <3>6, <3>7
  <2>6. ASSUME Remove(op[w].target), End(w), SetState(r, "awaiting_file") \/ UNCHANGED rows
        PROVE  Beside(r)'
    <3>1. Known(r)' /\ rows'[r].path = rows[r].path /\ rows'[r].state # "trashed"
          /\ (rows'[r].state = "complete" => rows[r].state = "complete")
      BY <1>1, <1>5, <1>6, <1>9, <2>6
    <3>2. files' = [files EXCEPT ![NamePath(n)] = Absent]
      BY <2>2, <2>6 DEF Remove
    <3>3. /\ \A m \in Names : files'[NamePath(m)] = files[NamePath(m)] \/ files'[NamePath(m)] = Absent
          /\ files'[RemuxPath(r)] = r
      BY <1>1, <1>4, <2>3, <3>2, PathsApart
    <3>4. Stands(r)'
      BY <1>5, <2>3, <2>4, <3>1, <3>3 DEF Stands, Unnamed
    <3> QED
      BY <1>10, <1>13, <2>1, <2>6, <3>1, <3>4
  <2> QED
    BY <1>3, <1>23, <2>5, <2>6 DEF MoveIntoLibrary
<1>24. ASSUME StorePath(w) PROVE Beside(r)'
  <2>1. op[w].pc = "path" /\ UNCHANGED <<files, sidecars>>
    BY <1>24 DEF StorePath, At
  <2>2. PICK n \in Names : op[w].target = NamePath(n)
    BY <1>1, <2>1 DEF JobInv, JobOK, Named
  <2>3. files[NamePath(n)] = r /\ op[w].path = rows[r].path /\ rows[r].path # CapturePath(r)
    BY <1>3, <2>1, <2>2 DEF Holds
  <2>4. SetPath(r, NamePath(n)) /\ Goto(w, "sidecar")
    BY <1>3, <1>24, <2>2 DEF StorePath
  <2>5. "sidecar" \in Finalizing
    BY DEF Finalizing
  <2>6. PICK o : /\ op'[w] = o /\ \A v \in Worker \ {w} : op'[v] = op[v]
                 /\ o.pc = "sidecar" /\ o.rec = r /\ o.path = op[w].path /\ o.target = op[w].target
                 /\ o.taken = {}
    BY <1>12, <2>4, <2>5
  <2>7. rows'[r].path = NamePath(n) /\ rows'[r].state = rows[r].state /\ Known(r)'
    BY <1>4, <1>6, <2>4
  <2>8. /\ Unnamed(r, Names \ {n}) /\ Topped(n)
        /\ \A m \in Names : rows[r].path = NamePath(m) => m = n
    BY <1>1, <2>3, PathsApart DEF Stands, Unnamed
  <2>9. Stands(r)'
    BY <2>1, <2>3, <2>7, <2>8 DEF Stands, Unnamed, Topped, Vacant, Present
  <2>10. rows'[r].state = "complete" => rows'[r].path \in sidecars'
    BY <1>1, <1>7, <2>1, <2>7, <2>8 DEF Kept
  <2>11. Kept(r)'
    BY <1>1, <2>1, <2>7, <2>9, <2>10 DEF Kept
  <2>12. Holds(o, r)'
    BY <2>1, <2>2, <2>5, <2>6, <2>7 DEF Holds, Encoding
  <2> QED
    BY <1>11, <2>6, <2>11, <2>12
<1>25. ASSUME WriteSidecar(w) PROVE Beside(r)'
  <2>1. op[w].pc = "sidecar" /\ UNCHANGED <<rows, files>>
    BY <1>25 DEF WriteSidecar, At
  <2>2. PICK n \in Names : op[w].target = NamePath(n)
    BY <1>1, <2>1 DEF JobInv, JobOK, Named
  <2>3. rows[r].path = op[w].target
    BY <1>3, <2>1 DEF Holds
  <2>4. CASE sidecars' = sidecars \cup {op[w].target} /\ Goto(w, "complete")
    <3>1. "complete" \in Finalizing
      BY DEF Finalizing
    <3>2. PICK o : /\ op'[w] = o /\ \A v \in Worker \ {w} : op'[v] = op[v]
                   /\ o.pc = "complete" /\ o.rec = r /\ o.path = op[w].path /\ o.target = op[w].target
                   /\ o.taken = {}
      BY <1>12, <2>4, <3>1
    <3>3. \A m \in Names : Topped(m) => Topped(m)'
      BY <2>1, <2>4 DEF Topped, Vacant, Present
    <3>4. Stands(r)'
      BY <1>1, <1>9, <2>1, <2>4, <3>3 DEF Stands, Unnamed
    <3>5. Kept(r)'
      BY <1>1, <1>9, <2>1, <2>2, <2>4, <3>4 DEF Kept
    <3>6. Holds(o, r)'
      BY <1>9, <2>1, <2>3, <2>4, <3>1, <3>2 DEF Holds, Encoding
    <3> QED
      BY <1>11, <3>2, <3>5, <3>6
  <2>5. CASE UNCHANGED sidecars /\ End(w)
    <3>1. Kept(r)'
      BY <1>1, <1>9, <2>1, <2>5, RestsBeside
    <3> QED
      BY <1>10, <2>5, <3>1
  <2> QED
    BY <1>25, <2>4, <2>5 DEF WriteSidecar
<1>26. ASSUME Complete(w) PROVE Beside(r)'
  <2>1. op[w].pc = "complete" /\ UNCHANGED <<files, sidecars>> /\ SetState(r, "complete") /\ End(w)
    BY <1>3, <1>26 DEF Complete, At
  <2>2. rows[r].path \in sidecars
    BY <1>3, <2>1 DEF Holds
  <2>3. rows'[r].path = rows[r].path /\ rows'[r].state = "complete" /\ Known(r)'
    BY <1>5, <1>6, <2>1
  <2>4. Stands(r)'
    BY <1>1, <2>1, <2>3 DEF Stands, Unnamed, Topped, Vacant, Present
  <2>5. Kept(r)'
    BY <1>1, <2>1, <2>2, <2>3, <2>4 DEF Kept
  <2> QED
    BY <1>10, <2>1, <2>5
<1> QED
  BY <1>16, <1>17, <1>18, <1>19, <1>20, <1>21, <1>22, <1>23, <1>24, <1>25, <1>26 DEF FinalizeStep

LEMMA RecompressBeside ==
  ASSUME JobInv, NEW r, Recording = {r}, Beside(r), NEW w \in Worker, RecompressStep(w)
  PROVE  Beside(r)'
<1>1. /\ op \in [Worker -> Op] /\ files \in [Path -> Content] /\ rows \in [Recording -> Row \cup {NoRow}]
      /\ r \in Recording /\ Kept(r) /\ Known(r) /\ Stands(r) /\ rows[r].state # "trashed"
  BY DEF JobInv, TypeOK, Beside, Kept
<1>2. op[w].pc \in Encoding /\ op[w].pc \in Locking /\ op[w].pc # "idle" /\ UNCHANGED sidecars
  BY DEF RecompressStep, EncodeBegins, EncodeEnds, SetAside, Install, MarkRecompressed, OriginalGoes, At,
         Encoding, Locking
<1>3. op[w].rec = r /\ Holds(op[w], r) /\ op[w].taken = {}
  <2>1. op[w].rec = r
    BY <1>2 DEF JobInv, JobOK
  <2> QED
    BY <1>2, <2>1 DEF Beside, HeldAt, Holds
<1>4. PICK n \in Names : op[w].path = NamePath(n)
  BY <1>1, <1>2, <1>3 DEF Holds, Kept
<1>5. rows[r].path = NamePath(n) /\ NamePath(n) \in sidecars
  BY <1>2, <1>3, <1>4 DEF Holds
<1>6. PICK e, a, k : EncodePath(NamePath(n)) = e /\ AsidePath(NamePath(n)) = a /\ OriginalPath(NamePath(n)) = k
  OBVIOUS
<1>7. /\ {NamePath(n), e, a, k} \subseteq Path
      /\ e # a /\ k # a /\ \A m \in Names : NamePath(m) \notin {e, a, k}
      /\ \A m \in Names : NamePath(m) \in Path /\ (NamePath(m) = NamePath(n) => m = n)
  BY <1>6, PathFacts, PathsApart, SwapApart
<1>8. /\ Unnamed(r, Names \ {n}) /\ Topped(n)
      /\ files[NamePath(n)] = r \/ (files[NamePath(n)] = Absent /\ files[a] = r)
  <2>1. rows[r].path # CapturePath(r) /\ rows[r].path # RemuxPath(r)
    BY <1>1, <1>5, PathsApart
  <2> QED
    BY <1>1, <1>5, <1>6, <1>7, <2>1 DEF Stands
<1>9. Absent # r /\ Encoding \subseteq Step
  BY <1>1, Steps DEF Locking
<1>10. UNCHANGED rows => rows'[r].path = rows[r].path /\ Known(r)' /\ rows'[r].state = rows[r].state
  BY <1>1 DEF Known
(* The other names stay, and the media is at its own or beside it.         *)
<1>11. ASSUME Known(r)', rows'[r].path = rows[r].path, rows'[r].state = rows[r].state,
              \A m \in Names : m # n => files'[NamePath(m)] = files[NamePath(m)],
              files'[NamePath(n)] = r \/ (files'[NamePath(n)] = Absent /\ files'[a] = r)
       PROVE  Kept(r)'
  <2>1. Unnamed(r, Names \ {n})' /\ Topped(n)'
    BY <1>2, <1>8, <1>11 DEF Unnamed, Topped, Vacant, Present, Names
  <2>2. Stands(r)'
    BY <1>2, <1>5, <1>6, <1>11, <2>1 DEF Stands
  <2> QED
    BY <1>1, <1>2, <1>11, <2>2 DEF Kept
<1>12. ASSUME End(w), Kept(r)' PROVE Beside(r)'
  <2>1. (\A v \in Worker \ {w} : op'[v] = op[v]) /\ op'[w].pc = "idle"
    BY <1>12, OnwardFields
  <2>2. HeldAt(w)'
    BY <2>1, Parts DEF HeldAt
  <2> QED
    BY <1>2, <1>12, <2>1, <2>2, OneAtWork
<1>13. ASSUME NEW pc \in Encoding, Goto(w, pc), Kept(r)', rows'[r].path = rows[r].path,
              pc \in {"c_aside", "c_mark", "c_clean"} => files'[NamePath(n)] = r,
              pc \in {"c_aside", "c_install"} => files'[e] = r,
              pc = "c_install" => files'[NamePath(n)] = Absent,
              pc \in {"c_install", "c_mark"} => files'[a] = r
       PROVE  Beside(r)'
  <2>1. PICK o : /\ op'[w] = o /\ \A v \in Worker \ {w} : op'[v] = op[v]
                 /\ o.pc = pc /\ o.rec = r /\ o.path = NamePath(n) /\ o.taken = {}
    BY <1>3, <1>4, <1>9, <1>13, OnwardFields
  <2>2. pc \notin Finalizing
    BY Parts
  <2>3. Holds(o, r)'
    BY <1>2, <1>5, <1>6, <1>13, <2>1, <2>2 DEF Holds, Finalizing
  <2>4. HeldAt(w)'
    BY <2>1, <2>3 DEF HeldAt
  <2> QED
    BY <1>2, <1>13, <2>1, <2>4, OneAtWork
<1>14. ASSUME NEW x, files' = [files EXCEPT ![e] = x]
       PROVE  files'[e] = x /\ files'[a] = files[a] /\ \A m \in Names : files'[NamePath(m)] = files[NamePath(m)]
  BY <1>1, <1>7, <1>14
(* The output is being written, or discarded.                              *)
<1>15. ASSUME UNCHANGED rows, NEW x, files' = [files EXCEPT ![e] = x] PROVE Kept(r)'
  BY <1>8, <1>10, <1>11, <1>14, <1>15
<1>16. UNCHANGED <<rows, files>> => Kept(r)'
  BY <1>8, <1>10, <1>11
<1>17. ASSUME EncodeBegins(w) PROVE Beside(r)'
  <2>1. UNCHANGED rows
    BY <1>17 DEF EncodeBegins
  <2>2. CASE UNCHANGED files /\ End(w)
    BY <1>12, <1>16, <2>1, <2>2
  <2>3. CASE files' = [files EXCEPT ![e] = Partial] /\ Goto(w, "c_encoding")
    BY <1>10, <1>13, <1>15, <2>1, <2>3 DEF Encoding
  <2> QED
    BY <1>4, <1>6, <1>17, <2>2, <2>3 DEF EncodeBegins
<1>18. ASSUME EncodeEnds(w) PROVE Beside(r)'
  <2>1. UNCHANGED rows
    BY <1>18 DEF EncodeEnds
  <2>2. CASE Present(NamePath(n)) /\ files' = [files EXCEPT ![e] = files[NamePath(n)]] /\ Goto(w, "c_aside")
    <3>1. files[NamePath(n)] = r
      BY <1>8, <2>2 DEF Present
    <3>2. files'[e] = r /\ files'[NamePath(n)] = r /\ Kept(r)'
      BY <1>14, <1>15, <2>1, <2>2, <3>1
    <3> QED
      BY <1>10, <1>13, <2>1, <2>2, <3>2 DEF Encoding
  <2>3. CASE Remove(e) /\ End(w)
    BY <1>12, <1>15, <2>1, <2>3 DEF Remove
  <2> QED
    BY <1>4, <1>6, <1>18, <2>2, <2>3 DEF EncodeEnds
<1>19. ASSUME SetAside(w) PROVE Beside(r)'
  <2>1. op[w].pc = "c_aside" /\ UNCHANGED rows
    BY <1>19 DEF SetAside, At
  <2>2. files[NamePath(n)] = r /\ files[e] = r
    BY <1>2, <1>3, <1>4, <1>6, <2>1 DEF Holds
  <2>3. CASE Move(NamePath(n), a) /\ Goto(w, "c_install")
    <3>1. files' = [files EXCEPT ![a] = r, ![NamePath(n)] = Absent]
      BY <2>2, <2>3 DEF Move
    <3>2. /\ files'[a] = r /\ files'[NamePath(n)] = Absent /\ files'[e] = r
          /\ \A m \in Names : m # n => files'[NamePath(m)] = files[NamePath(m)]
      BY <1>1, <1>7, <2>2, <3>1
    <3>3. Kept(r)'
      BY <1>10, <1>11, <2>1, <3>2
    <3> QED
      BY <1>10, <1>13, <2>1, <2>3, <3>2, <3>3 DEF Encoding
  <2>4. CASE Remove(e) /\ End(w)
    BY <1>12, <1>15, <2>1, <2>4 DEF Remove
  <2> QED
    BY <1>4, <1>6, <1>19, <2>3, <2>4 DEF SetAside
(* The original goes back, unless it is held open, and then it stays.      *)
<1>20. ASSUME RestoreOriginal(NamePath(n)), End(w), UNCHANGED rows, files[a] = r,
              files[NamePath(n)] = r \/ files[NamePath(n)] = Absent
       PROVE  Beside(r)'
  <2>1. CASE files' = [files EXCEPT ![NamePath(n)] = r, ![a] = Absent, ![e] = Absent]
    <3>1. files'[NamePath(n)] = r /\ \A m \in Names : m # n => files'[NamePath(m)] = files[NamePath(m)]
      BY <1>1, <1>7, <2>1
    <3> QED
      BY <1>10, <1>11, <1>12, <1>20, <3>1
  <2>2. CASE files' = [files EXCEPT ![NamePath(n)] = Absent, ![e] = Absent]
    <3>1. /\ files'[NamePath(n)] = Absent /\ files'[a] = r
          /\ \A m \in Names : m # n => files'[NamePath(m)] = files[NamePath(m)]
      BY <1>1, <1>7, <1>20, <2>2
    <3> QED
      BY <1>10, <1>11, <1>12, <1>20, <3>1
  <2>3. CASE files' = [files EXCEPT ![e] = Absent]
    BY <1>12, <1>15, <1>20, <2>3
  <2> QED
    BY <1>6, <1>20, <2>1, <2>2, <2>3 DEF RestoreOriginal
<1>21. ASSUME Install(w) PROVE Beside(r)'
  <2>1. op[w].pc = "c_install" /\ UNCHANGED rows
    BY <1>21 DEF Install, At
  <2>2. files[NamePath(n)] = Absent /\ files[e] = r /\ files[a] = r
    BY <1>2, <1>3, <1>4, <1>6, <2>1 DEF Holds
  <2>3. CASE Move(e, NamePath(n)) /\ Goto(w, "c_mark")
    <3>1. files' = [files EXCEPT ![NamePath(n)] = r, ![e] = Absent]
      BY <2>2, <2>3 DEF Move
    <3>2. /\ files'[NamePath(n)] = r /\ files'[a] = r
          /\ \A m \in Names : m # n => files'[NamePath(m)] = files[NamePath(m)]
      BY <1>1, <1>7, <2>2, <3>1
    <3>3. Kept(r)'
      BY <1>10, <1>11, <2>1, <3>2
    <3> QED
      BY <1>10, <1>13, <2>1, <2>3, <3>2, <3>3 DEF Encoding
  <2> QED
    BY <1>4, <1>6, <1>20, <1>21, <2>1, <2>2, <2>3 DEF Install
<1>22. ASSUME MarkRecompressed(w) PROVE Beside(r)'
  <2>1. op[w].pc = "c_mark"
    BY <1>22 DEF MarkRecompressed, At
  <2>2. files[NamePath(n)] = r /\ files[a] = r
    BY <1>2, <1>3, <1>4, <1>6, <2>1 DEF Holds
  <2>3. CASE rows' = [rows EXCEPT ![r].recompressed = TRUE] /\ UNCHANGED files /\ Goto(w, "c_clean")
    <3>1. Known(r)' /\ rows'[r].state = rows[r].state
      BY <1>1, <2>3, RowChanges DEF JobInv
    <3>2. rows'[r].path = rows[r].path
      <4> DEFINE row == [rows[r] EXCEPT !.recompressed = TRUE]
      <4>1. row.path = rows[r].path
        BY <1>1 DEF Known, Row
      <4>2. rows' = [rows EXCEPT ![r] = row]
        BY <2>3
      <4> HIDE DEF row
      <4> QED
        BY <1>1, <4>1, <4>2
    <3>3. Kept(r)'
      BY <1>11, <2>2, <2>3, <3>1, <3>2
    <3> QED
      BY <1>13, <2>2, <2>3, <3>2, <3>3 DEF Encoding
  <2> QED
    BY <1>3, <1>4, <1>20, <1>22, <2>2, <2>3 DEF MarkRecompressed
<1>23. ASSUME OriginalGoes(w) PROVE Beside(r)'
  <2>1. op[w].pc = "c_clean" /\ UNCHANGED rows /\ End(w)
    BY <1>23 DEF OriginalGoes, At
  <2>2. files[NamePath(n)] = r
    BY <1>2, <1>3, <1>4, <2>1 DEF Holds
  <2>3. \A m \in Names : files'[NamePath(m)] = files[NamePath(m)]
    <3>1. CASE Move(a, k)
      BY <1>1, <1>7, <3>1 DEF Move
    <3>2. CASE Remove(a)
      BY <1>1, <1>7, <3>2 DEF Remove
    <3> QED
      BY <1>4, <1>6, <1>23, <3>1, <3>2 DEF OriginalGoes
  <2>4. Kept(r)'
    BY <1>10, <1>11, <2>1, <2>2, <2>3
  <2> QED
    BY <1>12, <2>1, <2>4
<1> QED
  BY <1>17, <1>18, <1>19, <1>21, <1>22, <1>23 DEF RecompressStep

LEMMA BesideWork ==
  ASSUME JobInv, NEW r, Recording = {r}, Beside(r), NEW w \in Worker, Work(w), condemned' = condemned
  PROVE  Beside(r)' \/ r \in condemned
<1>1. op[w].pc \notin Purging \cup Releasing
  <2> SUFFICES ASSUME op[w].pc \in Purging \cup Releasing PROVE FALSE
    OBVIOUS
  <2>1. op[w].pc \in Locking
    BY DEF Locking
  <2> QED
    BY <2>1, Parts DEF Beside, HeldAt, Holds
<1>2. ~PurgeStep(w)
  BY <1>1 DEF PurgeStep, TrashRefuses, TrashSidecar, TrashClaim, TrashMedia, TrashPathStored, TrashStateStored,
              ReleaseRefuses, ReleaseMedia, ReleaseSidecar, ReleaseRow, At, Purging, Releasing
<1>3. \A q \in Recording : ~BeginRelease(w, q) /\ (BeginTrash(w, q) => r \in condemned)
  BY DEF BeginRelease, BeginTrash, InState, Beside, Kept
<1> QED
  BY <1>2, <1>3, BeginsBeside, SweepsBeside, FinalizeBeside, RecompressBeside DEF Work

LEMMA BesideInit == OneRecording /\ Init => BesideInv
<1> SUFFICES ASSUME OneRecording, Init, NEW r \in Recording PROVE JobInv /\ Beside(r)
  BY JobInvInit DEF BesideInv
<1>1. JobInv
  BY JobInvInit
<1>2. \A w \in Worker : op[w].pc \notin Locking
  BY Steps DEF Init
<1>3. \A q \in Recording : q = r
  BY DEF OneRecording
<1>4. Arrival(r) \in Path /\ "awaiting_finalize" \in State /\ Absent # r
  BY PathFacts DEF Arrival, State
<1>5. Known(r) /\ rows[r].path = Arrival(r) /\ rows[r].state = "awaiting_finalize"
  <2>1. rows[r] = [state |-> "awaiting_finalize", path |-> Arrival(r), recompressed |-> FALSE]
    BY DEF Init
  <2>2. rows[r] \in Row
    BY <1>4, <2>1 DEF Row
  <2>3. rows[r] # NoRow
    BY <2>2, OrganizerAssumption
  <2> QED
    BY <2>1, <2>3 DEF Known
<1>6. files[Arrival(r)] = r
  <2>1. PICK x : x = CHOOSE q \in Recording : Arrival(r) = Arrival(q)
    OBVIOUS
  <2>2. x = r
    BY <1>3, <2>1
  <2>3. files[Arrival(r)] = x
    BY <1>4, <2>1 DEF Init
  <2> QED
    BY <2>2, <2>3
<1>7. \A n \in Names : files[NamePath(n)] = Absent
  <2> SUFFICES ASSUME NEW n \in Names PROVE files[NamePath(n)] = Absent
    OBVIOUS
  <2>1. NamePath(n) \in Path /\ \A q \in Recording : NamePath(n) # Arrival(q)
    BY PathFacts, PathsApart DEF Arrival
  <2> QED
    BY <2>1 DEF Init
<1>8. Kept(r)
  BY <1>4, <1>5, <1>6, <1>7 DEF Kept, Stands, Unnamed, Arrival, Init
<1> QED
  BY <1>1, <1>2, <1>8 DEF Beside, HeldAt

(* A purge condemns before it moves anything.                              *)
LEMMA CondemnedByStep ==
  ASSUME [Next]_vars
  PROVE  condemned' = condemned \/ (condemned \subseteq condemned' /\ UNCHANGED files)
<1>1. ASSUME NEW w \in Worker, Work(w)
      PROVE  condemned' = condemned \/ (condemned \subseteq condemned' /\ UNCHANGED files)
  BY <1>1 DEF Work, BeginFinalize, BeginTrash, BeginRelease, BeginRecompress, StoreCallFails,
     FinalizeStep, RemuxBegins, RemuxCommits, RemuxFails, RemuxToolMissing, CaptureDropped, Render,
     PickName, ClaimName, MoveIntoLibrary, StorePath, WriteSidecar, Complete,
     PurgeStep, TrashRefuses, TrashSidecar, TrashClaim, TrashMedia, TrashPathStored, TrashStateStored,
     ReleaseRefuses, ReleaseMedia, ReleaseSidecar, ReleaseRow,
     RecompressStep, EncodeBegins, EncodeEnds, SetAside, Install, MarkRecompressed, OriginalGoes,
     SweepStep, ListParked, ListComplete, SkipParked, LookForFile, DeclareMissing, MissingRefuses
<1> QED
  BY <1>1 DEF Next, Describe, Crash, Erase, vars

LEMMA BesideStep == OneRecording /\ BesideInv /\ [Next]_vars => BesideInv'
<1> SUFFICES ASSUME OneRecording, BesideInv, [Next]_vars PROVE BesideInv'
  OBVIOUS
<1>1. JobInv /\ JobInv'
  BY JobInvStep DEF BesideInv
<1> SUFFICES ASSUME condemned' = {}, NEW r \in Recording PROVE Beside(r)'
  BY <1>1 DEF BesideInv
<1>2. Recording = {r}
  BY DEF OneRecording
<1>3. condemned' = condemned
  BY CondemnedByStep
<1>4. Beside(r) /\ r \notin condemned
  BY <1>3 DEF BesideInv
<1>5. ASSUME UNCHANGED <<rows, files, sidecars>>, \A w \in Worker : op'[w] = op[w] \/ op'[w] = Idle
      PROVE  Beside(r)'
  <2>1. Known(r)' /\ rows'[r].path = rows[r].path /\ rows'[r].state = rows[r].state /\ rows[r].state # "trashed"
    BY <1>4, <1>5 DEF Beside, Kept, Known
  <2>2. \A w \in Worker : op'[w] = op[w] \/ op'[w].pc \notin Locking
    BY <1>5, Steps
  <2> QED
    BY <1>1, <1>2, <1>4, <1>5, <2>1, <2>2, RestsBeside DEF Beside
<1>6. ASSUME NEW w \in Worker, Work(w) PROVE Beside(r)'
  BY <1>1, <1>2, <1>3, <1>4, <1>6, BesideWork
<1>7. ASSUME NEW process, Crash(process) PROVE Beside(r)'
  BY <1>1, <1>5, <1>7, CrashKeeps DEF Crash
<1>8. CASE Describe \/ UNCHANGED vars
  BY <1>5, <1>8 DEF Describe, vars
<1>9. \A n \in Names : ~Erase(n)
  BY DEF Erase, OneRecording
<1> QED
  BY <1>6, <1>7, <1>8, <1>9 DEF Next

(* A recording that reads complete and that nobody purged always has its   *)
(* media under its name or set aside beside it: whatever an encode is held *)
(* up by, whichever rename of the swap or of its undoing fails, and after  *)
(* whichever of them the recorder dies, over any number of crashes, sweeps *)
(* and encodes.                                                            *)
THEOREM OriginalKept == OneRecording => (Spec => []OriginalIsBeside)
<1> SUFFICES ASSUME OneRecording PROVE Spec => []OriginalIsBeside
  OBVIOUS
<1>1. Init => BesideInv
  BY BesideInit
<1>2. BesideInv /\ [Next]_vars => BesideInv'
  BY BesideStep
<1>3. BesideInv => OriginalIsBeside
  <2> SUFFICES ASSUME BesideInv, NEW r \in Recording, InState(r, {"complete"}), r \notin condemned
               PROVE  files[rows[r].path] = r \/ files[AsidePath(rows[r].path)] = r
    BY DEF OriginalIsBeside
  <2>1. condemned = {}
    BY DEF BesideInv, JobInv, TypeOK, OneRecording
  <2>2. Kept(r)
    BY <2>1 DEF BesideInv, Beside
  <2>3. rows[r].path \in sidecars /\ \E n \in Names : rows[r].path = NamePath(n)
    BY <2>2 DEF Kept, InState
  <2>4. rows[r].path # CapturePath(r) /\ rows[r].path # RemuxPath(r)
    BY <2>3, PathsApart
  <2> QED
    BY <2>2, <2>4 DEF Kept, Stands
<1> QED
  BY <1>1, <1>2, <1>3, PTL DEF Spec

(* The operator's purge is all that takes the last copy of it off the      *)
(* volume: not a step of a finalize, an encode, its swap, a sweep or a     *)
(* release, whichever fails or is cut short.                               *)
THEOREM OnlyPurgesLose == OneRecording => (Spec => OnlyCondemnedAreLost)
<1> SUFFICES ASSUME OneRecording PROVE Spec => OnlyCondemnedAreLost
  OBVIOUS
<1>1. Init => BesideInv
  BY BesideInit
<1>2. BesideInv /\ [Next]_vars => BesideInv'
  BY BesideStep
<1>3. BesideInv => (condemned = {} => \A r \in Recording : Copies(r) # {})
  <2> SUFFICES ASSUME BesideInv, condemned = {}, NEW r \in Recording PROVE Copies(r) # {}
    OBVIOUS
  <2>1. Stands(r)
    BY DEF BesideInv, Beside, Kept
  <2>2. CapturePath(r) \in Path /\ RemuxPath(r) \in Path
        /\ \A n \in Names : NamePath(n) \in Path /\ AsidePath(NamePath(n)) \in Path
    BY PathFacts
  <2> QED
    BY <2>1, <2>2 DEF Stands, Copies
<1>4. BesideInv' => (condemned = {} => \A r \in Recording : Copies(r) # {})'
  BY <1>3, PTL
<1>5. BesideInv /\ [Next]_vars =>
        [\A r \in Recording : Copies(r) # {} /\ Copies(r)' = {} => r \in condemned \cup erased']_vars
  <2> SUFFICES ASSUME BesideInv, [Next]_vars,
                      NEW r \in Recording, Copies(r) # {}, Copies(r)' = {}, r \notin condemned
               PROVE  FALSE
    OBVIOUS
  <2>1. condemned = {}
    BY DEF BesideInv, JobInv, TypeOK, OneRecording
  <2>2. condemned' # {}
    BY <1>2, <1>4
  <2>3. UNCHANGED files
    BY <2>1, <2>2, CondemnedByStep
  <2> QED
    BY <2>3 DEF Copies
<1> QED
  BY <1>1, <1>2, <1>5, PTL DEF Spec, OnlyCondemnedAreLost
=============================================================================
