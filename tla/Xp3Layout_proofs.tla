-------------------------- MODULE Xp3Layout_proofs --------------------------
(***************************************************************************)
(* Theorems about Xp3Layout for every archive, encoder and number of       *)
(* rounds: the sweep that assigns offsets keeps objects apart, and an      *)
(* archive reported as written returns every object.                       *)
(***************************************************************************)
EXTENDS Xp3Layout, FiniteSetTheorems, TLAPS

(* How far the placing loop has come: every object once it has ended. *)
PlacedTo == IF phase = "assign" THEN next ELSE N + 1

Same(i, j) ==
  assigned[i] = assigned[j] /\ footprint[i] = footprint[j] /\ t.content[i] = t.content[j]

Apart(i, j) == End(i) <= assigned[j] \/ Same(i, j)

(* Objects placed so far do not meet, in the order they were placed. *)
SweepApart == \A i, j \in Obj : i < j /\ j < PlacedTo => Apart(i, j)

(* cursor is the end of the object placed last, and of all others. *)
SweepFront ==
  phase = "assign" =>
    /\ previous = 0 => next = 1
    /\ previous # 0 => previous < next /\ cursor = End(previous)
    /\ \A i \in Obj : i < next /\ previous # 0 => i = previous \/ Apart(i, previous)

(* Room is adjusted for index blocks only. *)
DataRoom == \A i \in Obj \ t.index : footprint[i] = t.newLen[i]

(* What has been written is in the image, index blocks apart: they may be  *)
(* longer than their room.                                                 *)
WrittenKept ==
  phase = "write" =>
    \A i \in Obj \ t.index : i < next => NewBytes(i) \subseteq Addr /\ ReadsBack(i)

(* An answer is a length the block can have, and each block has been asked *)
(* for the offsets assigned.                                               *)
Answered ==
  /\ \A x \in encoder : x.length \in t.lengths[x.block] /\ x.length \in Nat
  /\ phase # "assign" => \A b \in t.index : Answers(b) # {}

LayoutInv ==
  /\ TypeOK
  /\ Answered
  /\ t \in Templates
  /\ DataRoom
  /\ SweepApart
  /\ SweepFront
  /\ WrittenKept
  /\ SuccessReadsBack

----------------------------------------------------------------------------
(* What a template is, field by field. *)
LEMMA TemplateFields ==
  ASSUME NEW m \in Templates
  PROVE  /\ m \in TemplateType
         /\ m.index \subseteq Obj
         /\ m.orig \in [Obj -> Addr] /\ m.oldLen \in [Obj -> Nat]
         /\ m.newLen \in [Obj -> Nat]
         /\ m.oldContent \in [Obj -> 1 .. N]
         /\ m.content \in [Obj -> 1 .. 2 * N]
         /\ m.lengths \in [Obj -> SUBSET Nat]
         /\ IsFiniteSet(Lengths(m))
         /\ \A i \in m.index : \A j \in Obj \ {i} : m.content[i] # m.content[j]
BY LayoutAssumption DEF LayoutAssumption, TemplateType

LEMMA ConstantsType == N \in Nat /\ HeaderEnd \in Nat /\ MaxAddr \in Nat /\ Rounds \in Nat
BY LayoutAssumption DEF LayoutAssumption

(* A block encoded for the offsets assigned has one of its lengths. *)
LEMMA EncodedLenType ==
  ASSUME t \in Templates, Answered, phase # "assign", NEW b \in t.index
  PROVE  EncodedLen(b) \in Nat /\ EncodedLen(b) \in t.lengths[b]
<1> DEFINE x == CHOOSE x \in Answers(b) : TRUE
<1>1. x \in Answers(b)
  BY DEF Answered
<1>2. x \in encoder /\ x.block = b
  BY <1>1 DEF Answers
<1>3. EncodedLen(b) = x.length
  BY DEF EncodedLen
<1> QED
  BY <1>2, <1>3 DEF Answered

(* So is what is written of an object, and its content has a name. *)
LEMMA WrittenType ==
  ASSUME LayoutInv, phase # "assign", NEW i \in Obj
  PROVE  /\ WrittenLen(i) \in Nat
         /\ Content(i) \in 0 .. 3 * N
         /\ assigned[i] \in Nat /\ footprint[i] \in Nat
<1>1. IsIndex(i) => EncodedLen(i) \in Nat
  BY EncodedLenType DEF LayoutInv, IsIndex
<1>2. t.newLen[i] \in Nat /\ t.oldLen[i] \in Nat /\ t.content[i] \in 1 .. 2 * N
  BY TemplateFields DEF LayoutInv
<1>3. 2 * N + i \in 0 .. 3 * N
  BY ConstantsType DEF Obj
<1> QED
  BY <1>1, <1>2, <1>3, ConstantsType
     DEF LayoutInv, TypeOK, WrittenLen, Content, Recoded

(* Answers stand as long as the offsets do. *)
LEMMA AnswersStand ==
  ASSUME UNCHANGED <<t, assigned, encoder>>, NEW b
  PROVE  Answers(b)' = Answers(b) /\ EncodedLen(b)' = EncodedLen(b)
<1>1. Answers(b)' = Answers(b)
  BY DEF Answers, Listed
<1> QED
  BY <1>1 DEF EncodedLen

LEMMA AnsweredStands ==
  ASSUME Answered, UNCHANGED <<t, assigned, encoder>>, phase # "assign" \/ UNCHANGED phase
  PROVE  Answered'
BY AnswersStand DEF Answered

(* Bytes of two data objects that are apart are disjoint, or equal.        *)
LEMMA ApartBytes ==
  ASSUME LayoutInv, phase # "assign",
         NEW i \in Obj \ t.index, NEW j \in Obj, i < j,
         NEW a \in NewBytes(i), a \in NewBytes(j)
  PROVE  /\ j \notin t.index
         /\ assigned[i] = assigned[j]
         /\ t.content[i] = t.content[j]
<1>1. Apart(i, j)
  BY ConstantsType DEF LayoutInv, SweepApart, PlacedTo, Obj
<1>2. /\ assigned[i] \in Nat /\ assigned[j] \in Nat /\ footprint[i] \in Nat
      /\ WrittenLen(i) \in Nat /\ WrittenLen(j) \in Nat
  BY WrittenType
<1>3. WrittenLen(i) = footprint[i]
  BY DEF LayoutInv, DataRoom, WrittenLen, IsIndex
<1>4. ~(End(i) <= assigned[j])
  <2>1. a \in Int /\ a <= assigned[i] + WrittenLen(i) - 1 /\ assigned[j] <= a
    BY <1>2 DEF NewBytes, Bytes
  <2> QED
    BY <2>1, <1>2, <1>3 DEF End
<1>5. Same(i, j)
  BY <1>1, <1>4 DEF Apart
<1>6. j \notin t.index
  BY <1>5, TemplateFields DEF Same, LayoutInv, Obj
<1> QED
  BY <1>5, <1>6 DEF Same

----------------------------------------------------------------------------
LEMMA InitLayout == Init => LayoutInv
<1> SUFFICES ASSUME Init PROVE LayoutInv
  OBVIOUS
<1>1. t \in Templates /\ t \in TemplateType /\ t.newLen \in [Obj -> Nat]
  BY TemplateFields DEF Init
<1>2. TypeOK
  <2> DEFINE Records == [block : Obj, offsets : UNION {[S -> Nat] : S \in SUBSET Obj},
                         length : Nat]
  <2>1. encoder \subseteq Records
    BY DEF Init
  <2>2. /\ round \in 0 .. Rounds /\ next \in 1 .. N + 1 /\ previous \in 0 .. N
        /\ cursor \in Nat /\ reuse \subseteq Obj
    BY ConstantsType DEF Init
  <2>3. settled \in BOOLEAN
    BY DEF Init
  <2>4. image \in [Addr -> (0 .. 3 * N) \X Int]
    BY ConstantsType DEF Init, Zero
  <2>5. /\ phase \in {"assign", "measure", "check", "write", "done", "failed"}
        /\ footprint \in [Obj -> Nat] /\ assigned \in [Obj -> Nat]
    BY <1>1 DEF Init
  <2> QED
    BY <1>1, <2>1, <2>2, <2>3, <2>4, <2>5 DEF TypeOK
<1>3. DataRoom
  BY DEF Init, DataRoom
<1>4. SweepApart /\ SweepFront /\ Answered
  BY DEF Init, SweepApart, SweepFront, PlacedTo, Obj, Answered
<1> QED
  BY <1>1, <1>2, <1>3, <1>4 DEF Init, LayoutInv, WrittenKept, SuccessReadsBack

(* An object that shares the place of the one before it. *)
LEMMA PlaceAliasStep == LayoutInv /\ PlaceAlias => LayoutInv'
<1> SUFFICES ASSUME LayoutInv, PlaceAlias PROVE LayoutInv'
  OBVIOUS
<1>0. PICK n \in Obj : n = next
  BY DEF PlaceAlias
<1>1. /\ previous \in Obj /\ previous < next /\ next \in Obj
      /\ footprint[next] = footprint[previous] /\ t.content[next] = t.content[previous]
      /\ assigned \in [Obj -> Nat] /\ footprint \in [Obj -> Nat]
  BY ConstantsType DEF LayoutInv, TypeOK, SweepFront, PlaceAlias, Alias, Obj
<1>2. \A i \in Obj : i < next => assigned'[i] = assigned[i]
  BY <1>1 DEF PlaceAlias, Obj
<1>3. assigned'[next] = assigned[previous] /\ assigned' \in [Obj -> Nat]
  BY <1>1 DEF PlaceAlias
<1>4. TypeOK'
  BY <1>3, ConstantsType DEF LayoutInv, TypeOK, PlaceAlias, Obj
<1>5. \A i \in Obj : i < next => Apart(i, n)'
  BY <1>0, <1>1, <1>2, <1>3 DEF LayoutInv, SweepFront, PlaceAlias, Apart, Same, End
<1>6. \A i, j \in Obj : i < j /\ j < next => Apart(i, j)'
  <2> SUFFICES ASSUME NEW i \in Obj, NEW j \in Obj, i < j, j < next
               PROVE  Apart(i, j)'
    OBVIOUS
  <2>1. Apart(i, j)
    BY DEF LayoutInv, SweepApart, PlacedTo, PlaceAlias
  <2>2. i < next
    BY <1>1 DEF Obj
  <2> QED
    BY <2>1, <2>2, <1>2 DEF PlaceAlias, Apart, Same, End
<1>7. SweepApart'
  <2>1. \A j \in Obj : j < next + 1 => j < next \/ j = n
    BY <1>0, <1>1 DEF Obj
  <2>2. \A i, j \in Obj : i < j /\ j < next + 1 => Apart(i, j)'
    BY <2>1, <1>0, <1>5, <1>6
  <2> QED
    BY <2>2 DEF SweepApart, PlacedTo, PlaceAlias
<1>8. SweepFront'
  <2>1. \A i \in Obj : i < next + 1 => i < next \/ i = n
    BY <1>0, <1>1 DEF Obj
  <2>2. Apart(n, previous)'
    BY <1>0, <1>1, <1>2, <1>3 DEF PlaceAlias, Apart, Same
  <2>3. \A i \in Obj : i < next => i = previous \/ Apart(i, previous)'
    BY <1>1, <1>2 DEF LayoutInv, SweepFront, PlaceAlias, Apart, Same, End
  <2>4. cursor' = End(previous)' /\ previous < next + 1 /\ previous # 0
    BY <1>1, <1>2 DEF LayoutInv, SweepFront, PlaceAlias, End, Obj
  <2> QED
    BY <2>1, <2>2, <2>3, <2>4 DEF SweepFront, PlaceAlias
<1> QED
  BY <1>4, <1>7, <1>8
     DEF LayoutInv, PlaceAlias, DataRoom, WrittenKept, SuccessReadsBack, Answered

(* An object with a place of its own, at or behind the cursor. *)
LEMMA PlaceOwnStep == LayoutInv /\ PlaceOwn => LayoutInv'
<1> SUFFICES ASSUME LayoutInv, PlaceOwn PROVE LayoutInv'
  OBVIOUS
<1>0. PICK n \in Obj : n = next
  BY DEF PlaceOwn
<1>1. /\ next \in Obj /\ previous \in 0 .. N /\ cursor \in Nat
      /\ assigned \in [Obj -> Nat] /\ footprint \in [Obj -> Nat]
      /\ t.orig \in [Obj -> Addr]
  BY TemplateFields DEF LayoutInv, TypeOK, PlaceOwn
<1> DEFINE offset == IF t.preserve /\ t.orig[next] > cursor THEN t.orig[next] ELSE cursor
<1>2. offset \in Nat /\ cursor <= offset
  BY <1>1, ConstantsType DEF Addr
<1>3. /\ assigned' = [assigned EXCEPT ![next] = offset]
      /\ cursor' = offset + footprint[next]
  BY DEF PlaceOwn
<1> HIDE DEF offset
<1>4. /\ assigned' \in [Obj -> Nat] /\ assigned'[next] = offset
      /\ \A i \in Obj : i < next => assigned'[i] = assigned[i]
  BY <1>1, <1>2, <1>3 DEF Obj
<1>5. TypeOK'
  <2>1. cursor' \in Nat
    BY <1>1, <1>2, <1>3
  <2>2. next' \in 1 .. N + 1 /\ previous' \in 0 .. N
    BY <1>1, ConstantsType DEF PlaceOwn, Obj
  <2> QED
    BY <2>1, <2>2, <1>4 DEF LayoutInv, TypeOK, PlaceOwn
<1>6. \A i \in Obj : i < next => End(i) <= cursor
  <2> SUFFICES ASSUME NEW i \in Obj, i < next PROVE End(i) <= cursor
    OBVIOUS
  <2>1. previous # 0 /\ previous \in Obj /\ cursor = End(previous)
    BY <1>1, ConstantsType DEF LayoutInv, SweepFront, PlaceOwn, Obj
  <2>2. i = previous \/ Apart(i, previous)
    BY <2>1 DEF LayoutInv, SweepFront, PlaceOwn
  <2>3. /\ assigned[i] \in Nat /\ footprint[i] \in Nat
        /\ assigned[previous] \in Nat /\ footprint[previous] \in Nat
    BY <1>1, <2>1
  <2> QED
    BY <2>1, <2>2, <2>3 DEF Apart, Same, End
<1>7. \A i \in Obj : i < next => Apart(i, n)'
  <2> SUFFICES ASSUME NEW i \in Obj, i < next PROVE End(i)' <= assigned'[n]
    BY DEF Apart
  <2>1. End(i)' = End(i)
    BY <1>4 DEF End, PlaceOwn
  <2>2. End(i) \in Nat
    BY <1>1 DEF End
  <2> QED
    BY <2>1, <2>2, <1>0, <1>1, <1>2, <1>4, <1>6
<1>8. \A i, j \in Obj : i < j /\ j < next => Apart(i, j)'
  <2> SUFFICES ASSUME NEW i \in Obj, NEW j \in Obj, i < j, j < next
               PROVE  Apart(i, j)'
    OBVIOUS
  <2>1. Apart(i, j)
    BY DEF LayoutInv, SweepApart, PlacedTo, PlaceOwn
  <2>2. i < next
    BY <1>1 DEF Obj
  <2> QED
    BY <2>1, <2>2, <1>4 DEF PlaceOwn, Apart, Same, End
<1>9. \A i \in Obj : i < next + 1 => i < next \/ i = n
  BY <1>0, <1>1 DEF Obj
<1>10. SweepApart'
  <2>1. \A i, j \in Obj : i < j /\ j < next + 1 => Apart(i, j)'
    BY <1>0, <1>7, <1>8, <1>9
  <2> QED
    BY <2>1 DEF SweepApart, PlacedTo, PlaceOwn
<1>11. SweepFront'
  <2>1. n # 0 /\ n < next + 1
    BY <1>0, <1>1 DEF Obj
  <2>2. cursor' = assigned'[n] + footprint[n]
    BY <1>0, <1>3, <1>4
  <2>3. previous' = n /\ next' = next + 1 /\ footprint' = footprint
    BY <1>0 DEF PlaceOwn
  <2>4. \A i \in Obj : i < next' => i = previous' \/ Apart(i, previous)'
    BY <2>3, <1>7, <1>9 DEF Apart, Same, End
  <2> QED
    BY <2>1, <2>2, <2>3, <2>4 DEF SweepFront, End
<1> QED
  BY <1>5, <1>10, <1>11
     DEF LayoutInv, PlaceOwn, DataRoom, WrittenKept, SuccessReadsBack, Answered

(* Encoding asks every block, and changes no earlier answer. *)
LEMMA EncodeStep == LayoutInv /\ Encode => LayoutInv'
<1> SUFFICES ASSUME LayoutInv, Encode PROVE LayoutInv'
  OBVIOUS
<1>1. /\ phase = "assign" /\ next = N + 1 /\ phase' = "measure"
      /\ UNCHANGED <<t, round, settled, next, cursor, previous, footprint, assigned, reuse,
                     image>>
  BY DEF Encode
<1>2. PICK len \in [t.index -> Lengths(t)] :
        /\ \A b \in t.index : len[b] \in t.lengths[b]
        /\ encoder' = encoder \cup
             {[block |-> b, offsets |-> Listed(b), length |-> len[b]] : b \in t.index}
  BY DEF Encode
<1>3. /\ t.index \subseteq Obj /\ t.lengths \in [Obj -> SUBSET Nat]
      /\ assigned \in [Obj -> Nat]
  BY TemplateFields DEF LayoutInv, TypeOK
<1>4. \A b \in t.index : Listed(b) \in UNION {[S -> Nat] : S \in SUBSET Obj}
  <2> SUFFICES ASSUME NEW b \in t.index
               PROVE  \E S \in SUBSET Obj : Listed(b) \in [S -> Nat]
    OBVIOUS
  <2> DEFINE S == {i \in Obj \ t.index : t.owner[i] = b}
  <2>1. S \in SUBSET Obj /\ Listed(b) \in [S -> Nat]
    BY <1>3 DEF Listed
  <2> QED
    BY <2>1
<1>5. TypeOK'
  <2>1. \A b \in t.index : len[b] \in Nat
    BY <1>2, <1>3
  <2>2. {[block |-> b, offsets |-> Listed(b), length |-> len[b]] : b \in t.index}
          \subseteq [block : Obj, offsets : UNION {[S -> Nat] : S \in SUBSET Obj}, length : Nat]
    BY <1>3, <1>4, <2>1
  <2> QED
    BY <1>1, <1>2, <2>2 DEF LayoutInv, TypeOK
<1>6. Answered'
  <2>1. ASSUME NEW x \in encoder' PROVE x.length \in t.lengths[x.block] /\ x.length \in Nat
    <3>1. CASE x \in encoder
      BY <3>1 DEF LayoutInv, Answered
    <3>2. CASE x \notin encoder
      <4>1. PICK b \in t.index :
              x = [block |-> b, offsets |-> Listed(b), length |-> len[b]]
        BY <1>2, <3>2
      <4> QED
        BY <4>1, <1>2, <1>3
    <3> QED
      BY <3>1, <3>2
  <2>2. ASSUME NEW b \in t.index PROVE Answers(b)' # {}
    <3> DEFINE x == [block |-> b, offsets |-> Listed(b), length |-> len[b]]
    <3>1. x \in encoder' /\ x.block = b /\ x.offsets = Listed(b)
      BY <1>2
    <3>2. Listed(b)' = Listed(b)
      BY <1>1 DEF Listed
    <3> QED
      BY <3>1, <3>2 DEF Answers
  <2> QED
    BY <1>1, <2>1, <2>2 DEF Answered
<1>7. SweepApart' /\ SweepFront'
  BY <1>1 DEF LayoutInv, SweepApart, SweepFront, PlacedTo, Apart, Same, End
<1> QED
  BY <1>1, <1>5, <1>6, <1>7
     DEF LayoutInv, DataRoom, WrittenKept, SuccessReadsBack

(* A new round starts the sweep over. *)
LEMMA MeasureStep == LayoutInv /\ Measure => LayoutInv'
<1> SUFFICES ASSUME LayoutInv, Measure PROVE LayoutInv'
  OBVIOUS
<1>0. phase = "measure" /\ round < Rounds
  BY DEF Measure, Adjusting
<1>1. \A i \in Obj : Wanted(i) \in Nat
  BY <1>0, EncodedLenType DEF LayoutInv, TypeOK, Wanted, IsIndex
<1>2. round' \in 0 .. Rounds /\ settled' \in BOOLEAN
  BY <1>0, ConstantsType DEF LayoutInv, TypeOK, Measure, Stable
<1>3. TypeOK'
  BY <1>1, <1>2, ConstantsType DEF LayoutInv, TypeOK, Measure
<1>4. DataRoom'
  BY TemplateFields DEF LayoutInv, TypeOK, DataRoom, Measure, Wanted, IsIndex
<1>5. SweepApart' /\ SweepFront' /\ Answered'
  BY DEF LayoutInv, SweepApart, SweepFront, PlacedTo, Measure, Obj, Answered
<1> QED
  BY <1>3, <1>4, <1>5 DEF LayoutInv, Measure, WrittenKept, SuccessReadsBack

(* Choosing the index bytes, opening the output, refusing. *)
LEMMA DecideStep == LayoutInv /\ (Build \/ Open \/ Refuse) => LayoutInv'
<1> SUFFICES ASSUME LayoutInv, Build \/ Open \/ Refuse PROVE LayoutInv'
  OBVIOUS
<1>0. Answered'
  BY AnsweredStands DEF LayoutInv, Build, Open, Refuse, Adjusting
<1>1. CASE Build
  <2>1. TypeOK'
    BY <1>1, TemplateFields DEF LayoutInv, TypeOK, Build
  <2> QED
    BY <1>0, <1>1, <2>1 DEF LayoutInv, Build, DataRoom, SweepApart, SweepFront, PlacedTo,
         Apart, Same, End, WrittenKept, SuccessReadsBack
<1>2. CASE Open
  <2>1. SourceImage \in [Addr -> (0 .. 3 * N) \X Int]
    <3> SUFFICES ASSUME NEW a \in Addr PROVE SourceByte(a) \in (0 .. 3 * N) \X Int
      BY DEF SourceImage
    <3>1. CASE \E i \in Obj : a \in OldBytes(i)
      <4> DEFINE i == CHOOSE i \in Obj : a \in OldBytes(i)
      <4>1. i \in Obj
        BY <3>1
      <4>2. t.oldContent[i] \in 1 .. N /\ t.orig[i] \in Addr
        BY <4>1, TemplateFields DEF LayoutInv
      <4>3. SourceByte(a) = <<t.oldContent[i], a - t.orig[i]>>
        BY <3>1 DEF SourceByte
      <4> HIDE DEF i
      <4>4. t.oldContent[i] \in 0 .. 3 * N /\ a - t.orig[i] \in Int
        BY <4>2, ConstantsType DEF Addr
      <4> QED
        BY <4>3, <4>4
    <3>2. CASE ~ \E i \in Obj : a \in OldBytes(i)
      <4>1. SourceByte(a) = Opaque \/ SourceByte(a) = Zero
        BY <3>2 DEF SourceByte
      <4> QED
        BY <4>1, ConstantsType DEF Opaque, Zero
    <3> QED
      BY <3>1, <3>2
  <2>2. [a \in Addr |-> Zero] \in [Addr -> (0 .. 3 * N) \X Int]
    BY ConstantsType DEF Zero
  <2>3. TypeOK'
    BY <1>2, <2>1, <2>2, ConstantsType DEF LayoutInv, TypeOK, Open
  <2>4. WrittenKept'
    BY <1>2 DEF WrittenKept, Open, Obj
  <2> QED
    BY <1>0, <1>2, <2>3, <2>4 DEF LayoutInv, Open, DataRoom, SweepApart, SweepFront, PlacedTo,
         Apart, Same, End, SuccessReadsBack
<1>3. CASE Refuse
  BY <1>0, <1>3 DEF LayoutInv, TypeOK, Refuse, DataRoom, SweepApart, SweepFront, PlacedTo,
       Apart, Same, End, WrittenKept, SuccessReadsBack
<1> QED
  BY <1>1, <1>2, <1>3

(* Writing an object leaves the data objects written before it readable. *)
LEMMA WriteStep == LayoutInv /\ WriteObject => LayoutInv'
<1> SUFFICES ASSUME LayoutInv, WriteObject PROVE LayoutInv'
  OBVIOUS
<1>1. /\ next \in Obj /\ NewBytes(next) \subseteq Addr /\ phase = "write"
      /\ image \in [Addr -> (0 .. 3 * N) \X Int]
  BY DEF LayoutInv, TypeOK, WriteObject
<1>2. \A a \in Addr : image'[a] = IF a \in NewBytes(next)
                                  THEN <<Content(next), a - assigned[next]>> ELSE image[a]
  BY DEF WriteObject
<1>3. TypeOK'
  <2>1. Content(next) \in 0 .. 3 * N /\ assigned[next] \in Nat
    BY <1>1, WrittenType
  <2>2. \A a \in Addr : a - assigned[next] \in Int
    BY <2>1, ConstantsType DEF Addr
  <2>3. image' \in [Addr -> (0 .. 3 * N) \X Int]
    BY <1>1, <2>1, <2>2 DEF WriteObject
  <2>4. next' \in 1 .. N + 1
    BY <1>1, ConstantsType DEF WriteObject, Obj
  <2> QED
    BY <2>3, <2>4 DEF LayoutInv, TypeOK, WriteObject
<1>4. \A i \in Obj : NewBytes(i)' = NewBytes(i) /\ Content(i)' = Content(i)
  BY AnswersStand DEF WriteObject, NewBytes, WrittenLen, Content, IsIndex
<1>5. ASSUME NEW i \in Obj \ t.index, i < next + 1
      PROVE  NewBytes(i) \subseteq Addr /\ ReadsBack(i)'
  <2>1. CASE i = next
    BY <2>1, <1>1, <1>2, <1>4 DEF ReadsBack, WriteObject
  <2>2. CASE i < next
    <3>1. NewBytes(i) \subseteq Addr /\ ReadsBack(i)
      BY <1>1, <2>2 DEF LayoutInv, WrittenKept
    <3>2. ASSUME NEW a \in NewBytes(i)
          PROVE  image'[a] = <<Content(i), a - assigned[i]>>
      <4>1. CASE a \in NewBytes(next)
        <5>1. /\ next \notin t.index /\ assigned[i] = assigned[next]
              /\ t.content[i] = t.content[next]
          BY <1>1, <2>2, <4>1, ApartBytes
        <5>2. Content(i) = Content(next)
          BY <5>1 DEF Content, IsIndex
        <5> QED
          BY <1>2, <3>1, <4>1, <5>1, <5>2
      <4>2. CASE a \notin NewBytes(next)
        BY <1>2, <3>1, <4>2 DEF ReadsBack
      <4> QED
        BY <4>1, <4>2
    <3> QED
      BY <3>1, <3>2, <1>4 DEF ReadsBack, WriteObject
  <2>3. i = next \/ i < next
    BY <1>1, <1>5 DEF Obj
  <2> QED
    BY <2>1, <2>2, <2>3
<1>6. WrittenKept'
  BY <1>4, <1>5 DEF WrittenKept, WriteObject
<1>7. Answered'
  BY <1>1, AnsweredStands DEF LayoutInv, WriteObject
<1> QED
  BY <1>1, <1>3, <1>6, <1>7 DEF LayoutInv, WriteObject, DataRoom, SweepApart, SweepFront,
       PlacedTo, Apart, Same, End, SuccessReadsBack

(* Data objects are known to be intact, index blocks are read again. *)
LEMMA SelfCheckStep == LayoutInv /\ SelfCheck => LayoutInv'
<1> SUFFICES ASSUME LayoutInv, SelfCheck PROVE LayoutInv'
  OBVIOUS
<1>1. \A i \in Obj : ReadsBack(i)' = ReadsBack(i)
  BY AnswersStand DEF SelfCheck, ReadsBack, NewBytes, WrittenLen, Content, IsIndex
<1>2. \A i \in Obj \ t.index : ReadsBack(i)
  BY ConstantsType DEF LayoutInv, WrittenKept, SelfCheck, Obj
<1>3. phase' = "done" => \A b \in t.index : ReadsBack(b)
  BY DEF SelfCheck
<1>4. SuccessReadsBack'
  BY <1>1, <1>2, <1>3 DEF SuccessReadsBack
<1>5. phase' \in {"done", "failed"} /\ phase = "write"
  BY DEF SelfCheck
<1>6. TypeOK'
  BY <1>5 DEF LayoutInv, TypeOK, SelfCheck
<1>7. t \in Templates /\ t' = t
  BY DEF LayoutInv, SelfCheck
<1>8. DataRoom'
  BY <1>7 DEF LayoutInv, SelfCheck, DataRoom
<1>9. SweepApart'
  BY <1>5, <1>7 DEF LayoutInv, SelfCheck, SweepApart, PlacedTo, Apart, Same, End
<1>10. SweepFront' /\ WrittenKept'
  BY <1>5 DEF SweepFront, WrittenKept
<1>11. Answered'
  BY <1>5, AnsweredStands DEF LayoutInv, SelfCheck
<1> QED
  BY <1>4, <1>6, <1>7, <1>8, <1>9, <1>10, <1>11 DEF LayoutInv

LEMMA StutterStep == LayoutInv /\ UNCHANGED vars => LayoutInv'
<1> SUFFICES ASSUME LayoutInv, UNCHANGED vars PROVE LayoutInv'
  OBVIOUS
<1>1. Answered'
  BY AnsweredStands DEF LayoutInv, vars
<1>2. \A i : NewBytes(i)' = NewBytes(i) /\ (ReadsBack(i)' <=> ReadsBack(i))
  BY AnswersStand DEF vars, ReadsBack, NewBytes, WrittenLen, Content, IsIndex
<1> QED
  BY <1>1, <1>2 DEF LayoutInv, TypeOK, vars, DataRoom, SweepApart, SweepFront, PlacedTo,
       Apart, Same, End, WrittenKept, SuccessReadsBack

(* The sweep keeps objects apart and the writer keeps them whole, for any  *)
(* archive, any edit and any encoder of index blocks.                      *)
THEOREM LayoutInductive == Spec => []LayoutInv
<1>1. LayoutInv /\ [Next]_vars => LayoutInv'
  BY PlaceAliasStep, PlaceOwnStep, EncodeStep, MeasureStep, DecideStep, WriteStep, SelfCheckStep,
     StutterStep DEF Next
<1> QED
  BY InitLayout, <1>1, PTL DEF Spec

(* Every variable of the layout keeps its type. *)
THEOREM LayoutTypeCorrect == Spec => []TypeOK
<1>1. LayoutInv => TypeOK
  BY DEF LayoutInv
<1> QED
  BY LayoutInductive, <1>1, PTL

(* pack never reports success for an archive in which one object has       *)
(* overwritten another, whatever the lengths the encoders come up with and *)
(* even when the rounds run out before the layout has settled.             *)
THEOREM LayoutReadsBack == Spec => []SuccessReadsBack
<1>1. LayoutInv => SuccessReadsBack
  BY DEF LayoutInv
<1> QED
  BY LayoutInductive, <1>1, PTL

(* Two data objects share bytes of the new archive only if they are equal. *)
THEOREM LayoutShares == Spec => []SharedOnlyIfEqual
<1>1. LayoutInv => SharedOnlyIfEqual
  <2> SUFFICES ASSUME LayoutInv, phase # "assign",
                      NEW i \in Obj \ t.index, NEW j \in Obj \ t.index,
                      NEW a \in NewBytes(i), a \in NewBytes(j)
               PROVE  assigned[i] = assigned[j] /\ t.content[i] = t.content[j]
    BY DEF SharedOnlyIfEqual
  <2>1. i = j \/ i < j \/ j < i
    BY DEF Obj
  <2> QED
    BY <2>1, ApartBytes
<1> QED
  BY LayoutInductive, <1>1, PTL

----------------------------------------------------------------------------
(* Settling. The sweep is a function of the footprints, so that making it  *)
(* over with the same footprints gives the same offsets, and every round   *)
(* that changes a footprint uses up one length an encoder can return.      *)

(* Where object n goes, by the object before it. *)
Front(n) == IF n = 1 THEN HeaderEnd ELSE End(n - 1)
Offset(n) ==
  IF n > 1 /\ t.preserve /\ Alias(n, n - 1) THEN assigned[n - 1]
  ELSE IF t.preserve /\ t.orig[n] > Front(n) THEN t.orig[n] ELSE Front(n)

SweepForm ==
  \A n \in Obj : n < PlacedTo => assigned[n] = Offset(n) /\ HeaderEnd <= assigned[n]

(* cursor and previous stand for the object placed last. *)
SweepPlace ==
  phase = "assign" =>
    IF next = 1 THEN cursor = HeaderEnd /\ previous = 0
    ELSE /\ previous \in Obj /\ previous < next /\ cursor = End(next - 1)
         /\ Alias(next - 1, previous) /\ assigned[next - 1] = assigned[previous]

(* The lengths of index blocks their room is too short for. *)
Short == {x \in t.index \X Lengths(t) : x[2] \in t.lengths[x[1]] /\ x[2] > footprint[x[1]]}

(* The offsets are those of the footprints, and no block is too long; the  *)
(* encoders have been asked for them.                                      *)
Settled ==
  /\ \A n \in Obj : assigned[n] = Offset(n)
  /\ \A b \in t.index : Answers(b) # {} /\ EncodedLen(b) <= footprint[b]

RoundInv ==
  /\ phase \notin {"assign", "measure"} => settled \/ round = Rounds
  /\ t.preserve =>
       /\ \A b \in t.index : t.oldLen[b] <= footprint[b]
       /\ IF settled THEN Settled ELSE Cardinality(Short) + round <= Cardinality(Growth)

SettleInv == SweepForm /\ SweepPlace /\ RoundInv

(* The index blocks are finitely many, and so are their lengths. *)
LEMMA ShortFinite ==
  ASSUME LayoutInv
  PROVE  /\ IsFiniteSet(Short) /\ Cardinality(Short) \in Nat
         /\ IsFiniteSet(Growth) /\ Cardinality(Growth) \in Nat
<1>1. IsFiniteSet(Obj)
  BY ConstantsType, FS_Interval DEF Obj
<1>2. IsFiniteSet(t.index)
  <2>1. t.index \in SUBSET Obj
    BY TemplateFields DEF LayoutInv
  <2> QED
    BY <1>1, <2>1, FS_Subset
<1>3. IsFiniteSet(t.index \X Lengths(t))
  BY <1>2, FS_Product, TemplateFields DEF LayoutInv
<1>4. Short \in SUBSET (t.index \X Lengths(t)) /\ Growth \in SUBSET (t.index \X Lengths(t))
  BY DEF Short, Growth
<1> QED
  BY <1>3, <1>4, FS_Subset, FS_CardinalityType

LEMMA InitSettle == Init => SettleInv
<1> SUFFICES ASSUME Init PROVE SettleInv
  OBVIOUS
<1>1. LayoutInv
  BY InitLayout
<1>2. SweepForm /\ SweepPlace
  BY DEF Init, SweepForm, SweepPlace, PlacedTo, Obj
<1>3. \A b \in t.index : t.oldLen[b] = footprint[b] /\ footprint[b] \in Nat
  BY LayoutAssumption, TemplateFields DEF Init
<1>4. Short = Growth
  <2>1. \A x \in t.index \X Lengths(t) : footprint[x[1]] = t.oldLen[x[1]]
    BY <1>3
  <2> QED
    BY <2>1 DEF Short, Growth
<1>5. RoundInv
  BY <1>1, <1>3, <1>4, ShortFinite DEF Init, RoundInv
<1> QED
  BY <1>2, <1>5 DEF SettleInv

(* The place the loop finds for the next object is the one its predecessor *)
(* gives it.                                                               *)
LEMMA PlaceFindsOffset ==
  ASSUME LayoutInv, SettleInv, PlaceAlias \/ PlaceOwn
  PROVE  /\ assigned' = [assigned EXCEPT ![next] = Offset(next)]
         /\ Offset(next) \in Nat /\ HeaderEnd <= Offset(next)
         /\ t.preserve /\ previous # 0 /\ Alias(next, previous) <=>
              next > 1 /\ t.preserve /\ Alias(next, next - 1)
<1>1. /\ phase = "assign" /\ next \in Obj /\ next \in Nat
      /\ assigned \in [Obj -> Nat] /\ footprint \in [Obj -> Nat]
      /\ t.orig \in [Obj -> Addr] /\ HeaderEnd \in Nat
  <2>1. phase = "assign" /\ next \in Obj
    BY DEF PlaceAlias, PlaceOwn
  <2>2. next \in Nat
    BY <2>1, ConstantsType DEF Obj
  <2> QED
    BY <2>1, <2>2, ConstantsType, TemplateFields DEF LayoutInv, TypeOK
<1>2. CASE next = 1
  <2>1. cursor = HeaderEnd /\ previous = 0
    BY <1>1, <1>2 DEF SettleInv, SweepPlace
  <2>2. PlaceOwn /\ Front(next) = cursor
    BY <1>2, <2>1 DEF PlaceAlias, Front
  <2>3. Offset(next) = IF t.preserve /\ t.orig[next] > cursor THEN t.orig[next] ELSE cursor
    BY <1>2, <2>2 DEF Offset
  <2>4. t.orig[next] \in Nat
    BY <1>1, ConstantsType DEF Addr
  <2>5. assigned' = [assigned EXCEPT ![next] =
                       IF t.preserve /\ t.orig[next] > cursor THEN t.orig[next] ELSE cursor]
    BY <2>2 DEF PlaceOwn
  <2>6. Offset(next) \in Nat /\ HeaderEnd <= Offset(next)
    BY <1>1, <2>1, <2>3, <2>4
  <2>7. assigned' = [assigned EXCEPT ![next] = Offset(next)]
    BY <2>3, <2>5, Zenon
  <2>8. ~(previous # 0) /\ ~(next > 1)
    BY <1>2, <2>1
  <2> QED
    BY <2>6, <2>7, <2>8
<1>3. CASE next # 1
  <2>1. /\ next > 1 /\ next - 1 \in Obj /\ next - 1 < next
        /\ previous \in Obj /\ previous # 0 /\ cursor = End(next - 1)
        /\ Alias(next - 1, previous) /\ assigned[next - 1] = assigned[previous]
    BY <1>1, <1>3, ConstantsType DEF SettleInv, SweepPlace, Obj
  <2>2. Alias(next, previous) <=> Alias(next, next - 1)
    BY <2>1 DEF Alias
  <2>3. HeaderEnd <= assigned[next - 1]
    BY <1>1, <2>1 DEF SettleInv, SweepForm, PlacedTo
  <2>4. Front(next) = cursor /\ cursor \in Nat /\ HeaderEnd <= cursor
    BY <1>1, <1>3, <2>1, <2>3 DEF Front, End
  <2>5. t.orig[next] \in Nat
    BY <1>1, ConstantsType DEF Addr
  <2>6. CASE t.preserve /\ Alias(next, previous)
    <3>1. Offset(next) = assigned[previous]
      BY <2>1, <2>2, <2>6 DEF Offset
    <3>2. assigned' = [assigned EXCEPT ![next] = assigned[previous]]
      BY <2>1, <2>6 DEF PlaceAlias, PlaceOwn
    <3> QED
      BY <1>1, <2>1, <2>2, <2>3, <3>1, <3>2
  <2>7. CASE ~(t.preserve /\ Alias(next, previous))
    <3>1. Offset(next) = IF t.preserve /\ t.orig[next] > cursor THEN t.orig[next] ELSE cursor
      BY <2>2, <2>4, <2>7 DEF Offset
    <3>2. assigned' = [assigned EXCEPT ![next] =
                         IF t.preserve /\ t.orig[next] > cursor THEN t.orig[next] ELSE cursor]
      BY <2>7 DEF PlaceAlias, PlaceOwn
    <3> QED
      BY <1>1, <2>1, <2>2, <2>4, <2>5, <3>1, <3>2
  <2> QED
    BY <2>6, <2>7
<1> QED
  BY <1>2, <1>3

(* Placing an object keeps the form of the sweep; made over, the sweep     *)
(* changes nothing.                                                        *)
LEMMA PlaceSettle ==
  ASSUME LayoutInv, SettleInv, PlaceAlias \/ PlaceOwn
  PROVE  SettleInv'
<1>1. /\ phase = "assign" /\ phase' = phase /\ next \in Obj /\ next' = next + 1
      /\ UNCHANGED <<t, round, settled, footprint, encoder>>
      /\ next \in Nat /\ assigned \in [Obj -> Nat] /\ footprint \in [Obj -> Nat]
  BY ConstantsType DEF PlaceAlias, PlaceOwn, LayoutInv, TypeOK, Obj
<1>2. /\ assigned' = [assigned EXCEPT ![next] = Offset(next)]
      /\ Offset(next) \in Nat /\ HeaderEnd <= Offset(next)
  BY PlaceFindsOffset
<1>3. assigned'[next] = Offset(next) /\ \A i \in Obj \ {next} : assigned'[i] = assigned[i]
  BY <1>1, <1>2
<1>4. ASSUME NEW n \in Obj, n <= next PROVE Offset(n)' = Offset(n)
  <2>1. n = 1 \/ (n - 1 \in Obj /\ n - 1 # next)
    BY <1>1, <1>4, ConstantsType DEF Obj
  <2>2. n > 1 => assigned'[n - 1] = assigned[n - 1]
    BY <1>3, <2>1
  <2>3. n \in Nat /\ (n = 1 \/ n > 1)
    BY ConstantsType DEF Obj
  <2>4. Front(n)' = Front(n)
    BY <1>1, <2>2, <2>3 DEF Front, End
  <2>5. Alias(n, n - 1)' <=> Alias(n, n - 1)
    BY <1>1 DEF Alias
  <2> QED
    BY <1>1, <2>2, <2>3, <2>4, <2>5 DEF Offset
<1>5. SweepForm'
  <2> SUFFICES ASSUME NEW n \in Obj, n < next + 1
               PROVE  assigned'[n] = Offset(n)' /\ HeaderEnd <= assigned'[n]
    BY <1>1 DEF SweepForm, PlacedTo
  <2>1. n <= next /\ (n = next \/ n < next)
    BY <1>1 DEF Obj
  <2>2. CASE n = next
    BY <1>2, <1>3, <1>4, <2>1, <2>2
  <2>3. CASE n < next
    <3>1. assigned[n] = Offset(n) /\ HeaderEnd <= assigned[n] /\ n # next
      BY <1>1, <2>3 DEF SettleInv, SweepForm, PlacedTo
    <3> QED
      BY <1>3, <1>4, <2>1, <3>1
  <2> QED
    BY <2>1, <2>2, <2>3
<1>6. SweepPlace'
  <2>0. PICK n \in Obj : n = next
    BY <1>1
  <2>1. next' # 1 /\ next' - 1 = n /\ n < next'
    BY <1>1, <2>0 DEF Obj
  <2>2. \A i, j : Alias(i, j)' <=> Alias(i, j)
    BY <1>1 DEF Alias
  <2>3. CASE PlaceOwn
    <3> DEFINE offset == IF t.preserve /\ t.orig[next] > cursor THEN t.orig[next] ELSE cursor
    <3>1. /\ assigned' = [assigned EXCEPT ![next] = offset]
          /\ cursor' = offset + footprint[next] /\ previous' = next
      BY <2>3 DEF PlaceOwn
    <3>2. assigned'[n] = offset
      BY <1>1, <2>0, <3>1
    <3>3. cursor' = End(n)'
      BY <1>1, <2>0, <3>1, <3>2 DEF End
    <3>4. Alias(n, n)
      BY DEF Alias
    <3> QED
      BY <1>1, <2>0, <2>1, <2>2, <3>1, <3>3, <3>4 DEF SweepPlace
  <2>4. CASE PlaceAlias
    <3>1. /\ previous # 0 /\ Alias(n, previous) /\ previous' = previous
          /\ cursor' = cursor /\ assigned'[n] = assigned[previous]
      BY <1>1, <2>0, <2>4 DEF PlaceAlias
    <3>2. next # 1
      BY <1>1, <3>1 DEF SettleInv, SweepPlace
    <3>3. /\ previous \in Obj /\ previous < next /\ cursor = End(next - 1)
          /\ Alias(next - 1, previous) /\ assigned[next - 1] = assigned[previous]
      BY <1>1, <3>2 DEF SettleInv, SweepPlace
    <3>4. previous # next /\ previous < next' /\ assigned'[previous] = assigned[previous]
      BY <1>1, <1>3, <3>3 DEF Obj
    <3>5. cursor' = End(n)'
      BY <1>1, <3>1, <3>3 DEF End, Alias
    <3> QED
      BY <1>1, <2>1, <2>2, <3>1, <3>3, <3>4, <3>5 DEF SweepPlace
  <2> QED
    BY <2>3, <2>4
<1>7. Short' = Short /\ Growth' = Growth
  BY <1>1 DEF Short, Growth
<1>8. Settled => Settled'
  <2> SUFFICES ASSUME Settled PROVE Settled'
    OBVIOUS
  <2>1. assigned' = assigned
    BY <1>1, <1>2 DEF Settled
  <2> QED
    BY <1>1, <2>1, AnswersStand DEF Settled, Offset, Front, End, Alias
<1>9. RoundInv'
  BY <1>1, <1>7, <1>8 DEF SettleInv, RoundInv
<1> QED
  BY <1>5, <1>6, <1>9 DEF SettleInv

(* Blocks are encoded for new offsets, or for those of the round before,   *)
(* and then they have the length they had.                                 *)
LEMMA EncodeSettle ==
  ASSUME LayoutInv, SettleInv, Encode
  PROVE  SettleInv'
<1>1. /\ phase = "assign" /\ next = N + 1 /\ phase' = "measure"
      /\ UNCHANGED <<t, round, settled, next, cursor, previous, footprint, assigned>>
  BY DEF Encode
<1>2. /\ \A n : Offset(n)' = Offset(n)
      /\ Short' = Short /\ Growth' = Growth
  BY <1>1 DEF Offset, Front, End, Alias, Short, Growth
<1>3. SweepForm' /\ SweepPlace'
  BY <1>1, <1>2 DEF SettleInv, SweepForm, SweepPlace, PlacedTo
<1>4. ASSUME NEW b \in t.index, Answers(b) # {}
      PROVE  Answers(b)' = Answers(b)
  <2>1. PICK len \in [t.index -> Lengths(t)] :
          /\ \A c \in t.index : \A x \in Answers(c) : x.length = len[c]
          /\ encoder' = encoder \cup
               {[block |-> c, offsets |-> Listed(c), length |-> len[c]] : c \in t.index}
    BY DEF Encode
  <2>2. \A c : Listed(c)' = Listed(c)
    BY <1>1 DEF Listed
  <2>3. Answers(b) \subseteq Answers(b)'
    BY <2>1, <2>2 DEF Answers
  <2>4. ASSUME NEW y \in Answers(b)' PROVE y \in Answers(b)
    <3>1. y \in encoder' /\ y.block = b /\ y.offsets = Listed(b)
      BY <2>2 DEF Answers
    <3>2. CASE y \in encoder
      BY <3>1, <3>2 DEF Answers
    <3>3. CASE y \notin encoder
      <4>1. y = [block |-> b, offsets |-> Listed(b), length |-> len[b]]
        BY <2>1, <3>1, <3>3
      <4>2. PICK x : x \in Answers(b)
        BY <1>4
      <4>3. /\ x \in encoder /\ x.block = b /\ x.offsets = Listed(b)
            /\ x.length = len[b]
        BY <2>1, <4>2 DEF Answers
      <4>4. x = [block |-> b, offsets |-> Listed(b), length |-> len[b]]
        BY <4>3 DEF LayoutInv, TypeOK
      <4> QED
        BY <4>1, <4>2, <4>4
    <3> QED
      BY <3>2, <3>3
  <2> QED
    BY <2>3, <2>4
<1>5. Settled => Settled'
  BY <1>1, <1>2, <1>4 DEF Settled, EncodedLen
<1>6. RoundInv'
  BY <1>1, <1>2, <1>5 DEF SettleInv, RoundInv
<1> QED
  BY <1>3, <1>6 DEF SettleInv

(* A round either changes nothing or gives some block the room for a       *)
(* length it had none for.                                                 *)
LEMMA MeasureSettle ==
  ASSUME LayoutInv, SettleInv, Measure
  PROVE  SettleInv'
<1>1. /\ phase = "measure" /\ phase' = "assign" /\ ~settled /\ round < Rounds
      /\ next' = 1 /\ cursor' = HeaderEnd /\ previous' = 0
      /\ UNCHANGED <<t, assigned, encoder>>
      /\ footprint' = [i \in Obj |-> Wanted(i)]
      /\ settled' = Stable /\ round' = round + 1
  BY DEF Measure, Adjusting
<1>2. SweepForm' /\ SweepPlace'
  BY <1>1 DEF SweepForm, SweepPlace, PlacedTo, Obj
<1>3. RoundInv'
  <2> SUFFICES ASSUME t.preserve
               PROVE  /\ \A b \in t.index : t.oldLen[b] <= footprint'[b]
                      /\ settled' => Settled'
                      /\ ~settled' => Cardinality(Short') + round' <= Cardinality(Growth')
    BY <1>1 DEF RoundInv
  <2>1. /\ \A b \in t.index : b \in Obj
        /\ \A b \in t.index : EncodedLen(b) \in Nat /\ EncodedLen(b) \in t.lengths[b]
        /\ \A b \in Obj : footprint[b] \in Nat
        /\ \A b \in t.index : t.oldLen[b] \in Nat
    BY <1>1, EncodedLenType, TemplateFields DEF LayoutInv, TypeOK
  <2>2. \A b \in t.index :
          footprint'[b] = IF footprint[b] > EncodedLen(b) THEN footprint[b] ELSE EncodedLen(b)
    BY <1>1, <2>1 DEF Wanted, IsIndex
  <2>3. \A b \in t.index : /\ footprint[b] <= footprint'[b]
                           /\ EncodedLen(b) <= footprint'[b]
                           /\ footprint'[b] \in Nat
    BY <2>1, <2>2
  <2>4. \A b \in t.index : t.oldLen[b] <= footprint'[b]
    BY <2>1, <2>3 DEF SettleInv, RoundInv
  <2>5. CASE Stable
    <3>1. footprint' = footprint
      BY <1>1, <2>5 DEF Stable, LayoutInv, TypeOK
    <3>2. \A n \in Obj : assigned[n] = Offset(n)
      BY <1>1, ConstantsType DEF SettleInv, SweepForm, PlacedTo, Obj
    <3>3. \A n \in Obj : Offset(n)' = Offset(n)
      BY <1>1, <3>1 DEF Offset, Front, End, Alias
    <3>4. \A b \in t.index : Answers(b)' # {} /\ EncodedLen(b)' <= footprint'[b]
      BY <1>1, <2>3, AnswersStand DEF LayoutInv, Answered
    <3> QED
      BY <1>1, <2>4, <2>5, <3>2, <3>3, <3>4 DEF Settled
  <2>6. CASE ~Stable
    <3>1. Cardinality(Short) + round <= Cardinality(Growth)
      BY <1>1 DEF SettleInv, RoundInv
    <3>2. PICK b \in t.index : EncodedLen(b) > footprint[b]
      BY <2>1, <2>6 DEF Stable, Wanted, IsIndex
    <3> DEFINE x == <<b, EncodedLen(b)>>
    <3>3. x \in t.index \X Lengths(t) /\ x[1] = b /\ x[2] = EncodedLen(b)
      BY <2>1 DEF Lengths
    <3> HIDE DEF x
    <3>4. x \in Short /\ x \notin Short'
      BY <1>1, <2>1, <2>3, <3>2, <3>3 DEF Short
    <3>5. Short' \subseteq Short
      <4> SUFFICES ASSUME NEW y \in Short' PROVE y \in Short
        OBVIOUS
      <4>1. /\ y \in t.index \X Lengths(t) /\ y[2] \in t.lengths[y[1]]
            /\ y[2] > footprint'[y[1]]
        BY <1>1 DEF Short
      <4>2. y[1] \in t.index /\ y[1] \in Obj /\ y[2] \in Nat
        BY <2>1, <4>1, TemplateFields DEF LayoutInv
      <4> QED
        BY <2>1, <2>3, <4>1, <4>2 DEF Short
    <3>6. Short' \in SUBSET (Short \ {x})
      BY <3>4, <3>5
    <3>7. /\ IsFiniteSet(Short \ {x})
          /\ Cardinality(Short \ {x}) = Cardinality(Short) - 1
      BY <3>4, ShortFinite, FS_RemoveElement
    <3>8. Cardinality(Short') <= Cardinality(Short \ {x}) /\ Cardinality(Short') \in Nat
      BY <3>6, <3>7, FS_Subset, FS_CardinalityType
    <3>9. round' = round + 1 /\ round \in Nat /\ Growth' = Growth
      BY <1>1, ConstantsType DEF LayoutInv, TypeOK, Growth
    <3>10. ~settled'
      BY <1>1, <2>6
    <3> QED
      BY <2>4, <3>1, <3>7, <3>8, <3>9, <3>10, ShortFinite
  <2> QED
    BY <2>5, <2>6
<1> QED
  BY <1>2, <1>3 DEF SettleInv

(* The later phases move nothing. *)
LEMMA RestSettle ==
  ASSUME LayoutInv, SettleInv,
         Build \/ Open \/ Refuse \/ WriteObject \/ SelfCheck \/ UNCHANGED vars
  PROVE  SettleInv'
<1>1. UNCHANGED <<t, round, settled, footprint, assigned, encoder>>
  BY DEF Build, Open, Refuse, WriteObject, SelfCheck, vars
<1>2. /\ \A n : Offset(n)' = Offset(n)
      /\ \A b : EncodedLen(b)' = EncodedLen(b) /\ Answers(b)' = Answers(b)
      /\ Short' = Short /\ Growth' = Growth
  BY <1>1, AnswersStand DEF Offset, Front, End, Alias, Short, Growth
<1>3. Settled' <=> Settled
  BY <1>1, <1>2 DEF Settled
<1>4. CASE UNCHANGED vars
  BY <1>1, <1>2, <1>3, <1>4
     DEF vars, SettleInv, SweepForm, SweepPlace, PlacedTo, RoundInv, End, Alias
<1>5. CASE Build
  <2>1. PlacedTo' = PlacedTo /\ phase' # "assign" /\ (settled \/ round = Rounds)
    BY <1>5, ConstantsType DEF Build, Adjusting, PlacedTo, LayoutInv, TypeOK
  <2> QED
    BY <1>1, <1>2, <1>3, <2>1 DEF SettleInv, SweepForm, SweepPlace, RoundInv
<1>6. CASE Open \/ Refuse \/ WriteObject \/ SelfCheck
  <2>1. /\ PlacedTo' = PlacedTo
        /\ phase \notin {"assign", "measure"} /\ phase' \notin {"assign", "measure"}
    BY <1>6 DEF Open, Refuse, WriteObject, SelfCheck, PlacedTo
  <2> QED
    BY <1>1, <1>2, <1>3, <2>1 DEF SettleInv, SweepForm, SweepPlace, RoundInv
<1> QED
  BY <1>4, <1>5, <1>6

(* Every sweep is a function of the footprints, and each round that is not *)
(* the last leaves fewer lengths the blocks have no room for.              *)
THEOREM SettleInductive == Spec => []SettleInv
<1>1. LayoutInv /\ SettleInv /\ [Next]_vars => SettleInv'
  BY PlaceSettle, EncodeSettle, MeasureSettle, RestSettle DEF Next
<1> QED
  BY InitSettle, LayoutInductive, <1>1, PTL DEF Spec

(* No index block overruns its room in an anchored archive whose layout    *)
(* settled, nor in one whose blocks have no more lengths to grow to than   *)
(* there are rounds, whatever the encoders answer (the loop of             *)
(* pack_xp3_from_manifest and the assignment after it).                    *)
THEOREM LayoutFits == Spec => []AnchoredIndexFits
<1>1. LayoutInv /\ SettleInv => AnchoredIndexFits
  <2> SUFFICES ASSUME LayoutInv, SettleInv, t.preserve,
                      phase \in {"check", "write", "done", "failed"},
                      settled \/ Cardinality(Growth) <= Rounds,
                      NEW b \in t.index
               PROVE  WrittenLen(b) <= footprint[b]
    BY DEF AnchoredIndexFits
  <2>1. b \in Obj /\ t \in Templates /\ footprint[b] \in Nat
    BY TemplateFields DEF LayoutInv, TypeOK
  <2>2. t.oldLen[b] <= footprint[b]
    BY DEF SettleInv, RoundInv
  <2>3. EncodedLen(b) <= footprint[b]
    <3>1. CASE settled
      BY <3>1 DEF SettleInv, RoundInv, Settled
    <3>2. CASE ~settled
      <4>1. Cardinality(Short) + Rounds <= Cardinality(Growth)
        BY <3>2 DEF SettleInv, RoundInv
      <4>2. Cardinality(Short) = 0
        BY <3>2, <4>1, ShortFinite, ConstantsType
      <4>3. Short = {}
        BY <4>2, ShortFinite, FS_EmptySet
      <4>4. EncodedLen(b) \in Nat /\ EncodedLen(b) \in t.lengths[b]
        BY EncodedLenType DEF LayoutInv
      <4>5. <<b, EncodedLen(b)>> \in t.index \X Lengths(t)
        BY <4>4 DEF Lengths
      <4> QED
        BY <2>1, <4>3, <4>4, <4>5 DEF Short
    <3> QED
      BY <3>1, <3>2
  <2> QED
    BY <2>2, <2>3 DEF WrittenLen, IsIndex
<1> QED
  BY LayoutInductive, SettleInductive, <1>1, PTL

----------------------------------------------------------------------------
(* Bytes nobody claims. *)

(* While objects are written the rest of the image is the source's, and    *)
(* no object of the new file lies on an unknown byte.                      *)
UntouchedInv ==
  t.preserve =>
    /\ phase \in {"write", "done"} => ~HitsOpaque
    /\ phase = "write" =>
         \A a \in Addr : (\A i \in Obj : i < next => a \notin NewBytes(i)) =>
           image[a] = SourceByte(a)
    /\ OpaqueKept

(* Objects start behind the header and the check has looked at the rest:   *)
(* no object is written over an opaque byte.                               *)
LEMMA OpaqueIsFree ==
  ASSUME LayoutInv, SettleInv, UntouchedInv, t.preserve, phase \in {"write", "done"},
         NEW a \in t.opaque, SourceByte(a) = Opaque, NEW i \in Obj
  PROVE  a \in Addr /\ a \notin NewBytes(i)
<1>1. t \in Templates /\ a \in Addr /\ t.oldContent \in [Obj -> 1 .. N]
      /\ t.orig \in [Obj -> Addr] /\ t.oldLen \in [Obj -> Nat]
  BY TemplateFields DEF LayoutInv, TemplateType
<1>2. \A j \in Obj : a \notin OldBytes(j)
  <2> SUFFICES ASSUME \E j \in Obj : a \in OldBytes(j) PROVE FALSE
    OBVIOUS
  <2> DEFINE j == CHOOSE j \in Obj : a \in OldBytes(j)
  <2>1. j \in Obj
    OBVIOUS
  <2>2. SourceByte(a) = <<t.oldContent[j], a - t.orig[j]>>
    BY DEF SourceByte
  <2> HIDE DEF j
  <2>3. t.oldContent[j] = 0
    BY <2>2 DEF Opaque
  <2> QED
    BY <1>1, <2>1, <2>3, ConstantsType
<1>3. CASE a < HeaderEnd
  <2>1. HeaderEnd <= assigned[i] /\ assigned[i] \in Nat
    BY ConstantsType, WrittenType DEF SettleInv, SweepForm, PlacedTo, Obj
  <2> QED
    BY <1>1, <1>3, <2>1, ConstantsType, WrittenType DEF NewBytes, Bytes, Addr
<1>4. CASE ~(a < HeaderEnd)
  <2>1. a \notin Known
    BY <1>1, <1>2, <1>4, ConstantsType DEF Known, Addr
  <2>2. ~HitsOpaque
    BY DEF UntouchedInv
  <2> QED
    BY <1>1, <2>1, <2>2 DEF HitsOpaque
<1> QED
  BY <1>1, <1>3, <1>4

LEMMA UntouchedStep ==
  LayoutInv /\ SettleInv /\ UntouchedInv /\ [Next]_vars => UntouchedInv'
<1> SUFFICES ASSUME LayoutInv, SettleInv, UntouchedInv, [Next]_vars, t'.preserve
             PROVE  UntouchedInv'
  BY DEF UntouchedInv
<1>1. t' = t /\ t.preserve /\ t \in Templates
  BY DEF Next, PlaceAlias, PlaceOwn, Encode, Measure, Build, Open, Refuse, WriteObject,
         SelfCheck, vars, LayoutInv
<1>2. \A a : SourceByte(a)' = SourceByte(a)
  BY <1>1 DEF SourceByte, OldBytes
<1>3. t.source
  BY <1>1, LayoutAssumption DEF LayoutAssumption
<1>4. CASE PlaceAlias \/ PlaceOwn \/ Encode \/ Measure \/ Build \/ Refuse
  <2>1. phase' \notin {"write", "done"}
    BY <1>4 DEF PlaceAlias, PlaceOwn, Encode, Measure, Adjusting, Build, Refuse
  <2> QED
    BY <2>1 DEF UntouchedInv, OpaqueKept
<1>5. ASSUME UNCHANGED <<assigned, encoder, reuse>>
      PROVE  /\ \A i : NewBytes(i)' = NewBytes(i)
             /\ HitsOpaque' <=> HitsOpaque
  <2>1. \A i : NewBytes(i)' = NewBytes(i)
    BY <1>1, <1>5, AnswersStand DEF NewBytes, WrittenLen, IsIndex
  <2>2. Known' = Known
    BY <1>1 DEF Known, OldBytes
  <2> QED
    BY <1>1, <2>1, <2>2 DEF HitsOpaque
<1>6. CASE Open
  <2>1. /\ ~HitsOpaque /\ phase' = "write" /\ UNCHANGED <<assigned, encoder, reuse>>
        /\ image' = SourceImage
    BY <1>1, <1>3, <1>6 DEF Open
  <2>2. \A a \in Addr : image'[a] = SourceByte(a)
    BY <2>1 DEF SourceImage
  <2> QED
    BY <1>2, <1>5, <2>1, <2>2 DEF UntouchedInv, OpaqueKept
<1>7. CASE WriteObject
  <2>1. /\ phase = "write" /\ phase' = "write" /\ next \in Obj /\ next' = next + 1
        /\ UNCHANGED <<assigned, encoder, reuse>>
        /\ \A a \in Addr : a \notin NewBytes(next) => image'[a] = image[a]
    BY <1>7 DEF WriteObject
  <2>2. ASSUME NEW a \in Addr, \A i \in Obj : i < next' => a \notin NewBytes(i)'
        PROVE  image'[a] = SourceByte(a)
    <3>1. next < next' /\ \A i \in Obj : i < next => i < next'
      BY <2>1, ConstantsType DEF Obj
    <3>2. a \notin NewBytes(next) /\ \A i \in Obj : i < next => a \notin NewBytes(i)
      BY <1>5, <2>1, <2>2, <3>1
    <3> QED
      BY <1>1, <2>1, <3>2 DEF UntouchedInv
  <2> QED
    BY <1>1, <1>2, <1>5, <2>1, <2>2 DEF UntouchedInv, OpaqueKept
<1>8. CASE SelfCheck
  <2>1. /\ phase = "write" /\ phase' # "write" /\ UNCHANGED <<assigned, encoder, reuse, image>>
    BY <1>8 DEF SelfCheck
  <2>2. ~HitsOpaque'
    BY <1>1, <1>5, <2>1 DEF UntouchedInv
  <2>3. ASSUME NEW a \in t.opaque, SourceByte(a) = Opaque PROVE image[a] = Opaque
    <3>1. a \in Addr
      BY <1>1, TemplateFields DEF TemplateType
    <3>2. \A i \in Obj : a \notin NewBytes(i)
      BY <1>1, <2>1, <2>3, OpaqueIsFree
    <3> QED
      BY <1>1, <2>1, <2>3, <3>1, <3>2 DEF UntouchedInv
  <2>4. OpaqueKept'
    BY <1>1, <1>2, <2>1, <2>3 DEF OpaqueKept
  <2> QED
    BY <2>1, <2>2, <2>4 DEF UntouchedInv
<1>9. CASE UNCHANGED vars
  <2>1. UNCHANGED <<phase, next, assigned, encoder, reuse, image>>
    BY <1>9 DEF vars
  <2>2. OpaqueKept' <=> OpaqueKept
    BY <1>1, <1>2, <2>1 DEF OpaqueKept
  <2> QED
    BY <1>1, <1>2, <1>5, <2>1, <2>2 DEF UntouchedInv
<1> QED
  BY <1>4, <1>6, <1>7, <1>8, <1>9 DEF Next

(* Whatever an edit does to the sizes, the non-zero bytes of the source    *)
(* that no object claims are in the new archive where they were            *)
(* (validate_opaque_source_safety, write_container).                       *)
THEOREM LayoutKeepsOpaque == Spec => []OpaqueKept
<1>1. Init => UntouchedInv
  BY DEF Init, UntouchedInv, OpaqueKept
<1>2. UntouchedInv => OpaqueKept
  BY DEF UntouchedInv, OpaqueKept
<1> QED
  BY LayoutInductive, SettleInductive, UntouchedStep, <1>1, <1>2, PTL DEF Spec
=============================================================================
