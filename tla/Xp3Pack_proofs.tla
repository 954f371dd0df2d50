--------------------------- MODULE Xp3Pack_proofs ---------------------------
(* Proofs about the edit cycle and about the verification of what it       *)
(* writes, for any entries, contents, outcomes and faults.                 *)
EXTENDS RoundTrip, TLAPS

Packing == pc \in {"rebuild", "plan", "write", "finish"}

(* What holds of the entries a running unpack has already written. *)
UnpackInv ==
  pc = "unpack" =>
    /\ source \in Archive
    /\ manifest = Absent
    /\ touched = {}
    /\ memory \in [Entries -> EntryMeta \cup {Absent}]
    /\ \A e \in Entries \ todo :
         /\ memory[e] \in EntryMeta
         /\ memory[e].outcome.kind # "none" => file[e] = memory[e].base
         /\ memory[e].outcome.kind \in Retaining => raw[e] = memory[e].base

(* A running pack has a manifest and its options; only the two loops have  *)
(* entries left to visit.                                                  *)
PackInv ==
  /\ Packing => manifest # Absent /\ opts \in Options
  /\ pc \notin {"unpack", "rebuild"} => todo = {}
  /\ pc = "rebuild" => opts.rebuild
  /\ Planned => plan \in [Entries -> Packed]

IInv ==
  /\ TypeOK
  /\ UnpackInv
  /\ PackInv
  /\ ManifestDescribesTree
  /\ OverlayCurrent
  /\ PackedAsEdited

----------------------------------------------------------------------------
(* Facts about single entries *)

(* The manifest of an entry has the fields the packer looks at. *)
LEMMA MetaFields ==
  ASSUME TypeOK, manifest # Absent, NEW e \in Entries
  PROVE  /\ manifest[e].outcome \in OutcomeType
         /\ Base(e) \in Versions
         /\ Base(e) # Absent
  BY OutcomesAssumption, ValuesAssumption DEF TypeOK, EntryMeta, Base

(* The decision for one entry: when the overlay is current and nothing     *)
(* shadows the tree, the version packed is the version the user sees.      *)
LEMMA PackEntryFollowsTree ==
  ASSUME TypeOK, manifest # Absent, SourceGenuine,
         NEW e \in Entries, Packable(e), ~Shadowed(e),
         Transformed(e) => RebuiltIsCurrent(e)
  PROVE  PackEntry(e).version = Intended(e)
<1>1. Base(e) # Absent
  BY MetaFields
<1>2. Transformed(e) => Extracted(e)
  BY DEF Transformed, Extracted, Transforms, Replacing, Retaining
<1>3. CASE Reuses(e)
  <2>1. source[e] = Base(e)
    BY <1>3 DEF Reuses, SourceGenuine
  <2>2. PackEntry(e).version = Base(e)
    BY <1>3, <2>1 DEF PackEntry
  <2>3. CASE SidecarsUnchanged(e)
    BY <2>2, <2>3 DEF SidecarsUnchanged, Intended
  <2>4. CASE ~SidecarsUnchanged(e) /\ PlaintextUnchanged(e)
    BY <1>1, <1>2, <2>2, <2>4
       DEF PlaintextUnchanged, StoragePlaintext, Shadowed, RebuiltIsCurrent, Intended
  <2>5. CASE StoragePlaintext(e) = Absent /\ ~Transformed(e)
    BY <2>2, <2>5 DEF StoragePlaintext, Shadowed, Intended
  <2> QED
    BY <1>3, <2>3, <2>4, <2>5 DEF Reuses
<1>4. CASE ~Reuses(e)
  <2>1. PackEntry(e).version = StoragePlaintext(e) /\ StoragePlaintext(e) # Absent
    BY <1>4 DEF PackEntry, Packable
  <2>2. ~(source # Absent /\ SidecarsUnchanged(e))
    BY <1>4 DEF Reuses
  <2> QED
    BY <1>2, <2>1, <2>2 DEF StoragePlaintext, Shadowed, RebuiltIsCurrent, Intended
<1> QED
  BY <1>3, <1>4

(* What pack reads for an entry it can pack is a version. *)
LEMMA PackEntryType ==
  ASSUME TypeOK, manifest # Absent, NEW e \in Entries, Packable(e)
  PROVE  PackEntry(e) \in Packed
<1>1. StoragePlaintext(e) \in File
  BY DEF TypeOK, StoragePlaintext, File
<1>2. Reuses(e) => source[e] \in Versions
  BY DEF TypeOK, Reuses, Archive
<1>3. Reuses(e) \in BOOLEAN
  BY DEF Reuses
<1>4. (IF Reuses(e) THEN source[e] ELSE StoragePlaintext(e)) \in Versions
  BY <1>1, <1>2 DEF Packable, File
<1> QED
  BY <1>3, <1>4 DEF PackEntry, Packed

----------------------------------------------------------------------------
(* The inductive invariant *)

LEMMA InitInv == Init => IInv
<1> SUFFICES ASSUME Init PROVE IInv
  OBVIOUS
<1>1. TypeOK
  BY DEF Init, TypeOK, File
<1>2. UnpackInv /\ PackInv
  BY DEF Init, UnpackInv, PackInv, Packing, Planned
<1>3. ManifestDescribesTree /\ OverlayCurrent /\ PackedAsEdited
  BY DEF Init, ManifestDescribesTree, OverlayCurrent, PackedAsEdited, Planned
<1> QED
  BY <1>1, <1>2, <1>3 DEF IInv

(* The types survive every step. *)
LEMMA TypeStep == IInv /\ [Next]_vars => TypeOK'
<1> SUFFICES ASSUME IInv, [Next]_vars PROVE TypeOK'
  OBVIOUS
<1> USE DEF IInv, TypeOK, File, tree, job, Idle
<1>1. CASE UnpackStart
  BY <1>1 DEF UnpackStart
<1>2. ASSUME NEW e \in Entries, UnpackEntry(e) PROVE TypeOK'
  <2>1. source[e] \in Versions /\ memory \in [Entries -> EntryMeta \cup {Absent}]
    BY <1>2 DEF UnpackEntry, UnpackInv, Archive
  <2>2. PICK o \in Outcomes :
          /\ memory' = [memory EXCEPT ![e] = [outcome |-> o, base |-> source[e]]]
          /\ file' = [file EXCEPT ![e] = IF o.kind = "none" THEN @ ELSE source[e]]
          /\ raw' = [raw EXCEPT ![e] = IF o.kind \in Retaining THEN source[e]
                                     ELSE IF o.kind = "tlg" THEN Absent ELSE @]
    BY <1>2 DEF UnpackEntry
  <2>3. [outcome |-> o, base |-> source[e]] \in EntryMeta
    BY <2>1 DEF EntryMeta
  <2>4. memory' \in [Entries -> EntryMeta \cup {Absent}]
    BY <2>1, <2>2, <2>3
  <2>5. file' \in [Entries -> File] /\ raw' \in [Entries -> File]
    BY <2>1, <2>2
  <2> QED
    BY <1>2, <2>4, <2>5 DEF UnpackEntry
<1>3. CASE UnpackFinish
  <2>1. memory \in [Entries -> EntryMeta]
    BY <1>3 DEF UnpackFinish, UnpackInv
  <2> QED
    BY <1>3, <2>1 DEF UnpackFinish
<1>4. ASSUME NEW o \in Options, PackStart(o) PROVE TypeOK'
  BY <1>4 DEF PackStart
<1>5. ASSUME NEW e \in Entries, RebuildAsset(e) PROVE TypeOK'
  BY <1>5 DEF RebuildAsset
<1>6. CASE RebuildFinish
  BY <1>6 DEF RebuildFinish
<1>7. CASE PackPlan
  <2>1. manifest # Absent
    BY <1>7 DEF PackPlan, PackInv, Packing
  <2>2. plan' \in [Entries -> Packed]
    BY <1>7, <2>1, PackEntryType DEF PackPlan
  <2> QED
    BY <1>7, <2>2 DEF PackPlan
<1>8. CASE PackWrite
  BY <1>8 DEF PackWrite
<1>9. CASE PackFinish
  <2>1. plan \in [Entries -> Packed]
    BY <1>9 DEF PackFinish, PackInv, Planned
  <2>2. output' \in Archive
    BY <1>9, <2>1 DEF PackFinish, Packed, Archive
  <2> QED
    BY <1>9, <2>2 DEF PackFinish
<1>10. CASE Abort
  BY <1>10 DEF Abort
<1>11. ASSUME NEW e \in Entries, EditFile(e) PROVE TypeOK'
  BY <1>11 DEF EditFile
<1>12. ASSUME NEW e \in Entries, EditRaw(e) PROVE TypeOK'
  BY <1>12 DEF EditRaw
<1>13. CASE InstallOutput
  BY <1>13 DEF InstallOutput
<1>14. CASE LoseSource
  BY <1>14 DEF LoseSource
<1>15. CASE UNCHANGED vars
  BY <1>15 DEF vars
<1> QED
  BY <1>1, <1>2, <1>3, <1>4, <1>5, <1>6, <1>7, <1>8, <1>9, <1>10, <1>11, <1>12,
     <1>13, <1>14, <1>15 DEF Next

(* So do the facts about the running job. *)
LEMMA JobStep == IInv /\ [Next]_vars => UnpackInv' /\ PackInv'
<1> SUFFICES ASSUME IInv, [Next]_vars PROVE UnpackInv' /\ PackInv'
  OBVIOUS
<1> USE DEF IInv, UnpackInv, PackInv, Packing, Planned, tree, job, Idle
<1>1. CASE UnpackStart
  BY <1>1 DEF UnpackStart, TypeOK
<1>2. ASSUME NEW e \in Entries, UnpackEntry(e) PROVE UnpackInv' /\ PackInv'
  <2>1. source[e] \in Versions /\ memory \in [Entries -> EntryMeta \cup {Absent}]
    BY <1>2 DEF UnpackEntry, Archive
  <2>2. PICK o \in Outcomes :
          /\ memory' = [memory EXCEPT ![e] = [outcome |-> o, base |-> source[e]]]
          /\ file' = [file EXCEPT ![e] = IF o.kind = "none" THEN @ ELSE source[e]]
          /\ raw' = [raw EXCEPT ![e] = IF o.kind \in Retaining THEN source[e]
                                     ELSE IF o.kind = "tlg" THEN Absent ELSE @]
    BY <1>2 DEF UnpackEntry
  <2> DEFINE m == [outcome |-> o, base |-> source[e]]
  <2>3. m \in EntryMeta
    BY <2>1 DEF EntryMeta
  <2>4. memory' \in [Entries -> EntryMeta \cup {Absent}]
    BY <2>1, <2>2, <2>3
  <2>5. ASSUME NEW d \in Entries \ todo'
        PROVE  /\ memory'[d] \in EntryMeta
               /\ memory'[d].outcome.kind # "none" => file'[d] = memory'[d].base
               /\ memory'[d].outcome.kind \in Retaining => raw'[d] = memory'[d].base
    <3>1. CASE d = e
      <4>1. memory'[e] = m
        BY <2>1, <2>2
      <4>2. /\ file'[e] = IF o.kind = "none" THEN file[e] ELSE source[e]
            /\ o.kind \in Retaining => raw'[e] = source[e]
        BY <2>2 DEF TypeOK
      <4> QED
        BY <3>1, <4>1, <4>2, <2>3
    <3>2. CASE d # e
      <4>1. d \in Entries \ todo
        BY <1>2, <2>5, <3>2 DEF UnpackEntry
      <4>2. memory'[d] = memory[d] /\ file'[d] = file[d] /\ raw'[d] = raw[d]
        BY <2>1, <2>2, <3>2, <4>1 DEF TypeOK
      <4> QED
        BY <1>2, <4>1, <4>2 DEF UnpackEntry
    <3> QED
      BY <3>1, <3>2
  <2> QED
    BY <1>2, <2>4, <2>5 DEF UnpackEntry
<1>3. CASE UnpackFinish
  BY <1>3 DEF UnpackFinish
<1>4. ASSUME NEW o \in Options, PackStart(o) PROVE UnpackInv' /\ PackInv'
  BY <1>4 DEF PackStart, PackAccepts, NeedsRebuild
<1>5. ASSUME NEW e \in Entries, RebuildAsset(e) PROVE UnpackInv' /\ PackInv'
  BY <1>5 DEF RebuildAsset
<1>6. CASE RebuildFinish
  BY <1>6 DEF RebuildFinish
<1>7. CASE PackPlan
  <2>1. plan' \in [Entries -> Packed]
    BY <1>7, PackEntryType DEF PackPlan
  <2> QED
    BY <1>7, <2>1 DEF PackPlan
<1>8. CASE PackWrite
  BY <1>8 DEF PackWrite
<1>9. CASE PackFinish
  BY <1>9 DEF PackFinish
<1>10. CASE Abort
  BY <1>10 DEF Abort
<1>11. ASSUME NEW e \in Entries, EditFile(e) PROVE UnpackInv' /\ PackInv'
  BY <1>11 DEF EditFile
<1>12. ASSUME NEW e \in Entries, EditRaw(e) PROVE UnpackInv' /\ PackInv'
  BY <1>12 DEF EditRaw
<1>13. CASE InstallOutput
  BY <1>13 DEF InstallOutput
<1>14. CASE LoseSource
  BY <1>14 DEF LoseSource
<1>15. CASE UNCHANGED vars
  BY <1>15 DEF vars
<1> QED
  BY <1>1, <1>2, <1>3, <1>4, <1>5, <1>6, <1>7, <1>8, <1>9, <1>10, <1>11, <1>12,
     <1>13, <1>14, <1>15 DEF Next

(* No step separates a manifest from the files it describes. *)
LEMMA ManifestStep == IInv /\ [Next]_vars => ManifestDescribesTree'
<1> SUFFICES ASSUME IInv, [Next]_vars PROVE ManifestDescribesTree'
  OBVIOUS
<1> USE DEF IInv, ManifestDescribesTree, Extracted, Kind, Base, tree, job
<1>1. CASE UnpackStart
  BY <1>1 DEF UnpackStart
<1>2. ASSUME NEW e \in Entries, UnpackEntry(e) PROVE ManifestDescribesTree'
  BY <1>2 DEF UnpackEntry, UnpackInv
<1>3. CASE UnpackFinish
  BY <1>3 DEF UnpackFinish, UnpackInv
<1>4. ASSUME NEW o \in Options, PackStart(o) PROVE ManifestDescribesTree'
  BY <1>4 DEF PackStart
<1>5. ASSUME NEW e \in Entries, RebuildAsset(e) PROVE ManifestDescribesTree'
  BY <1>5 DEF RebuildAsset
<1>6. ASSUME RebuildFinish \/ PackPlan \/ PackWrite \/ PackFinish \/ Abort
      PROVE  ManifestDescribesTree'
  BY <1>6 DEF RebuildFinish, PackPlan, PackWrite, PackFinish, Abort
<1>7. ASSUME NEW e \in Entries, EditFile(e) PROVE ManifestDescribesTree'
  BY <1>7 DEF EditFile, TypeOK
<1>8. ASSUME NEW e \in Entries, EditRaw(e) PROVE ManifestDescribesTree'
  BY <1>8 DEF EditRaw, TypeOK
<1>9. ASSUME InstallOutput \/ LoseSource PROVE ManifestDescribesTree'
  BY <1>9 DEF InstallOutput, LoseSource
<1>10. CASE UNCHANGED vars
  BY <1>10 DEF vars
<1> QED
  BY <1>1, <1>2, <1>3, <1>4, <1>5, <1>6, <1>7, <1>8, <1>9, <1>10 DEF Next

(* Entering the plan, every rebuilt asset is the current one: either the   *)
(* overlay was cleared and rewritten, or no sidecar had changed.           *)
LEMMA OverlayStep == IInv /\ [Next]_vars => OverlayCurrent'
<1> SUFFICES ASSUME IInv, [Next]_vars PROVE OverlayCurrent'
  OBVIOUS
<1> USE DEF IInv, OverlayCurrent, RebuiltIsCurrent, SidecarsUnchanged,
            Transformed, Kind, Base, tree, job
<1>1. ASSUME NEW o \in Options, PackStart(o) PROVE OverlayCurrent'
  BY <1>1 DEF PackStart, NeedsRebuild
<1>2. ASSUME NEW e \in Entries, RebuildAsset(e) PROVE OverlayCurrent'
  <2> SUFFICES ASSUME opts.rebuild, NEW d \in Entries \ todo', Transformed(d)
               PROVE  RebuiltIsCurrent(d)'
    BY <1>2 DEF RebuildAsset
  <2>1. CASE d = e
    BY <1>2, <2>1 DEF RebuildAsset, SkipsRebuild, TypeOK
  <2>2. CASE d # e
    BY <1>2, <2>2 DEF RebuildAsset, TypeOK
  <2> QED
    BY <2>1, <2>2
<1>3. CASE RebuildFinish
  BY <1>3 DEF RebuildFinish
<1>4. ASSUME UnpackStart \/ UnpackFinish \/ PackPlan \/ PackWrite \/ PackFinish \/ Abort
      PROVE  OverlayCurrent'
  BY <1>4 DEF UnpackStart, UnpackFinish, PackPlan, PackWrite, PackFinish, Abort, Idle
<1>5. ASSUME NEW e \in Entries, UnpackEntry(e) \/ EditFile(e) \/ EditRaw(e)
      PROVE  OverlayCurrent'
  BY <1>5 DEF UnpackEntry, EditFile, EditRaw
<1>6. ASSUME InstallOutput \/ LoseSource PROVE OverlayCurrent'
  BY <1>6 DEF InstallOutput, LoseSource
<1>7. CASE UNCHANGED vars
  BY <1>7 DEF vars
<1> QED
  BY <1>1, <1>2, <1>3, <1>4, <1>5, <1>6, <1>7 DEF Next

(* The plan is made from a current overlay and nothing changes under it. *)
LEMMA PlanStep == IInv /\ [Next]_vars => PackedAsEdited'
<1> SUFFICES ASSUME IInv, [Next]_vars PROVE PackedAsEdited'
  OBVIOUS
<1> USE DEF IInv, PackedAsEdited, Planned
<1>1. CASE PackPlan
  <2> SUFFICES ASSUME opts.rebuild, SourceGenuine, NEW e \in Entries, ~Shadowed(e)
               PROVE  plan'[e].version = Intended(e)
    BY <1>1 DEF PackPlan, tree, SourceGenuine, Shadowed, Intended, Extracted,
                Transformed, Kind, Base
  <2>1. manifest # Absent /\ todo = {}
    BY <1>1 DEF PackPlan, PackInv, Packing
  <2>2. Transformed(e) => RebuiltIsCurrent(e)
    BY <1>1, <2>1 DEF PackPlan, OverlayCurrent
  <2>3. PackEntry(e).version = Intended(e)
    BY <1>1, <2>1, <2>2, PackEntryFollowsTree DEF PackPlan
  <2> QED
    BY <1>1, <2>3 DEF PackPlan
<1>2. ASSUME PackWrite \/ UNCHANGED vars PROVE PackedAsEdited'
  BY <1>2 DEF PackWrite, vars, tree, SourceGenuine, Shadowed, Intended,
              Extracted, Transformed, Kind, Base
<1>3. ASSUME UnpackStart \/ UnpackFinish \/ RebuildFinish \/ PackFinish \/ Abort
      PROVE  PackedAsEdited'
  BY <1>3 DEF UnpackStart, UnpackFinish, RebuildFinish, PackFinish, Abort, Idle
<1>4. ASSUME NEW o \in Options, PackStart(o) PROVE PackedAsEdited'
  BY <1>4 DEF PackStart
<1>5. ASSUME NEW e \in Entries, UnpackEntry(e) \/ RebuildAsset(e) PROVE PackedAsEdited'
  BY <1>5 DEF UnpackEntry, RebuildAsset
<1>6. ASSUME NEW e \in Entries, EditFile(e) \/ EditRaw(e) PROVE PackedAsEdited'
  BY <1>6 DEF EditFile, EditRaw, job
<1>7. ASSUME InstallOutput \/ LoseSource PROVE PackedAsEdited'
  BY <1>7 DEF InstallOutput, LoseSource, job
<1> QED
  BY <1>1, <1>2, <1>3, <1>4, <1>5, <1>6, <1>7 DEF Next

(* The decision for one entry nobody touched: its stored bytes are reused. *)
LEMMA UntouchedDecision ==
  ASSUME ManifestDescribesTree, manifest # Absent, source # Absent,
         NEW e \in Entries \ touched, ~Shadowed(e), Kind(e) \in Kinds,
         Kind(e) # "tjs", manifest[e].outcome.digests
  PROVE  Reuses(e)
<1>1. CASE Transformed(e)
  BY <1>1 DEF Transformed, Transforms, Replacing, Retaining, Extracted,
              ManifestDescribesTree, SidecarsUnchanged, Reuses
<1>2. CASE Kind(e) = "raw"
  BY <1>2 DEF Shadowed, Transformed, Transforms, Replacing, Retaining, Extracted,
              ManifestDescribesTree, StoragePlaintext, PlaintextUnchanged, Reuses
<1>3. CASE Kind(e) = "none"
  BY <1>3 DEF Transformed, Transforms, Replacing, Retaining, Extracted,
              StoragePlaintext, Reuses
<1> QED
  BY <1>1, <1>2, <1>3 DEF Kinds, Transformed

(* The plan is made from an undisturbed tree and nothing changes under it. *)
LEMMA UntouchedStep ==
  IInv /\ UntouchedIsReused /\ [Next]_vars => UntouchedIsReused'
<1> SUFFICES ASSUME IInv, UntouchedIsReused, [Next]_vars PROVE UntouchedIsReused'
  OBVIOUS
<1> USE DEF IInv, UntouchedIsReused, Planned
<1>1. CASE PackPlan
  <2> SUFFICES ASSUME source # Absent, NEW e \in Entries \ touched, ~Shadowed(e),
                      Kind(e) # "tjs", manifest[e].outcome.digests
               PROVE  plan'[e].reused
    BY <1>1 DEF PackPlan, tree, Shadowed, Transformed, Kind
  <2>1. manifest # Absent
    BY <1>1 DEF PackPlan, PackInv, Packing
  <2>2. Kind(e) \in Kinds
    BY <2>1, MetaFields DEF Kind, OutcomeType
  <2>3. Reuses(e)
    BY <2>1, <2>2, UntouchedDecision
  <2> QED
    BY <1>1, <2>3 DEF PackPlan, PackEntry
<1>2. ASSUME PackWrite \/ UNCHANGED vars PROVE UntouchedIsReused'
  BY <1>2 DEF PackWrite, vars, tree, Shadowed, Transformed, Kind
<1>3. ASSUME UnpackStart \/ UnpackFinish \/ RebuildFinish \/ PackFinish \/ Abort
      PROVE  UntouchedIsReused'
  BY <1>3 DEF UnpackStart, UnpackFinish, RebuildFinish, PackFinish, Abort, Idle
<1>4. ASSUME NEW o \in Options, PackStart(o) PROVE UntouchedIsReused'
  BY <1>4 DEF PackStart
<1>5. ASSUME NEW e \in Entries,
             UnpackEntry(e) \/ RebuildAsset(e) \/ EditFile(e) \/ EditRaw(e)
      PROVE  UntouchedIsReused'
  BY <1>5 DEF UnpackEntry, RebuildAsset, EditFile, EditRaw, job
<1>6. ASSUME InstallOutput \/ LoseSource PROVE UntouchedIsReused'
  BY <1>6 DEF InstallOutput, LoseSource, job
<1> QED
  BY <1>1, <1>2, <1>3, <1>4, <1>5, <1>6 DEF Next

(* IInv is an invariant of the cycle. *)
THEOREM Inductive == Spec => []IInv
<1>1. IInv /\ [Next]_vars => IInv'
  BY TypeStep, JobStep, ManifestStep, OverlayStep, PlanStep DEF IInv
<1> QED
  BY InitInv, <1>1, PTL DEF Spec

(* Every file, archive and manifest keeps its type. *)
THEOREM TypeCorrect == Spec => []TypeOK
<1>1. IInv => TypeOK
  BY DEF IInv
<1> QED
  BY Inductive, <1>1, PTL

(* A manifest on disk always describes the untouched files beside it.      *)
THEOREM ManifestCorrect == Spec => []ManifestDescribesTree
<1>1. IInv => ManifestDescribesTree
  BY DEF IInv
<1> QED
  BY Inductive, <1>1, PTL

(* What pack writes is what the user sees in the tree.                     *)
THEOREM PackCorrect == Spec => []PackedAsEdited
<1>1. IInv => PackedAsEdited
  BY DEF IInv
<1> QED
  BY Inductive, <1>1, PTL

(* No overlay file pack reads is of an earlier generation of sidecars.     *)
THEOREM OverlayCorrect == Spec => []OverlayCurrent
<1>1. IInv => OverlayCurrent
  BY DEF IInv
<1> QED
  BY Inductive, <1>1, PTL

(* Files nobody touched keep their stored bytes in every archive packed    *)
(* beside the source, whatever else was edited, packed or interrupted.     *)
THEOREM ReuseCorrect == Spec => []UntouchedIsReused
<1>1. Init => UntouchedIsReused
  BY DEF Init, UntouchedIsReused, Planned
<1> QED
  BY Inductive, <1>1, UntouchedStep, PTL DEF Spec
----------------------------------------------------------------------------
(* Verification *)

(* The retained sources pack looked at stay as they are, and so does all   *)
(* the plan was made from.                                                 *)
Settled(e) ==
  /\ Packable(e)
  /\ plan[e] = PackEntry(e)
  /\ opts.rebuild /\ Transformed(e) => RebuiltIsCurrent(e)
PlanInv ==
  /\ Packing => RetainedIntact
  /\ Planned => \A e \in Entries : Settled(e)

RInv == IInv /\ PlanInv

LEMMA PlanInvStep == IInv /\ PlanInv /\ [Next]_vars => PlanInv'
<1> SUFFICES ASSUME IInv, PlanInv, [Next]_vars PROVE PlanInv'
  OBVIOUS
<1> DEFINE Read == <<source, manifest, file, raw, overlay, opts>>
<1>1. ASSUME UNCHANGED <<manifest, raw>>
      PROVE  RetainedIntact' <=> RetainedIntact
  BY <1>1 DEF RetainedIntact, Kind, Base
<1>2. ASSUME UNCHANGED <<Read, plan>>, NEW e \in Entries
      PROVE  Settled(e)' <=> Settled(e)
  BY <1>2 DEF Settled, Packable, PackEntry, Reuses, SidecarsUnchanged, StoragePlaintext,
              PlaintextUnchanged, Encodable, RebuiltIsCurrent, Transformed, Extracted,
              Kind, Base
<1> USE DEF PlanInv, Packing, Planned
<1>3. ASSUME NEW o \in Options, PackStart(o) PROVE PlanInv'
  BY <1>1, <1>3 DEF PackStart, PackAccepts, tree
<1>4. ASSUME NEW e \in Entries, RebuildAsset(e) PROVE PlanInv'
  BY <1>1, <1>4 DEF RebuildAsset, tree
<1>5. CASE RebuildFinish
  BY <1>1, <1>5 DEF RebuildFinish, tree
<1>6. CASE PackPlan
  <2>1. todo = {} /\ UNCHANGED Read
    BY <1>6 DEF PackPlan, IInv, PackInv, Packing, tree
  <2>2. ASSUME NEW e \in Entries PROVE Settled(e)'
    <3>1. Packable(e) /\ Packable(e)'
      BY <1>6, <2>1 DEF PackPlan, Packable, Reuses, SidecarsUnchanged, StoragePlaintext,
              PlaintextUnchanged, Encodable, Transformed, Extracted, Kind, Base
    <3>2. plan'[e] = PackEntry(e)'
      BY <1>6, <2>1 DEF PackPlan, PackEntry, Reuses, SidecarsUnchanged, StoragePlaintext,
              PlaintextUnchanged, Transformed, Extracted, Kind, Base
    <3>3. opts.rebuild /\ Transformed(e) => RebuiltIsCurrent(e)
      BY <1>6, <2>1 DEF PackPlan, IInv, OverlayCurrent
    <3> QED
      BY <2>1, <3>1, <3>2, <3>3 DEF Settled, Transformed, RebuiltIsCurrent,
              SidecarsUnchanged, Kind, Base
  <2> QED
    BY <1>1, <1>6, <2>2 DEF PackPlan, tree
<1>7. ASSUME PackWrite \/ UNCHANGED vars PROVE PlanInv'
  BY <1>1, <1>2, <1>7 DEF PackWrite, vars, tree
<1>8. ASSUME UnpackStart \/ UnpackFinish \/ PackFinish \/ Abort PROVE PlanInv'
  BY <1>8 DEF UnpackStart, UnpackFinish, PackFinish, Abort, Idle
<1>9. ASSUME NEW e \in Entries, UnpackEntry(e) \/ EditFile(e) \/ EditRaw(e)
      PROVE  PlanInv'
  BY <1>9 DEF UnpackEntry, EditFile, EditRaw, job
<1>10. ASSUME InstallOutput \/ LoseSource PROVE PlanInv'
  BY <1>10 DEF InstallOutput, LoseSource, job
<1> QED
  BY <1>3, <1>4, <1>5, <1>6, <1>7, <1>8, <1>9, <1>10 DEF Next

(* What is written, fault or no fault, is an archive. *)
LEMMA WrittenType ==
  ASSUME IInv, pc = "finish", NEW fault \in Faults
  PROVE  Written(fault) \in Archive
<1>1. plan \in [Entries -> Packed]
  BY DEF IInv, PackInv, Planned
<1>2. ASSUME NEW e \in Entries
      PROVE  (IF Hits(fault, e, "stored") THEN fault.version ELSE plan[e].version) \in Versions
  BY <1>1, FaultsAssumption DEF Hits, Packed
<1> QED
  BY <1>2 DEF Written, Archive

LEMMA VerifyStep == RInv /\ VerifyFinish => RInv'
<1> SUFFICES ASSUME RInv, VerifyFinish PROVE RInv'
  OBVIOUS
<1> USE DEF RInv, IInv, VerifyFinish, Idle, tree
<1>1. output' \in Archive
  BY WrittenType
<1>2. TypeOK'
  BY <1>1 DEF TypeOK
<1>3. UnpackInv' /\ PackInv' /\ PlanInv' /\ OverlayCurrent' /\ PackedAsEdited'
  BY DEF UnpackInv, PackInv, PlanInv, OverlayCurrent, PackedAsEdited, Packing, Planned
<1>4. ManifestDescribesTree'
  BY DEF ManifestDescribesTree, Extracted, Kind, Base
<1> QED
  BY <1>2, <1>3, <1>4

(* The invariant of the cycle holds with verification among its commands.  *)
THEOREM VerifyInductive == RSpec => []RInv
<1>1. RInit => RInv
  BY InitInv DEF RInit, RInv, Init, PlanInv, Packing, Planned
<1>2. RInv /\ [RNext]_rvars => RInv'
  <2> SUFFICES ASSUME RInv, [RNext]_rvars PROVE RInv'
    OBVIOUS
  <2>1. CASE [Next]_vars
    BY <2>1, TypeStep, JobStep, ManifestStep, OverlayStep, PlanStep, PlanInvStep
       DEF RInv, IInv
  <2>2. CASE VerifyFinish
    BY <2>2, VerifyStep
  <2> QED
    BY <2>1, <2>2 DEF RNext, rvars
<1> QED
  BY <1>1, <1>2, PTL DEF RSpec

(* What a pack with rebuilt assets knows of an entry when it verifies.     *)
LEMMA FinishFacts ==
  ASSUME RInv, pc = "finish", opts.rebuild, NEW e \in Entries
  PROVE  /\ manifest # Absent
         /\ Base(e) \in Versions /\ Base(e) # Absent
         /\ file[e] \in Versions \cup {Absent}
         /\ Kind(e) \in Kinds
         /\ plan[e].reused <=> Reuses(e)
         /\ plan[e].reused => source # Absent /\ plan[e].version = source[e]
         /\ Transformed(e) /\ ~plan[e].reused => file[e] # Absent /\ overlay[e] = file[e]
         /\ SourceGenuine /\ ~Shadowed(e) => plan[e].version = Intended(e)
         /\ Kind(e) \in Retaining \cup {"tlg"} => raw[e] \in {Absent, Base(e)}
<1>1. manifest # Absent
  BY DEF RInv, IInv, PackInv, Packing
<1>2. /\ Base(e) \in Versions /\ Base(e) # Absent
      /\ Kind(e) \in Kinds
  BY <1>1, MetaFields DEF RInv, IInv, Kind, OutcomeType
<1>3. file[e] \in Versions \cup {Absent}
  BY DEF RInv, IInv, TypeOK, File
<1>4. plan[e] = PackEntry(e)
  BY DEF RInv, PlanInv, Planned, Settled
<1>5. /\ plan[e].reused <=> Reuses(e)
      /\ plan[e].reused => source # Absent /\ plan[e].version = source[e]
  BY <1>4 DEF PackEntry, Reuses
<1>6. Transformed(e) /\ ~plan[e].reused => file[e] # Absent /\ overlay[e] = file[e]
  BY <1>5 DEF RInv, PlanInv, Planned, Settled, RebuiltIsCurrent, Reuses
<1>7. SourceGenuine /\ ~Shadowed(e) => plan[e].version = Intended(e)
  BY DEF RInv, IInv, PackedAsEdited, Planned
<1>8. Kind(e) \in Retaining \cup {"tlg"} => raw[e] \in {Absent, Base(e)}
  BY DEF RInv, PlanInv, Packing, RetainedIntact
<1> QED
  BY <1>1, <1>2, <1>3, <1>5, <1>6, <1>7, <1>8

(* What verification finds in the tree, by kind of entry. *)
LEMMA TreeCopyByKind ==
  ASSUME NEW e \in Entries
  PROVE  /\ Kind(e) = "none" => TreeCopy(e) = Absent
         /\ Kind(e) \in {"raw", "tjs"} => TreeCopy(e) = file[e]
         /\ Kind(e) = "text" => TreeCopy(e) =
              IF file[e] = Absent THEN Absent ELSE Decoded(file[e])
         /\ Kind(e) \in Retaining \cup {"tlg"} => TreeCopy(e) = raw[e]
<1> DEFINE k == Kind(e)
<1>1. TreeCopy(e) =
        CASE k = "none" -> Absent
          [] k \in {"raw", "tjs"} -> file[e]
          [] k = "text" -> (IF file[e] = Absent THEN Absent ELSE Decoded(file[e]))
          [] k \in Retaining \cup {"tlg"} -> raw[e]
  BY DEF TreeCopy
<1> HIDE DEF k
<1> SUFFICES /\ k = "none" => TreeCopy(e) = Absent
             /\ k \in {"raw", "tjs"} => TreeCopy(e) = file[e]
             /\ k = "text" => TreeCopy(e) =
                  IF file[e] = Absent THEN Absent ELSE Decoded(file[e])
             /\ k \in Retaining \cup {"tlg"} => TreeCopy(e) = raw[e]
  BY DEF k
<1> QED
  BY <1>1 DEF Retaining

(* A reused entry the checks accept shows in the tree what is stored, or   *)
(* nothing: an edit of it would have been found.                           *)
LEMMA ReusedIsIntended ==
  ASSUME RInv, pc = "finish", opts.rebuild, SourceGenuine,
         NEW e \in Entries, plan[e].reused,
         ~Shadowed(e) \/ TreeCopy(e) = Absent
  PROVE  Intended(e) = Base(e)
<1>1. source[e] = Base(e) /\ plan[e].version = source[e]
  BY FinishFacts DEF SourceGenuine
<1>2. CASE ~Shadowed(e)
  BY <1>1, <1>2, FinishFacts
<1>3. CASE Shadowed(e) /\ TreeCopy(e) = Absent
  <2>1. Kind(e) \in {"none", "raw", "tjs"}
    BY <1>3, FinishFacts DEF Shadowed, Transformed, Kinds
  <2> QED
    BY <1>3, <2>1, TreeCopyByKind DEF Intended, Extracted
<1> QED
  BY <1>2, <1>3

(* An entry whose content passes holds what the user sees of it.           *)
LEMMA PassedIsIntended ==
  ASSUME RInv, pc = "finish", opts.rebuild, SourceGenuine,
         NEW e \in Entries, NEW fault \in Faults, NEW access \in Access,
         ContentPasses(e, fault, access),
         \/ Readable(e) /\ ~(access = "unreadable" /\ Hits(fault, e, "unreadable"))
         \/ ~Shadowed(e)
  PROVE  Written(fault)[e] = Intended(e)
<1> DEFINE W == Written(fault)[e]
<1>1. W \in Versions /\ W # Absent
  BY WrittenType, ValuesAssumption DEF RInv, Archive
<1>2. RetainedExact(e, fault, access) => plan[e].reused /\ W = Base(e)
  <2> SUFFICES ASSUME RetainedExact(e, fault, access)
               PROVE  plan[e].reused /\ W = Base(e)
    OBVIOUS
  <2>1. plan[e].reused /\ SourceRead(e, access) = StoredRead(e, fault) /\ source[e] = Base(e)
    BY DEF RetainedExact, SourceGenuine
  <2>2. CASE Hits(fault, e, "unreadable")
    <3>1. ~Hits(fault, e, "stored")
      BY <2>2 DEF Hits
    <3> QED
      BY <2>1, <3>1, FinishFacts DEF Written
  <2>3. CASE ~Hits(fault, e, "unreadable")
    BY <1>1, <2>1, <2>3 DEF SourceRead, StoredRead
  <2> QED
    BY <2>1, <2>2, <2>3
<1>3. plan[e].reused => Reference(e) = TreeCopy(e)
  BY DEF Reference
<1>4. ASSUME RetainedExact(e, fault, access), Reference(e) = Absent
      PROVE  W = Intended(e)
  BY <1>2, <1>3, <1>4, ReusedIsIntended
<1>5. CASE Opaque(e, fault, access)
  <2>1. CASE ~Shadowed(e)
    BY <1>2, <1>5, <2>1, ReusedIsIntended DEF Opaque
  <2>2. CASE Readable(e) /\ ~(access = "unreadable" /\ Hits(fault, e, "unreadable"))
    <3>1. Reopened(e, fault) # Absent
      <4>1. ~Hits(fault, e, "unreadable")
        BY <1>5, <2>2, FinishFacts, ValuesAssumption
           DEF Opaque, RetainedExact, SourceRead, StoredRead, SourceGenuine
      <4> QED
        BY <1>1, <2>2, <4>1 DEF Reopened, StoredRead
    <3>2. Expected(e, fault, access) = Absent
      BY <1>5, <3>1 DEF Opaque
    <3>3. Base(e) # Absent
      BY FinishFacts
    <3>4. Reference(e) = Absent
      BY <3>2, <3>3 DEF Expected
    <3> QED
      BY <1>4, <1>5, <3>4 DEF Opaque
  <2> QED
    BY <2>1, <2>2
<1>6. CASE ~Opaque(e, fault, access)
  <2>1. /\ Expected(e, fault, access) # Absent
        /\ Expected(e, fault, access) = W
        /\ Transformed(e) => Expected(e, fault, access) \in Versions
    BY <1>6 DEF ContentPasses, FormatPasses, Reopened, StoredRead
  <2>2. CASE RetainedExact(e, fault, access) /\ Reference(e) = Absent
    BY <1>4, <2>2
  <2>3. CASE ~(RetainedExact(e, fault, access) /\ Reference(e) = Absent)
    <3>1. Reference(e) = W
      BY <2>1, <2>3 DEF Expected
    <3>2. CASE ~plan[e].reused /\ Transformed(e)
      <4>1. Extracted(e)
        BY <3>2 DEF Transformed, Extracted, Transforms, Replacing, Retaining
      <4> QED
        BY <3>1, <3>2, <4>1, FinishFacts DEF Reference, Intended
    <3>3. CASE plan[e].reused \/ ~Transformed(e)
      <4>1. TreeCopy(e) = W
        BY <3>1, <3>3 DEF Reference
      <4>2. CASE Kind(e) \in {"none", "raw", "tjs"}
        BY <1>1, <4>1, <4>2, TreeCopyByKind DEF Intended, Extracted
      <4>3. CASE Kind(e) = "text"
        <5>1. TreeCopy(e) \in {Absent, Decoded(file[e])}
              /\ (TreeCopy(e) # Absent => file[e] # Absent)
          BY <4>3, TreeCopyByKind
        <5>2. file[e] \in Versions
          BY <1>1, <4>1, <5>1, FinishFacts
        <5> QED
          BY <1>1, <4>1, <5>1, <5>2, DecodedAssumption
      <4>4. CASE Kind(e) \in Retaining \cup {"tlg"}
        <5>1. Transformed(e)
          BY <4>4 DEF Transformed, Transforms, Replacing
        <5>2. W = Base(e)
          BY <1>1, <4>1, <4>4, FinishFacts, TreeCopyByKind
        <5> QED
          BY <3>3, <5>1, <5>2, ReusedIsIntended DEF Shadowed
      <4> QED
        BY <4>2, <4>3, <4>4, FinishFacts DEF Kinds, Transforms, Replacing
    <3> QED
      BY <3>2, <3>3
  <2> QED
    BY <2>2, <2>3
<1> QED
  BY <1>5, <1>6

(* A damaged index record fails the entry it belongs to.                   *)
LEMMA KeptFaultFails ==
  ASSUME NEW fault \in Faults, fault.what \in Kept
  PROVE  IdentityFailures(fault.entry, fault) # {}
<1>1. CASE fault.what = "special"
  <2>1. "Special bytes/hash" \in IdentityFailures(fault.entry, fault)
    BY <1>1 DEF IdentityFailures
  <2> QED
    BY <2>1
<1>2. CASE fault.what # "special"
  <2>1. \E w \in Kept \ {"special"} : Hits(fault, fault.entry, w)
    BY <1>2 DEF Hits
  <2>2. "timestamp/metadata" \in IdentityFailures(fault.entry, fault)
    BY <2>1 DEF IdentityFailures
  <2> QED
    BY <2>2
<1> QED
  BY <1>1, <1>2

(* A report that passes can be trusted, whatever may go wrong with the     *)
(* written file (verify_roundtrip).                                        *)
THEOREM VerifiedCorrect == RSpec => []VerifiedIsIntended
<1>1. RInit => VerifiedIsIntended
  BY DEF RInit, VerifiedIsIntended
<1>2. RInv /\ VerifiedIsIntended /\ [RNext]_rvars => VerifiedIsIntended'
  <2> SUFFICES ASSUME RInv, VerifiedIsIntended, [RNext]_rvars PROVE VerifiedIsIntended'
    OBVIOUS
  <2>1. CASE VerifyFinish
    <3>1. PICK fault \in Faults, access \in Access :
            /\ output' = Written(fault)
            /\ report' = [passed |-> \A e \in Entries : EntryPasses(e, fault, access),
                          fault  |-> fault,
                          access |-> access]
      BY <2>1 DEF VerifyFinish
    <3>2. SUFFICES ASSUME report'.passed, SourceGenuine'
                   PROVE  /\ \A e \in Entries :
                               (Readable(e)' /\ ~Uncompared(e)') \/ ~Shadowed(e)' =>
                                 output'[e] = Intended(e)'
                          /\ \/ report'.fault.what \in MayChange \cup {"nothing", "stored"}
                             \/ Uncompared(report.fault.entry)'
      BY DEF VerifiedIsIntended
    <3>3. \A e \in Entries : EntryPasses(e, fault, access)
      BY <3>1, <3>2
    <3>4. /\ pc = "finish" /\ opts.rebuild
          /\ UNCHANGED <<source, manifest, file, overlay>>
      BY <2>1 DEF VerifyFinish, tree
    <3>5. SourceGenuine
      BY <3>2, <3>4 DEF SourceGenuine, Base
    <3>6. ASSUME NEW e \in Entries, (Readable(e)' /\ ~Uncompared(e)') \/ ~Shadowed(e)'
          PROVE  output'[e] = Intended(e)'
      <4>1. (Readable(e)' <=> Readable(e)) /\ (Shadowed(e)' <=> Shadowed(e))
            /\ Intended(e)' = Intended(e)
        BY <3>4 DEF Readable, Shadowed, Intended, Transformed, Extracted, Kind, Base
      <4>2. ContentPasses(e, fault, access)
        BY <3>3 DEF EntryPasses
      <4>3. Uncompared(e)' <=> access = "unreadable" /\ Hits(fault, e, "unreadable")
        BY <3>1 DEF Uncompared, Hits
      <4> QED
        BY <3>1, <3>4, <3>5, <3>6, <4>1, <4>2, <4>3, PassedIsIntended
    <3>7. fault.what \notin Kept
      BY <3>3, KeptFaultFails, FaultsAssumption DEF EntryPasses
    <3>8. report'.fault = fault /\ report'.access = access
      BY <3>1
    <3>9. ASSUME fault.what = "unreadable" PROVE Uncompared(fault.entry)'
      <4> DEFINE e == fault.entry
      <4>1. e \in Entries /\ Hits(fault, e, "unreadable")
        BY <3>9, FaultsAssumption DEF Hits
      <4>2. StoredRead(e, fault) = Absent /\ Reopened(e, fault) = Absent
        BY <4>1 DEF StoredRead, Reopened
      <4>3. RetainedExact(e, fault, access)
        BY <3>3, <4>1, <4>2 DEF EntryPasses, ContentPasses, Opaque
      <4>4. source[e] # Absent
        BY <3>4, <3>5, <4>1, <4>3, FinishFacts, ValuesAssumption DEF SourceGenuine, RetainedExact
      <4>5. access = "unreadable"
        BY <4>2, <4>3, <4>4 DEF RetainedExact, SourceRead
      <4> QED
        BY <3>8, <4>1, <4>5 DEF Uncompared, Hits
    <3>10. Uncompared(report.fault.entry)' <=> Uncompared(fault.entry)'
      BY <3>8
    <3> QED
      BY <3>6, <3>7, <3>8, <3>9, <3>10, FaultsAssumption
  <2>2. CASE Next /\ report' = Absent
    BY <2>2 DEF VerifiedIsIntended
  <2>3. CASE UNCHANGED rvars
    BY <2>3 DEF rvars, vars, tree, VerifiedIsIntended, SourceGenuine, Readable, Shadowed,
                Intended, Transformed, Extracted, Kind, Base, Uncompared, Hits
  <2> QED
    BY <2>1, <2>2, <2>3 DEF RNext
<1> QED
  BY VerifyInductive, <1>1, <1>2, PTL DEF RSpec

(* A fault of what may change touches no check of the index record.        *)
LEMMA HarmlessPasses ==
  ASSUME NEW e \in Entries, NEW fault, fault.what \in MayChange \cup {"nothing"}
  PROVE  IdentityFailures(e, fault) = {}
<1>1. \A w \in Kept \cup {"stored"} : ~Hits(fault, e, w)
  BY DEF Hits, Kept, MayChange
<1>2. fault.what # "special"
  BY DEF MayChange
<1> SUFFICES ASSUME NEW c \in IdentityFailures(e, fault) PROVE FALSE
  OBVIOUS
<1>3. CASE c = "physical name"
  BY <1>1, <1>3 DEF IdentityFailures, Kept
<1>4. CASE c = "XP3 hash identity"
  BY <1>1, <1>4 DEF IdentityFailures, Kept
<1>5. CASE c = "timestamp/metadata"
  BY <1>1, <1>5 DEF IdentityFailures
<1>6. CASE c = "Special bytes/hash"
  BY <1>2, <1>6 DEF IdentityFailures
<1>7. CASE c = "segment structure"
  BY <1>1, <1>7 DEF IdentityFailures, Kept
<1> QED
  BY <1>3, <1>4, <1>5, <1>6, <1>7 DEF IdentityFailures

(* An entry nobody touched is stored as the source has it and compared     *)
(* with a file that shows the same, or with its stored bytes.              *)
LEMMA UntouchedPasses ==
  ASSUME RInv, pc = "finish", opts.rebuild, SourceGenuine, source # Absent,
         NEW e \in Entries \ touched, ~Shadowed(e), Kind(e) # "text",
         NEW fault, fault.what \in MayChange \cup {"nothing"}
  PROVE  EntryPasses(e, fault, "readable")
<1>1. ManifestDescribesTree /\ manifest # Absent
  BY DEF RInv, IInv, PackInv, Packing
<1>2. /\ Extracted(e) => file[e] = Base(e)
      /\ Kind(e) \in Retaining => raw[e] = Base(e)
  BY <1>1 DEF ManifestDescribesTree
<1>3. Intended(e) = Base(e)
  BY <1>2 DEF Intended
<1>4. Written(fault)[e] = Base(e) /\ source[e] = Base(e)
  BY <1>3, FinishFacts DEF Written, Hits, MayChange, SourceGenuine
<1>5. RetainedExact(e, fault, "readable") <=> plan[e].reused
  BY <1>4, FinishFacts DEF RetainedExact, SourceRead, StoredRead, Hits, MayChange
<1>6. Base(e) \in Versions /\ Base(e) # Absent /\ Kind(e) \in Kinds
  BY FinishFacts
<1>7. Kind(e) # "none" => Extracted(e)
  BY DEF Extracted
<1>8. ~plan[e].reused => Readable(e) /\ Kind(e) # "none"
  BY FinishFacts DEF RInv, PlanInv, Planned, Settled, Packable, Encodable, Readable,
                     StoragePlaintext, Extracted
<1>9. Readable(e) => Reopened(e, fault) = Base(e)
  BY <1>4 DEF Reopened, StoredRead, Hits, MayChange
<1>10. ~Readable(e) => Reopened(e, fault) = Absent
  BY DEF Reopened
<1>11. ~Modified(e)
  <2>1. Transformed(e) => Extracted(e)
    BY DEF Transformed, Extracted, Transforms, Replacing, Retaining
  <2> QED
    BY <1>2, <2>1 DEF Modified
<1>12. ContentPasses(e, fault, "readable")
  <2>1. CASE ~Readable(e)
    BY <1>5, <1>8, <1>10, <2>1 DEF ContentPasses, Opaque
  <2>2. CASE Kind(e) = "none"
    <3>1. plan[e].reused /\ ~Extracted(e)
      BY <1>8, <2>2 DEF Extracted
    <3>2. Reference(e) = Absent
      BY <2>2, <3>1, TreeCopyByKind DEF Reference
    <3>3. Expected(e, fault, "readable") = Absent
      BY <3>1, <3>2 DEF Expected
    <3> QED
      BY <1>5, <3>1, <3>3 DEF ContentPasses, Opaque
  <2>3. CASE Readable(e) /\ Kind(e) # "none"
    <3>1. ASSUME plan[e].reused \/ ~Transformed(e)
          PROVE  Reference(e) = Base(e) \/ (plan[e].reused /\ Reference(e) = Absent)
      <4>1. Reference(e) = TreeCopy(e)
        BY <3>1 DEF Reference
      <4>2. CASE Kind(e) \in {"raw", "tjs"}
        BY <1>2, <1>7, <2>3, <4>1, <4>2, TreeCopyByKind
      <4>3. CASE Kind(e) \in Retaining
        BY <1>2, <4>1, <4>3, TreeCopyByKind
      <4>4. CASE Kind(e) = "tlg"
        <5>1. plan[e].reused
          BY <3>1, <4>4 DEF Transformed, Transforms, Replacing
        <5>2. TreeCopy(e) \in {Absent, Base(e)}
          BY <4>4, TreeCopyByKind, FinishFacts
        <5> QED
          BY <4>1, <5>1, <5>2
      <4> QED
        BY <1>6, <2>3, <4>2, <4>3, <4>4 DEF Kinds, Transforms, Replacing
    <3>2. ASSUME Reference(e) = Base(e) \/ (plan[e].reused /\ Reference(e) = Absent)
          PROVE  ContentPasses(e, fault, "readable")
      <4>1. Expected(e, fault, "readable") = Base(e)
        BY <1>5, <1>7, <1>9, <2>3, <3>2 DEF Expected
      <4>2. FormatPasses(e, Base(e), Base(e))
        BY <1>6 DEF FormatPasses
      <4> QED
        BY <1>6, <1>9, <1>11, <2>3, <4>1, <4>2 DEF ContentPasses
    <3>3. CASE ~plan[e].reused /\ Transformed(e)
      <4>1. Reference(e) = Base(e)
        BY <1>2, <1>7, <2>3, <3>3, FinishFacts DEF Reference
      <4> QED
        BY <3>2, <4>1
    <3> QED
      BY <3>1, <3>2, <3>3
  <2> QED
    BY <2>1, <2>2, <2>3
<1> QED
  BY <1>12, HarmlessPasses DEF EntryPasses

(* Verification gives no false alarm: the archive of a tree nobody touched *)
(* passes, whatever was extracted, removed or could not be inverted.       *)
THEOREM UntouchedVerifyCorrect == RSpec => []UntouchedVerifiesButText
<1>1. RInit => UntouchedVerifiesButText
  BY DEF RInit, UntouchedVerifiesButText, Clean
<1>2. RInv /\ UntouchedVerifiesButText /\ [RNext]_rvars => UntouchedVerifiesButText'
  <2> SUFFICES ASSUME RInv, UntouchedVerifiesButText, [RNext]_rvars
               PROVE  UntouchedVerifiesButText'
    OBVIOUS
  <2>1. CASE VerifyFinish
    <3>1. PICK fault \in Faults, access \in Access :
            report' = [passed |-> \A e \in Entries : EntryPasses(e, fault, access),
                       fault  |-> fault,
                       access |-> access]
      BY <2>1 DEF VerifyFinish
    <3>2. SUFFICES ASSUME Clean', \A e \in Entries : Kind(e)' # "text"
                   PROVE  \A e \in Entries : EntryPasses(e, fault, access)
      BY <3>1 DEF UntouchedVerifiesButText
    <3>3. /\ pc = "finish" /\ opts.rebuild
          /\ UNCHANGED <<source, manifest, file, raw, overlay, touched>>
      BY <2>1 DEF VerifyFinish, tree
    <3>4. /\ access = "readable" /\ fault.what \in MayChange \cup {"nothing"}
          /\ source # Absent /\ SourceGenuine /\ touched = {}
      BY <3>1, <3>2, <3>3 DEF Clean, SourceGenuine, Base
    <3>5. \A e \in Entries : ~Shadowed(e) /\ Kind(e) # "text"
      BY <3>2, <3>3 DEF Clean, Shadowed, Transformed, Kind
    <3> QED
      BY <3>3, <3>4, <3>5, UntouchedPasses
  <2>2. CASE Next /\ report' = Absent
    BY <2>2 DEF UntouchedVerifiesButText, Clean
  <2>3. CASE UNCHANGED rvars
    BY <2>3 DEF rvars, vars, tree, UntouchedVerifiesButText, Clean, SourceGenuine,
                Shadowed, Transformed, Kind, Base
  <2> QED
    BY <2>1, <2>2, <2>3 DEF RNext
<1> QED
  BY VerifyInductive, <1>1, <1>2, PTL DEF RSpec

(* What holds of every pack holds of those that end in a verification.     *)
THEOREM VerifiedPackCorrect ==
  RSpec => [](PackedAsEdited /\ ManifestDescribesTree /\ OverlayCurrent)
<1>1. RInv => PackedAsEdited /\ ManifestDescribesTree /\ OverlayCurrent
  BY DEF RInv, IInv
<1> QED
  BY VerifyInductive, <1>1, PTL
=============================================================================
