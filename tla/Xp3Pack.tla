------------------------------ MODULE Xp3Pack ------------------------------
(***************************************************************************)
(* The edit cycle of an XP3 archive: `unpack` writes one editable file per *)
(* recovered entry and, last, the manifest xp3-meta.yaml; the user edits   *)
(* the tree; `pack` rebuilds edited sidecars into the overlay directory    *)
(* .xp3-rebuilt, decides for every entry whether the original stored bytes *)
(* are reused or the edited plaintext is re-encoded, and writes the        *)
(* archive in place.  A crash may end `unpack` or `pack` between any two   *)
(* of their steps; the file system survives, the job's memory does not.    *)
(*                                                                         *)
(* The content of an entry is a Version.  Files of the tree, overlay files *)
(* and archive entries hold versions or are Absent; StoredLen is all the   *)
(* XP3 index records about a version (sizes, and through them offsets).    *)
(* The user runs one command at a time and does not edit while it runs.    *)
(***************************************************************************)
EXTENDS Naturals

CONSTANTS
  Entries,      \* the File entries of the archive, one output path each
  Versions,     \* the contents an entry can have
  Absent,       \* no such file (also: no archive, no manifest)
  Torn,         \* an archive whose writing was interrupted
  StoredLen,    \* stored length of a version: what the index shows of it
  Outcomes,     \* what unpack may record of an entry (see OutcomeType)
  Reproducible, \* transform kinds whose encoder returns the source bytes
  Embedded      \* the archive sits behind an executable prefix

(* recovery.status.  "-crib" and "-brute" are both written as              *)
(* per-file-repeating-xor; only a brute-forced key is persisted.           *)
Reversible == {"plain", "global-repeating-xor", "per-file-repeating-xor-brute",
               "x86-emulated-filter", "hxv4-native"}
Irreversible == {"per-file-repeating-xor-crib", "native-cxdec",
                 "hxv4-effective-fallback"}
NotExtracted == {"pending", "unresolved", "reconstruct-failed",
                 "hxv4-native-mismatch", "ignored-protected-dummy"}

(* What stands in the tree for an entry: nothing; its plaintext; TJS       *)
(* source rendered over the bytecode; or sidecars of one transform family. *)
Replacing == {"text", "tlg"}        \* the sidecar replaces the source file
Retaining == {"pbd", "psb", "amv"}  \* the raw source stays beside the sidecar
Transforms == Replacing \cup Retaining
SkippedIfUnchanged == {"text", "tlg", "pbd"}  \* psb and amv always rebuild
Kinds == {"none", "raw", "tjs"} \cup Transforms

OutcomeType == [status : Reversible \cup Irreversible \cup NotExtracted,
                kind : Kinds,
                digests : BOOLEAN,   \* the manifest records sidecar SHA-256s
                standard : BOOLEAN]  \* segm sizes add up to info.original

ASSUME OutcomesAssumption ==
  /\ Outcomes \subseteq OutcomeType
  /\ \A o \in Outcomes : o.kind = "none" <=> o.status \in NotExtracted

ASSUME ValuesAssumption ==
  /\ Absent \notin Versions
  /\ Torn # Absent
  /\ Absent \notin [Entries -> Versions] /\ Torn \notin [Entries -> Versions]
  /\ StoredLen \in [Versions -> Nat]
  /\ Reproducible \subseteq Transforms
  /\ Embedded \in BOOLEAN

VARIABLES
  source,    \* the archive at manifest.archive.source_path
  manifest,  \* xp3-meta.yaml: outcome and recovered plaintext digest per entry
  file,      \* the editable file of each entry (raw file or sidecar)
  raw,       \* the raw source asset beside the sidecar, where there is one
  overlay,   \* .xp3-rebuilt, by entry storage path
  output,    \* the archive pack writes
  pc,        \* where the running command is
  todo,      \* entries the running loop has still to visit
  memory,    \* the manifest under construction (unpack)
  opts,      \* --no-rebuild-assets / --compact-layout (pack)
  plan,      \* the packed entries (pack)
  touched    \* history: entries whose files the user changed since unpack

vars == <<source, manifest, file, raw, overlay, output, pc, todo, memory,
          opts, plan, touched>>
tree == <<file, raw>>
job == <<pc, todo, memory, opts, plan>>

File == Versions \cup {Absent}
Archive == [Entries -> Versions]
EntryMeta == [outcome : Outcomes, base : Versions]
Packed == [version : Versions, reused : BOOLEAN]
Options == [rebuild : BOOLEAN, strict : BOOLEAN]

Idle == /\ pc' = "idle"
        /\ todo' = {}
        /\ memory' = Absent
        /\ opts' = Absent
        /\ plan' = Absent

Kind(e) == manifest[e].outcome.kind
Base(e) == manifest[e].base
Extracted(e) == Kind(e) # "none"
Transformed(e) == Kind(e) \in Transforms

Init ==
  /\ source \in Archive
  /\ manifest = Absent
  /\ file = [e \in Entries |-> Absent]
  /\ raw = [e \in Entries |-> Absent]
  /\ overlay = [e \in Entries |-> Absent]
  /\ output = Absent
  /\ pc = "idle" /\ todo = {} /\ memory = Absent /\ opts = Absent
  /\ plan = Absent
  /\ touched = {}

----------------------------------------------------------------------------
(* unpack *)

(* Bug: the old manifest stays until the new one replaces it. *)
UnpackStartKeepsManifest ==
  /\ pc = "idle" /\ source # Absent
  /\ pc' = "unpack" /\ todo' = Entries
  /\ memory' = [e \in Entries |-> Absent]
  /\ touched' = {}
  /\ UNCHANGED <<source, manifest, tree, overlay, output, opts, plan>>

(* The old manifest goes before the first file is written; the overlay of  *)
(* an earlier pack is not among the artifacts that are cleaned up.         *)
UnpackStart ==
  /\ pc = "idle" /\ source # Absent
  /\ manifest' = Absent
  /\ pc' = "unpack" /\ todo' = Entries
  /\ memory' = [e \in Entries |-> Absent]
  /\ touched' = {}
  /\ UNCHANGED <<source, tree, overlay, output, opts, plan>>

(* One entry of the batch loop.  An unresolved entry writes nothing; a     *)
(* converted TLG removes the raw file that an earlier unpack left behind.  *)
UnpackEntry(e) ==
  /\ pc = "unpack" /\ e \in todo
  /\ todo' = todo \ {e}
  /\ \E o \in Outcomes :
       /\ memory' = [memory EXCEPT ![e] = [outcome |-> o, base |-> source[e]]]
       /\ file' = [file EXCEPT ![e] = IF o.kind = "none" THEN @ ELSE source[e]]
       /\ raw' = [raw EXCEPT ![e] = IF o.kind \in Retaining THEN source[e]
                                    ELSE IF o.kind = "tlg" THEN Absent ELSE @]
  /\ UNCHANGED <<source, manifest, overlay, output, pc, opts, plan, touched>>

(* write_manifest: a temporary file renamed into place. *)
UnpackFinish ==
  /\ pc = "unpack" /\ todo = {}
  /\ manifest' = memory
  /\ Idle
  /\ UNCHANGED <<source, tree, overlay, output, touched>>

----------------------------------------------------------------------------
(* pack *)

(* Bug: the recorded digest is taken for the file's. *)
SidecarsRecorded(e) == Transformed(e) /\ manifest[e].outcome.digests

(* entry_sidecars_unchanged = Some(true) *)
SidecarsUnchanged(e) ==
  /\ Transformed(e)
  /\ manifest[e].outcome.digests
  /\ file[e] = Base(e)

(* rebuild_assets_from_manifest, changed_only: an unchanged sidecar of     *)
(* these families is left to source reuse.                                 *)
SkipsRebuild(e) ==
  /\ source # Absent
  /\ Kind(e) \in SkippedIfUnchanged
  /\ SidecarsUnchanged(e)

(* read_entry_storage_plaintext: the overlay first, whatever the entry's   *)
(* kind; an entry with transforms never falls back to the tree.            *)
StoragePlaintext(e) ==
  IF ~Extracted(e) THEN Absent
  ELSE IF overlay[e] # Absent \/ Transformed(e) THEN overlay[e] ELSE file[e]

(* The plaintext has the SHA-256 unpack recorded.  Rendered TJS source and *)
(* the output of an encoder that is not Reproducible have another.         *)
PlaintextUnchanged(e) ==
  /\ StoragePlaintext(e) = Base(e)
  /\ Kind(e) \in {"raw"} \cup Reproducible

(* encode_entry_from_plaintext succeeds: standard sizing and an inverse of *)
(* the content filter in the manifest.                                     *)
Encodable(e) ==
  /\ manifest[e].outcome.standard
  /\ manifest[e].outcome.status \in Reversible

(* validate_source_template: index blocks, sizes and entry identities.     *)
SameIndex == \A e \in Entries : StoredLen[source[e]] = StoredLen[Base(e)]

(* validate_retained_source_assets *)
RetainedIntact ==
  \A e \in Entries :
    Kind(e) \in Retaining \cup {"tlg"} => raw[e] \in {Absent, Base(e)}

(* Every check before the first write to disk. *)
PackAccepts(o) ==
  /\ manifest # Absent
  /\ IF source = Absent THEN ~o.strict /\ ~Embedded ELSE SameIndex
  /\ RetainedIntact

(* Bug: only an edit is a reason to rebuild. *)
RebuildsEditsOnly(o) == o.rebuild /\ \E e \in Entries : Transformed(e) /\ file[e] # Base(e)

(* Some sidecar cannot be left to source reuse. *)
NeedsRebuild(o) ==
  /\ o.rebuild
  /\ \E e \in Entries :
       Transformed(e) /\ ~(source # Absent /\ SidecarsUnchanged(e))

(* Clears the overlay when anything has to be rebuilt; otherwise an overlay *)
(* of an earlier pack stays where it is.                                   *)
PackStart(o) ==
  /\ pc = "idle" /\ PackAccepts(o)
  /\ opts' = o
  /\ IF NeedsRebuild(o)
     THEN /\ overlay' = [e \in Entries |-> Absent]
          /\ pc' = "rebuild"
          /\ todo' = {e \in Entries : Transformed(e)}
     ELSE /\ pc' = "plan"
          /\ UNCHANGED <<overlay, todo>>
  /\ UNCHANGED <<source, manifest, tree, output, memory, plan, touched>>

(* A psb or amv is rebuilt from its sidecars and its retained source.      *)
RebuildAsset(e) ==
  /\ pc = "rebuild" /\ e \in todo
  /\ \/ SkipsRebuild(e)
     \/ file[e] # Absent /\ (Kind(e) \in {"psb", "amv"} => raw[e] = Base(e))
  /\ todo' = todo \ {e}
  /\ overlay' = [overlay EXCEPT ![e] = IF SkipsRebuild(e) THEN @ ELSE file[e]]
  /\ UNCHANGED <<source, manifest, tree, output, pc, memory, opts, plan, touched>>

RebuildFinish ==
  /\ pc = "rebuild" /\ todo = {}
  /\ pc' = "plan"
  /\ UNCHANGED <<source, manifest, tree, overlay, output, todo, memory, opts,
                 plan, touched>>

(* Bug: an unchanged plaintext is encoded again. *)
ReusesSidecars(e) ==
  /\ source # Absent
  /\ SidecarsUnchanged(e) \/ (StoragePlaintext(e) = Absent /\ ~Transformed(e))

(* pack_xp3_from_manifest takes the stored bytes of the source. *)
Reuses(e) ==
  /\ source # Absent
  /\ \/ SidecarsUnchanged(e)
     \/ PlaintextUnchanged(e)
     \/ StoragePlaintext(e) = Absent /\ ~Transformed(e)

Packable(e) ==
  Reuses(e) \/ (StoragePlaintext(e) # Absent /\ Encodable(e))

PackEntry(e) ==
  [version |-> IF Reuses(e) THEN source[e] ELSE StoragePlaintext(e),
   reused |-> Reuses(e)]

(* The entry loop: one entry that cannot be packed fails the command       *)
(* before the output is touched.                                           *)
PackPlan ==
  /\ pc = "plan" /\ \A e \in Entries : Packable(e)
  /\ plan' = [e \in Entries |-> PackEntry(e)]
  /\ pc' = "write"
  /\ UNCHANGED <<source, manifest, tree, overlay, output, todo, memory, opts,
                 touched>>

(* write_container copies or truncates the output, then fills it. *)
PackWrite ==
  /\ pc = "write"
  /\ output' = Torn
  /\ pc' = "finish"
  /\ UNCHANGED <<source, manifest, tree, overlay, todo, memory, opts, plan,
                 touched>>

PackFinish ==
  /\ pc = "finish"
  /\ output' = [e \in Entries |-> plan[e].version]
  /\ Idle
  /\ UNCHANGED <<source, manifest, tree, overlay, touched>>

(* An error return of unpack or pack, a codec error during the rebuild, a  *)
(* kill or a power failure: whatever was written stays.                    *)
Abort ==
  /\ pc # "idle"
  /\ Idle
  /\ UNCHANGED <<source, manifest, tree, overlay, output, touched>>

----------------------------------------------------------------------------
(* the user *)

EditFile(e) ==
  /\ pc = "idle" /\ manifest # Absent /\ Extracted(e)
  /\ \E v \in File : file' = [file EXCEPT ![e] = v]
  /\ touched' = touched \cup {e}
  /\ UNCHANGED <<source, manifest, raw, overlay, output, job>>

EditRaw(e) ==
  /\ pc = "idle" /\ manifest # Absent
  /\ Kind(e) \in Retaining \cup {"tlg"}
  /\ \E v \in File : raw' = [raw EXCEPT ![e] = v]
  /\ touched' = touched \cup {e}
  /\ UNCHANGED <<source, manifest, file, overlay, output, job>>

(* The rebuilt archive takes the place of the game's archive. *)
InstallOutput ==
  /\ pc = "idle" /\ output \notin {Absent, Torn}
  /\ source' = output
  /\ UNCHANGED <<manifest, tree, overlay, output, job, touched>>

LoseSource ==
  /\ pc = "idle"
  /\ source' = Absent
  /\ UNCHANGED <<manifest, tree, overlay, output, job, touched>>

Next ==
  \/ UnpackStart
  \/ \E e \in Entries : UnpackEntry(e)
  \/ UnpackFinish
  \/ \E o \in Options : PackStart(o)
  \/ \E e \in Entries : RebuildAsset(e)
  \/ RebuildFinish
  \/ PackPlan
  \/ PackWrite
  \/ PackFinish
  \/ Abort
  \/ \E e \in Entries : EditFile(e)
  \/ \E e \in Entries : EditRaw(e)
  \/ InstallOutput
  \/ LoseSource

Spec == Init /\ [][Next]_vars

----------------------------------------------------------------------------
(* What the cycle has to guarantee *)

TypeOK ==
  /\ source \in Archive \cup {Absent}
  /\ manifest \in [Entries -> EntryMeta] \cup {Absent}
  /\ file \in [Entries -> File]
  /\ raw \in [Entries -> File]
  /\ overlay \in [Entries -> File]
  /\ output \in Archive \cup {Absent, Torn}
  /\ pc \in {"idle", "unpack", "rebuild", "plan", "write", "finish"}
  /\ todo \subseteq Entries
  /\ memory \in [Entries -> EntryMeta \cup {Absent}] \cup {Absent}
  /\ opts \in Options \cup {Absent}
  /\ plan \in [Entries -> Packed] \cup {Absent}
  /\ touched \subseteq Entries

Planned == pc \in {"write", "finish"}

(* What the user sees of an entry; a deleted file stands for no edit. *)
Intended(e) ==
  IF Extracted(e) /\ file[e] # Absent THEN file[e] ELSE Base(e)

(* The archive pack found still holds what unpack read from it. *)
SourceGenuine == source # Absent => \A e \in Entries : source[e] = Base(e)

(* An overlay file of an earlier pack lies at the path of an entry that    *)
(* now has no transform.                                                   *)
Shadowed(e) == ~Transformed(e) /\ overlay[e] # Absent

(* Whatever was interrupted, re-unpacked or packed before, the archive     *)
(* about to be written holds, for every entry, exactly what the user sees  *)
(* in the tree: an edit is never dropped for the old stored bytes, nor a   *)
(* reverted edit kept.  (encoder/xp3.rs, "refusing to ... silently discard *)
(* edits"; ADR-0009, source of truth hierarchy.)                           *)
PackedAsEdited ==
  Planned /\ opts.rebuild /\ SourceGenuine =>
    \A e \in Entries : ~Shadowed(e) => plan[e].version = Intended(e)

(* With the source at hand, an entry whose files nobody touched keeps its  *)
(* exact stored bytes, whichever other entries were edited and whatever    *)
(* overlay earlier packs left (ADR-0002, no-edit round trip).  Rendered    *)
(* TJS is an edit by design, and old manifests have no digests to compare. *)
UntouchedIsReused ==
  Planned /\ opts.rebuild /\ source # Absent =>
    \A e \in Entries \ touched :
      \/ plan[e].reused
      \/ Shadowed(e) \/ Kind(e) = "tjs" \/ ~manifest[e].outcome.digests

(* A manifest on disk describes the files beside it: an unpack that was    *)
(* interrupted over an older tree leaves none.                             *)
ManifestDescribesTree ==
  manifest # Absent =>
    \A e \in Entries \ touched :
      /\ Extracted(e) => file[e] = Base(e)
      /\ Kind(e) \in Retaining => raw[e] = Base(e)

(* The rebuilt asset pack is about to read is the current one: an overlay  *)
(* file is never of an earlier generation of sidecars.                     *)
RebuiltIsCurrent(e) ==
  \/ source # Absent /\ SidecarsUnchanged(e)
  \/ file[e] # Absent /\ overlay[e] = file[e]

OverlayCurrent ==
  pc \in {"rebuild", "plan"} /\ opts.rebuild =>
    \A e \in Entries \ todo : Transformed(e) => RebuiltIsCurrent(e)
=============================================================================
