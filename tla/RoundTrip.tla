---- MODULE RoundTrip ----
(* verify-roundtrip (roundtrip.rs): the tree is packed with rebuilt assets,  *)
(* the new archive is opened and every entry is compared with what it should *)
(* be: its index record with the manifest, its content with the rebuilt      *)
(* asset, the file in the tree, or the stored bytes of the source. The       *)
(* report says whether all checks passed.                                    *)
(*                                                                           *)
(* The command is a pack whose last step also reads the archive back. It has *)
(* an output and a rebuilt directory of its own; both commands share them    *)
(* here, as with --rebuilt-dir. What may have gone wrong with the written    *)
(* file is a Fault: verification is there to find it.                        *)
EXTENDS Xp3Pack

CONSTANT
  Faults    \* [what, entry, version] of what is wrong with a written archive

(* What the index says of an entry, by the part of its File record; "stored" *)
(* is its content and "special" the Special blob of the archive. The content *)
(* of an "unreadable" entry can not be read.                                 *)
MayChange == {"sizes", "offsets"}
Kept == {"flags", "name", "segment-flags", "adlr", "time", "vendor", "special"}

ASSUME FaultsAssumption ==
  \A f \in Faults :
    /\ f.what \in Kept \cup MayChange \cup {"stored", "unreadable", "nothing"}
    /\ f.entry \in Entries
    /\ f.what = "stored" => f.version \in Versions

VARIABLE report   \* the last report, while nothing has changed since

rvars == <<vars, report>>

RInit == Init /\ report = Absent

Hits(fault, e, what) == fault.entry = e /\ fault.what = what

Written(fault) ==
  [e \in Entries |-> IF Hits(fault, e, "stored") THEN fault.version ELSE plan[e].version]

(* The checks of the index record. The hash over the record with its sizes   *)
(* and offsets zeroed sees every other part; names, adlr and segment flags   *)
(* are compared by themselves too.                                           *)
IdentityFailures(e, fault) ==
  {c \in {"physical name", "XP3 hash identity", "timestamp/metadata", "Special bytes/hash",
          "segment structure"} :
     CASE c = "physical name"      -> Hits(fault, e, "name")
       [] c = "XP3 hash identity"  -> Hits(fault, e, "adlr")
       [] c = "timestamp/metadata" -> \E w \in Kept \ {"special"} : Hits(fault, e, w)
       [] c = "Special bytes/hash" -> fault.what = "special"
       [] c = "segment structure"  -> Hits(fault, e, "segment-flags")}

(* sidecars_modified: no transforms or no digests tell nothing.              *)
Modified(e) == Transformed(e) /\ manifest[e].outcome.digests /\ file[e] # Base(e)

(* The file at the entry's storage path in the tree. A text sidecar stands   *)
(* there decoded, in place of the wrapped text it was.                       *)
Decoded(v) == <<"decoded", v>>

(* No wrapped text is the decoded form of another. *)
ASSUME DecodedAssumption ==
  \A v \in Versions : Decoded(v) # Absent /\ Decoded(v) \notin Versions

TreeCopy(e) ==
  CASE Kind(e) = "none"         -> Absent
    [] Kind(e) \in {"raw", "tjs"} -> file[e]
    [] Kind(e) = "text"         -> IF file[e] = Absent THEN Absent ELSE Decoded(file[e])
    [] Kind(e) \in Retaining \cup {"tlg"} -> raw[e]

Reference(e) == IF ~plan[e].reused /\ Transformed(e) THEN overlay[e] ELSE TreeCopy(e)

(* The new archive can only be read back through the filter of the manifest. *)
Readable(e) == manifest[e].outcome.status \in Reversible

(* stored_entry_bytes(..).ok() of the new archive, and of the source.        *)
StoredRead(e, fault) == IF Hits(fault, e, "unreadable") THEN Absent ELSE Written(fault)[e]

Reopened(e, fault) == IF Readable(e) THEN StoredRead(e, fault) ELSE Absent

(* The archive the verifier takes for the source, if there is one: it looks  *)
(* by name only, while pack also looks beside the tree. Reading from it may  *)
(* fail although pack has just read it.                                      *)
Access == {"unnamed", "readable", "unreadable"}
SourceRead(e, access) == IF access = "unreadable" THEN Absent ELSE source[e]

(* Mutant: a reused entry is taken to be stored as it was. *)
RetainedExactAssumed(e, fault, access) == plan[e].reused /\ access # "unnamed"

(* The stored bytes equal the source's. Two reads that fail are equal too.   *)
RetainedExact(e, fault, access) ==
  /\ plan[e].reused /\ access # "unnamed" /\ source # Absent
  /\ SourceRead(e, access) = StoredRead(e, fault)

(* An entry with no file to compare with is compared with the digest of the  *)
(* manifest, or passes because its stored bytes are the source's.            *)
Expected(e, fault, access) ==
  IF /\ RetainedExact(e, fault, access) /\ Reference(e) = Absent
     /\ Extracted(e) /\ Reopened(e, fault) = Base(e)
  THEN Base(e) ELSE Reference(e)

(* Mutant: only an entry with a digest can be proved by its stored bytes. *)
OpaqueExtracted(e, fault, access) ==
  /\ RetainedExact(e, fault, access) /\ Extracted(e)
  /\ Absent \in {Expected(e, fault, access), Reopened(e, fault)}

Opaque(e, fault, access) ==
  /\ RetainedExact(e, fault, access)
  /\ Absent \in {Expected(e, fault, access), Reopened(e, fault)}

(* The format checks decode both contents and compare pixels, values, frames *)
(* or text. Versions differ in these; a decoded text is no wrapped one.      *)
FormatPasses(e, expected, actual) ==
  /\ Transformed(e) => {expected, actual} \subseteq Versions
  /\ expected = actual

(* source hash, encryption and format; an edited sidecar must have been      *)
(* encoded.                                                                  *)
ContentPasses(e, fault, access) ==
  \/ Opaque(e, fault, access)
  \/ /\ Absent \notin {Expected(e, fault, access), Reopened(e, fault)}
     /\ Expected(e, fault, access) = Reopened(e, fault)
     /\ FormatPasses(e, Expected(e, fault, access), Reopened(e, fault))
     /\ ~(Modified(e) /\ plan[e].reused)

EntryPasses(e, fault, access) ==
  IdentityFailures(e, fault) = {} /\ ContentPasses(e, fault, access)

(* The archive is written, opened again and compared. *)
VerifyFinish ==
  /\ pc = "finish" /\ opts.rebuild
  /\ \E fault \in Faults, access \in Access :
       /\ output' = Written(fault)
       /\ report' = [passed |-> \A e \in Entries : EntryPasses(e, fault, access),
                     fault  |-> fault,
                     access |-> access]
  /\ Idle
  /\ UNCHANGED <<source, manifest, tree, overlay, touched>>

RNext == (Next /\ report' = Absent) \/ VerifyFinish

RSpec == RInit /\ [][RNext]_rvars

----------------------------------------------------------------------------

(* Neither archive could be read for e: nothing was compared. *)
Uncompared(e) == report.access = "unreadable" /\ Hits(report.fault, e, "unreadable")

(* A report that passes can be trusted: every entry of the archive holds     *)
(* what the user sees in the tree, also where an overlay of an earlier pack  *)
(* shadows an edit or the written file is damaged, no part of an index       *)
(* record that must be kept has changed (roundtrip.rs: immutable_file_body;  *)
(* ADR-0002, Validation), and every entry can be read. The archive taken for *)
(* the source is the one unpacked. Two exceptions, both of entries whose     *)
(* stored bytes were reused and count as proof: a shadowed edit of an entry  *)
(* that cannot be read back is dropped unseen; and an entry that neither     *)
(* archive gives passes, because two failed reads are equal.                 *)
VerifiedIsIntended ==
  report # Absent /\ report.passed /\ SourceGenuine =>
    /\ \A e \in Entries :
         (Readable(e) /\ ~Uncompared(e)) \/ ~Shadowed(e) => output[e] = Intended(e)
    /\ \/ report.fault.what \in MayChange \cup {"nothing", "stored"}
       \/ Uncompared(report.fault.entry)

Clean ==
  /\ report # Absent /\ report.access = "readable" /\ source # Absent /\ SourceGenuine
  /\ report.fault.what \in MayChange \cup {"nothing"}
  /\ touched = {}
  /\ \A e \in Entries : ~Shadowed(e)

(* No false alarm: the archive of a tree nobody touched passes, with entries *)
(* that were never extracted, whose source file was removed, or whose filter *)
(* has no inverse. Text entries are left out, see UntouchedVerifies.         *)
UntouchedVerifiesButText ==
  Clean /\ (\A e \in Entries : Kind(e) # "text") => report.passed

(* docs/adr/0001: "no-edit round-trip checks preserve the invariants in      *)
(* ADR-0002", and ADR-0002 expects "strong no-edit round-trip claims":       *)
(* verifying the archive packed from an untouched tree succeeds.             *)
UntouchedVerifies == Clean => report.passed
====
