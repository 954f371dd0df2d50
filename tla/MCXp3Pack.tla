----------------------------- MODULE MCXp3Pack -----------------------------
(* Two entries and two contents: the original and an edit of it.  Whether  *)
(* the edit keeps the stored length is the cfg's choice: a longer one shows *)
(* in the index of a rebuilt archive, an equally long one does not.        *)
EXTENDS RoundTrip, TLC

CONSTANTS
  orig, edit, \* the contents
  EditLen     \* stored length of the edit; the original's is 1

MCVersions == {orig, edit}
MCStoredLen == [v \in MCVersions |-> IF v = orig THEN 1 ELSE EditLen]

Outcome(s, k) == [status |-> s, kind |-> k, digests |-> TRUE, standard |-> TRUE]

(* One outcome of each class the packer tells apart. *)
MCOutcomes ==
  {Outcome("plain", "raw"), Outcome("native-cxdec", "tjs"),
   Outcome("native-cxdec", "raw"), Outcome("hxv4-native", "tlg"), Outcome("unresolved", "none"),
   [Outcome("plain", "psb") EXCEPT !.digests = FALSE]}
MCReproducible == {"text", "pbd"}

Symmetry == Permutations(Entries)

(* An archive as planned, or with one fault: an entry with other content or *)
(* that cannot be read, a lost part of an index record, other sizes,        *)
(* another Special blob.                                                    *)
MCFaults ==
  {[what |-> "stored", entry |-> e, version |-> v] : e \in Entries, v \in MCVersions}
  \cup {[what |-> w, entry |-> e, version |-> Absent] :
          w \in {"nothing", "time", "sizes", "special", "unreadable"}, e \in Entries}

(* Text entries, whose verification is a run of its own. *)
MCTextOutcomes == {Outcome("plain", "text"), Outcome("plain", "raw")}

(* The archive unpacked first is the original one. *)
MCInit == RInit /\ source = [e \in Entries |-> orig]
MCSpec == MCInit /\ [][RNext]_rvars
=============================================================================
