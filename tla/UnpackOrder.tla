---------------------------- MODULE UnpackOrder ----------------------------
(***************************************************************************)
(* What `unpack` promises about the tree it writes, whatever is solved in  *)
(* parallel: entries appear one after the other in the order of the        *)
(* archive, an entry changes no file but its own, and the manifest comes   *)
(* last, after all of them or none.                                        *)
(***************************************************************************)
EXTENDS Naturals

CONSTANTS
  N,          \* entries of the archive
  Blank       \* record of an entry not reached yet

VARIABLES
  own,      \* paths an entry may write or remove
  at,       \* next entry
  disk,     \* files by path
  meta,     \* recovery records of the entries, in memory
  manifest, \* xp3-meta.yaml exists
  ended

vars == <<own, at, disk, meta, manifest, ended>>

Fresh == at = 1 /\ \A e \in DOMAIN meta : meta[e] = Blank

Init ==
  /\ at = 1
  /\ meta = [e \in 1 .. N |-> Blank]
  /\ \A p, q \in DOMAIN disk : disk[p] = disk[q]
  /\ ~manifest
  /\ ~ended

Touches(S) == DOMAIN disk' = DOMAIN disk /\ \A p \in DOMAIN disk \ S : disk'[p] = disk[p]

(* The next entry gets its record and its files. *)
Take ==
  /\ ~ended /\ at <= N
  /\ at' = at + 1
  /\ meta'[at] # Blank
  /\ meta' = [meta EXCEPT ![at] = meta'[at]]
  /\ Touches(own[at])
  /\ UNCHANGED <<own, manifest, ended>>

(* All entries are there, or (HXV4 names missing) none is attempted. *)
Finish ==
  /\ ~ended
  /\ at = N + 1 \/ Fresh
  /\ manifest' /\ ended'
  /\ UNCHANGED <<own, at, disk, meta>>

(* The next entry's files may have been begun. *)
Fail ==
  /\ ~ended /\ ended'
  /\ Touches(IF at <= N THEN own[at] ELSE {})
  /\ UNCHANGED <<own, at, meta, manifest>>

Next == Take \/ Finish \/ Fail

Spec == Init /\ [][Next]_vars
=============================================================================
