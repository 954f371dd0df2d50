---------------------------- MODULE SpecialIndex ----------------------------
(***************************************************************************)
(* Recovery of the ordered names of an archive from its special index      *)
(* (special_index.rs).  A special root is a table of names behind a        *)
(* wrapper and maybe a repeating XOR whose key nobody has.  A hypothesis   *)
(* about both is tried after another; the bytes it gives are believed when *)
(* a parser finds one name for each entry of the archive in them.          *)
(*                                                                         *)
(* A plaintext is [form, chunks, names, len, far, stray].  An "m2" stream  *)
(* is a sequence of chunks [tag, rec], rec being NoRec or a name record    *)
(* [name, hash, chars, warn]; `far` chunks start it beyond the reach of a  *)
(* scan; `stray`: bytes before the table stop its parser.  A root is       *)
(* [special, stored, wrap, cipher, size, modal, plain]: cipher is NoCipher *)
(* or [period, scope, key] (a native cipher has a period of its own that   *)
(* no search reaches), `modal` the periods at which the commonest     *)
(* byte of every residue is an encrypted zero.  An entry is                *)
(* [name, vis, hash, chars, dummy], hash 0 when the archive has no adlr.   *)
(***************************************************************************)
EXTENDS Naturals, Sequences, FiniteSets, SequencesExt

CONSTANTS
  Cases,      \* sets of what the recovery is started on: see MCNameRoute
  MaxUnknown, \* 4096: chunks that are no name records, in a row or not
  Periods     \* structured_period_candidates, for the default limit

ASSUME SpecialAssumption == MaxUnknown \in Nat /\ Periods \in Seq(Nat \ {0})

(* Entries, roots and chunks are lists; "none" is not the tag of a chunk.  *)
IsList(s) == s \in Seq(Range(s))
ASSUME CasesAssumption ==
  \A F \in Cases : \A g \in F :
    /\ IsList(g.entries) /\ IsList(g.roots)
    /\ \A i \in DOMAIN g.roots : LET cs == g.roots[i].plain.chunks
                                 IN  IsList(cs) /\ \A c \in DOMAIN cs : cs[c].tag # "none"

NoRec == [name |-> "none", hash |-> 0, chars |-> 0, warn |-> FALSE]
NoCipher == [period |-> 0, scope |-> "none", key |-> "none"]
NoKey == [key |-> "none", scope |-> "none"]
LegacyMaxPeriod == 5

VARIABLES
  game, \* one of Cases
  root, \* root_index
  stage, \* "direct", "explicit", "zero", "structured", "brute", "over", or "names": not started
  limit, \* the period a key is searched up to; 0: no search
  keyed, \* the user's key is used
  best  \* [names, confidence, len, root] or NoBest

searchVars == <<root, stage, limit, keyed, best>>

NoBest == [names |-> <<>>, confidence |-> 0, len |-> 0, root |-> 0]
Entries == game.entries
Root == game.roots[root]
Least(S) == CHOOSE i \in S : \A j \in S : i <= j

----------------------------------------------------------------------------
(* Parsers of a plaintext *)

(* record_matches_entry: what the ordinary index gives away of a record. *)
Matches(rec, e) == e.hash # 0 /\ rec.hash = e.hash /\ e.chars # 0 /\ rec.chars = e.chars

WalkStart == [names |-> <<>>, tag |-> "none", unknown |-> 0, ok |-> TRUE]
Reject(w) == [w EXCEPT !.ok = FALSE]
SkipChunk(w) == IF w.unknown = MaxUnknown THEN Reject(w) ELSE [w EXCEPT !.unknown = @ + 1]

(* A warning record has an entry of its own only in archives that keep it. *)
TakeWarning(w, c, es) ==
  [w EXCEPT !.tag = c.tag,
            !.names = IF es[Len(w.names) + 1].dummy THEN Append(@, c.rec.name) ELSE @]

(* Bug: a record that does not match is passed over like an unknown chunk. *)
WalkChunkLenient(w, c, es) ==
  IF ~w.ok \/ Len(w.names) = Len(es) THEN w
  ELSE IF c.rec # NoRec /\ w.tag \in {"none", c.tag} /\ c.rec.warn THEN TakeWarning(w, c, es)
  ELSE IF c.rec # NoRec /\ w.tag \in {"none", c.tag} /\ Matches(c.rec, es[Len(w.names) + 1])
       THEN [w EXCEPT !.tag = c.tag, !.names = Append(@, c.rec.name)]
  ELSE SkipChunk(w)

(* Once a record was accepted, each chunk with its tag must be the record  *)
(* of the next entry.                                                      *)
WalkChunk(w, c, es) ==
  IF ~w.ok \/ Len(w.names) = Len(es) THEN w
  ELSE IF c.rec # NoRec /\ w.tag \in {"none", c.tag} /\ c.rec.warn THEN TakeWarning(w, c, es)
  ELSE IF c.rec # NoRec /\ w.tag \in {"none", c.tag} /\ Matches(c.rec, es[Len(w.names) + 1])
       THEN [w EXCEPT !.tag = c.tag, !.names = Append(@, c.rec.name)]
  ELSE IF c.tag = w.tag THEN Reject(w)
  ELSE SkipChunk(w)

(* walk_verified_chunk_stream from chunk s: the names, or <<>> if it is    *)
(* not accepted.                                                           *)
WalkVerified(chunks, s, es) ==
  LET walked[k \in s - 1 .. Len(chunks)] == IF k = s - 1 THEN WalkStart ELSE WalkChunk(walked[k - 1], chunks[k], es)
      w == walked[Len(chunks)]
  IN  IF w.ok /\ w.tag # "none" /\ Len(w.names) = Len(es) THEN w.names ELSE <<>>

FirstNonEmpty(results) ==
  LET hits == {i \in DOMAIN results : results[i] # <<>>}
  IN  IF hits = {} THEN <<>> ELSE results[Least(hits)]

(* The walks begin where a record like the first entry's is, then at each  *)
(* of the first bytes; a walk from inside a chunk finds no framing.        *)
Located(p, es) == {i \in DOMAIN p.chunks : p.chunks[i].rec # NoRec /\ Matches(p.chunks[i].rec, es[1])}

(* scan_m2_chunks_against_entries *)
ScanVerified(p, es) ==
  IF p.form # "m2" \/ es = <<>> THEN <<>>
  ELSE LET located == FirstNonEmpty([i \in Located(p, es) |-> WalkVerified(p.chunks, i, es)])
           first == FirstNonEmpty([i \in DOMAIN p.chunks |-> WalkVerified(p.chunks, i, es)])
       IN  IF located # <<>> THEN located ELSE IF p.far THEN <<>> ELSE first

(* scan_m2_name_chunks_structural: any records of one tag, warnings left out. *)
StructuralChunk(w, c, n) ==
  IF ~w.ok \/ Len(w.names) = n THEN w
  ELSE IF w.tag \in {"none", c.tag} /\ c.rec # NoRec
       THEN [w EXCEPT !.tag = c.tag, !.names = IF c.rec.warn THEN @ ELSE Append(@, c.rec.name)]
  ELSE IF w.tag = c.tag THEN Reject(w)
  ELSE SkipChunk(w)

ScanStructural(p, n) ==
  IF p.form # "m2" \/ p.far THEN <<>>
  ELSE FirstNonEmpty([i \in DOMAIN p.chunks |->
         LET w == FoldLeft(LAMBDA x, c : StructuralChunk(x, c, n), WalkStart, SubSeq(p.chunks, i, Len(p.chunks)))
         IN  IF w.tag # "none" /\ Len(w.names) = n THEN w.names ELSE <<>>])

(* scan_xp3_file_stream: the File chunks to the end of the stream, from    *)
(* the first chunk that leaves as many as there are entries.  Bytes before *)
(* the table that look like a File chunk but are none end the scan.        *)
ScanFiles(p, n) ==
  IF p.form = "file" /\ ~p.stray /\ ~p.far /\ Len(p.names) >= n
  THEN SubSeq(p.names, Len(p.names) - n + 1, Len(p.names)) ELSE <<>>

(* scan_len_prefixed_utf16_exact: the first names; likewise. *)
ScanLengths(p, form, n) ==
  IF p.form = form /\ ~p.stray /\ ~p.far /\ Len(p.names) >= n THEN SubSeq(p.names, 1, n) ELSE <<>>

(* recover_ordered_names_from_decoded_for_archive: the first parser that   *)
(* accepts, with the confidence it stands for.                             *)
Parse(p, es) ==
  LET n == Len(es)
      Reading(names, c) == [names |-> names, confidence |-> c, len |-> p.len, root |-> root]
      readings == <<Reading(ScanVerified(p, es), 100), Reading(ScanFiles(p, n), 99), Reading(ScanStructural(p, n), 96),
                    Reading(ScanLengths(p, "u16", n), 90), Reading(ScanLengths(p, "u32", n), 89)>>
      hits == {i \in DOMAIN readings : readings[i].names # <<>>}
  IN  IF hits = {} THEN NoBest ELSE readings[Least(hits)]

----------------------------------------------------------------------------
(* Hypotheses.  Each gives the set of results it can end with. *)

(* read_limited: a known size must be met; raw bytes have no size check. *)
Unwraps(r) == r.wrap = "raw" \/ r.size # "wrong"
Readings(r) == IF Unwraps(r) THEN {Parse(r.plain, Entries)} \ {NoBest} ELSE {}

Direct(r) == IF r.cipher = NoCipher THEN Readings(r) ELSE {}

Explicit(r) ==
  IF r.cipher # NoCipher /\ game.key = [key |-> r.cipher.key, scope |-> r.cipher.scope] THEN Readings(r) ELSE {}

PeriodsTo(l) == {p \in Range(Periods) : p <= l}

(* Without a cipher the commonest byte gives the key zero. *)
ZeroMode(r) ==
  IF r.cipher.scope \in {"none", "whole"}
     /\ \E p \in r.modal \cap PeriodsTo(limit) : r.cipher = NoCipher \/ p % r.cipher.period = 0
  THEN Readings(r) ELSE {}

(* The exact constraints (SpecialKey) need adlr and length of every entry; *)
(* whichever worker's start is taken, the verified walk has accepted it.   *)
Structured(r) ==
  IF /\ r.cipher.scope \in {"none", "whole"} /\ r.wrap = "raw"
     /\ Len(Entries) >= 2 /\ \A k \in DOMAIN Entries : Entries[k].hash # 0 /\ Entries[k].chars # 0
     /\ \E p \in PeriodsTo(limit) : r.cipher = NoCipher \/ p % r.cipher.period = 0
     /\ ScanVerified(r.plain, Entries) # <<>>
  THEN Readings(r) ELSE {}

(* At most five key bytes, under a decompressor; both scopes are tried. *)
Brute(r) ==
  IF /\ r.wrap \in {"zlib", "gzip"}
     /\ r.cipher = NoCipher \/ r.cipher.period <= (IF limit < LegacyMaxPeriod THEN limit ELSE LegacyMaxPeriod)
  THEN Readings(r) ELSE {}

----------------------------------------------------------------------------
(* recover_special_index_internal *)

(* consider: more confidence, or as much from fewer bytes. *)
Better(old, new) ==
  old = NoBest \/ new.confidence > old.confidence \/ (new.confidence = old.confidence /\ new.len < old.len)
Consider(results) == IF \E x \in results : Better(best, x) THEN CHOOSE x \in results : TRUE ELSE best

NextRoot ==
  IF root < Len(game.roots) THEN root' = root + 1 /\ stage' = "direct" ELSE root' = root /\ stage' = "over"

(* With the limit 0 and without a key only plain payloads are read. *)
StartSearch(l, k) ==
  /\ root' = 1 /\ best' = NoBest /\ limit' = l /\ keyed' = k
  /\ stage' = IF Entries = <<>> \/ game.roots = <<>> THEN "over" ELSE "direct"

SkipRoot ==
  /\ stage = "direct" /\ ~(Root.special /\ Root.stored)
  /\ NextRoot /\ UNCHANGED <<game, limit, keyed, best>>

(* A verified reading of this root is not looked behind. *)
TryDirect ==
  /\ stage = "direct" /\ Root.special /\ Root.stored
  /\ best' = Consider(Direct(Root))
  /\ IF best'.root = root /\ best'.confidence = 100 THEN NextRoot
     ELSE IF keyed THEN stage' = "explicit" /\ root' = root
     ELSE IF limit = 0 THEN NextRoot
     ELSE stage' = "zero" /\ root' = root
  /\ UNCHANGED <<game, limit, keyed>>

(* With a key of the user's nothing is searched for. *)
TryExplicit ==
  /\ stage = "explicit"
  /\ best' = Consider(Explicit(Root))
  /\ NextRoot /\ UNCHANGED <<game, limit, keyed>>

(* A hit of the two attacks on the whole stream ends the search. *)
TryZeroMode ==
  /\ stage = "zero"
  /\ LET hits == ZeroMode(Root)
     IN  IF hits = {} THEN stage' = "structured" /\ best' = best ELSE stage' = "over" /\ best' \in hits
  /\ UNCHANGED <<game, root, limit, keyed>>

TryStructured ==
  /\ stage = "structured"
  /\ LET hits == Structured(Root)
     IN  IF hits = {} THEN stage' = "brute" /\ best' = best ELSE stage' = "over" /\ best' \in hits
  /\ UNCHANGED <<game, root, limit, keyed>>

TryBrute ==
  /\ stage = "brute"
  /\ best' = Consider(Brute(Root))
  /\ NextRoot /\ UNCHANGED <<game, limit, keyed>>

SearchStep == SkipRoot \/ TryDirect \/ TryExplicit \/ TryZeroMode \/ TryStructured \/ TryBrute
=============================================================================
