---------------------------- MODULE MCXp3Layout ----------------------------
(* Three objects: one or two index blocks at any place of the order, data  *)
(* segments with or without a gap before them (zero or opaque), shared     *)
(* segments, edits that shrink, keep or grow, encoders whose length does   *)
(* or does not depend on an offset, and every mode of the packer.          *)
EXTENDS Xp3Layout, FiniteSets, TLC

MCIndexSets == {{3}, {1}, {2}, {1, 3}}
MCEncoders == {{2}, {1, 3}, {2, 3, 4, 5}}
MCModes ==
  {[preserve |-> TRUE, source |-> TRUE, retained |-> TRUE],
   [preserve |-> FALSE, source |-> TRUE, retained |-> TRUE],
   [preserve |-> FALSE, source |-> FALSE, retained |-> TRUE],
   [preserve |-> FALSE, source |-> FALSE, retained |-> FALSE]}

(* Edits of a segment of length 1, as <<content offset, new length>>. *)
MCEdits == {<<0, 1>>, <<N, 0>>, <<N, 1>>, <<N, 2>>}

(* A function on Obj with its three values computed once. *)
Triple(f) == <<f[1], f[2], f[3]>>

OldLen(ix) == [i \in Obj |-> IF i \in ix THEN 2 ELSE 1]

(* Offsets with a gap of gap[i] before object i; a gap of -1 puts object i *)
(* on the bytes of the data object before it.                              *)
After(offset, len, gap) == IF gap = -1 THEN offset ELSE offset + len + gap
Offsets(ix, gap) ==
  LET a == HeaderEnd + gap[1]
      b == After(a, OldLen(ix)[1], gap[2])
      c == After(b, OldLen(ix)[2], gap[3])
  IN <<a, b, c>>

Shared(ix, gap, i) == gap[i] = -1
Source(ix, gap) == [i \in Obj |-> IF Shared(ix, gap, i) THEN i - 1 ELSE i]
Gaps(ix) ==
  {g \in [Obj -> {-1, 0, 1}] :
     \A i \in Obj : g[i] = -1 => i > 1 /\ {i, i - 1} \cap ix = {} /\ g[i - 1] # -1}

Rank(i, S) == Cardinality({j \in S : j <= i})

MCTemplate(m, ix, gap, edit, enc, gapsAreOpaque) ==
  LET orig == Offsets(ix, gap)
      old == Triple(Source(ix, gap))
      Block(i) == IF Cardinality(ix) = 2 /\ i = 2 THEN 1 + 2 * (gap[1] % 2)
                  ELSE CHOOSE b \in ix : \A c \in ix : c <= b
  IN [preserve |-> m.preserve, source |-> m.source, retained |-> m.retained,
      index |-> ix,
      owner |-> Triple([i \in Obj |-> Block(i)]),
      orig |-> orig,
      oldLen |-> Triple(OldLen(ix)),
      newLen |-> Triple([i \in Obj |-> IF i \in ix THEN 2 ELSE edit[Rank(i, Obj \ ix)][2]]),
      oldContent |-> old,
      content |-> Triple([i \in Obj |->
                    IF i \in ix \/ edit[Rank(i, Obj \ ix)][1] = 0 THEN old[i] ELSE N + i]),
      lengths |-> Triple([b \in Obj |-> IF b \in ix THEN enc[Rank(b, ix)] ELSE {}]),
      opaque |-> IF gapsAreOpaque
                 THEN {orig[i] - 1 : i \in {i \in Obj : gap[i] = 1}} ELSE {}]

(* The parameters of a template: an edit for each data object and an       *)
(* encoder for each index block, those not needed fixed.                   *)
MCChoices ==
  {c \in [mode : MCModes, ix : MCIndexSets, gap : [Obj -> {-1, 0, 1}],
          edit : [1 .. 2 -> MCEdits], enc : [1 .. 2 -> MCEncoders], opaque : BOOLEAN] :
     /\ c.gap \in Gaps(c.ix)
     /\ \A k \in 1 .. 2 : k > N - Cardinality(c.ix) => c.edit[k] = <<0, 1>>
     /\ \A k \in 1 .. 2 : k > Cardinality(c.ix) => c.enc[k] = {2}}

MCTemplates == {MCTemplate(c.mode, c.ix, c.gap, c.edit, c.enc, c.opaque) : c \in MCChoices}
=============================================================================
