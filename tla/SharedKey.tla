---- MODULE SharedKey ----
(* Keys tried on a whole archive (main.rs): a key a special entry delivered, *)
(* and the key that the known fragments of several entries determine         *)
(* together. An entry is [stream, format, adler]: no format when the name       *)
(* tells none, no adler when the archive has none, no stream when the entry  *)
(* cannot be reconstructed.                                                  *)
EXTENDS ContentFormats

CONSTANT MaxSamples   \* the most entries periods are ranked by (512)

\* No checksum, no key, no stream.
None == <<>>
NoFormat == "none"

Entries == [stream : Seq(Byte), format : {"chain", "chunk", "text", NoFormat},
            adler : {None} \union (Nat \X Nat)]

\* Keys of any length but 0.
IsKey(key) ==
  /\ IsFiniteSet(DOMAIN key) /\ DOMAIN key # {}
  /\ key \in [0..(Cardinality(DOMAIN key) - 1) -> Byte]

Decrypted(stream, key) ==
  [i \in DOMAIN stream |-> Xor(stream[i], key[(i - 1) % Cardinality(DOMAIN key)])]

Readable(entries) == {i \in DOMAIN entries : entries[i].stream # None}

Tested(entries) == {i \in Readable(entries) : entries[i].adler # None}

AdlerMatches(entries, key) ==
  {i \in Tested(entries) : Adler(Decrypted(entries[i].stream, key)) = entries[i].adler}

StrongMatches(entries, key) ==
  {i \in Readable(entries) :
     entries[i].format # NoFormat /\ Strong(entries[i].format, Decrypted(entries[i].stream, key))}

\* validate_special_xor_as_content_key_streaming: every checksum and one
\* grammar, or two grammars where the archive has no checksum.
SpecialKeyAccepted(entries, key) ==
  /\ Readable(entries) # {}
  /\ IF Tested(entries) # {}
     THEN AdlerMatches(entries, key) = Tested(entries) /\ StrongMatches(entries, key) # {}
     ELSE Cardinality(StrongMatches(entries, key)) >= 2

\* Header fragments all hypotheses of the entry's name share.
SharedCribs(entry) == IF entry.format = NoFormat THEN {} ELSE HeaderCribs(entry.format)

\* The shortest entries come first, of equal ones the one before.
Shorter(entries, a, b) ==
  \/ Len(entries[a].stream) < Len(entries[b].stream)
  \/ Len(entries[a].stream) = Len(entries[b].stream) /\ a < b

\* The first MaxSamples readable entries with such fragments.
Samples(entries) ==
  LET with == {i \in Readable(entries) : SharedCribs(entries[i]) # {}}
  IN  [i \in {j \in with : Cardinality({k \in with : Shorter(entries, k, j)}) < MaxSamples} |->
         [stream |-> entries[i].stream, cribs |-> SharedCribs(entries[i])]]

\* A candidate whose key is whole and undisputed.
Whole(c) == c.conflicts = 0 /\ KnownSlots(c) = DOMAIN c.key

\* shared-probe: every complete candidate is laid over the one copy of an
\* entry and taken off again for the next one.
Checked(entry, best) ==
  LET copy[n \in 0..Len(best)] ==
        IF n = 0 THEN entry.stream
        ELSE IF Whole(best[n]) THEN Decrypted(Decrypted(copy[n - 1], best[n].key), best[n].key)
        ELSE copy[n - 1]
  IN  {n \in 1..Len(best) :
         Whole(best[n]) /\ Adler(Decrypted(copy[n - 1], best[n].key)) = entry.adler}

Counts(entries, best) ==
  [n \in 1..Len(best) |->
     [cand |-> best[n],
      matches |-> Cardinality({i \in Tested(entries) : n \in Checked(entries[i], best)}),
      tested |-> IF Whole(best[n]) THEN Cardinality(Tested(entries)) ELSE 0]]

\* The first candidates of a ranking, at most top.
Leading(ranked, top) ==
  [n \in 1..(IF top < Cardinality(ranked) THEN top ELSE Cardinality(ranked)) |->
     (CHOOSE t \in ranked : t.at = n - 1).cand]

ProbeReport(entries, top) ==
  Counts(entries, Leading(RankSharedPeriods(Samples(entries), MinPeriod, MaxPeriod), top))

\* Mutant: two matching checksums suffice, a failing one is skipped.
SharedKeyAcceptedMost(entries, key) ==
  /\ Cardinality(AdlerMatches(entries, key)) >= 2
  /\ Cardinality(StrongMatches(entries, key)) >= 2

\* The loop over the archive: the first checksum that fails rejects the
\* candidate; two checksums and two grammars accept it.
SharedKeyAccepted(entries, key) ==
  /\ AdlerMatches(entries, key) = Tested(entries)
  /\ Cardinality(Tested(entries)) >= 2
  /\ Cardinality(StrongMatches(entries, key)) >= 2

\* find_global_shared_key: the first accepted candidate in rank order.
FindSharedKey(entries) ==
  LET samples == Samples(entries)
      accepted == {t \in RankSharedPeriods(samples, MinPeriod, MaxPeriod) :
                     Whole(t.cand) /\ SharedKeyAccepted(entries, t.cand.key)}
  IN  IF Cardinality(DOMAIN samples) < 2 \/ accepted = {} THEN None
      ELSE (CHOOSE t \in accepted : \A u \in accepted : t.at <= u.at).cand.key
====
