---- MODULE ContentFormats ----
(* What the key search knows of a plaintext (format.rs, text.rs): fixed and  *)
(* length-derived fragments, sets of possible bytes, fragments found with a  *)
(* partial key, and text scores. Three miniature formats stand for the real  *)
(* ones, each with the recovery steps of its family:                         *)
(*   "chain"  Ogg: pages of a capture pattern, a body length and a body;     *)
(*   "chunk"  PNG: a signature and chunks of a length, a tag and data, the   *)
(*            last one the empty end chunk;                                  *)
(*   "text"   UTF-16 text: low bytes 1 or 2, high bytes 0.                   *)
EXTENDS KeySpace

CONSTANTS
  Tags,       \* TYPES: the chunk tags the program lists
  MinPeriod, MaxPeriod

\* A tag has two bytes; a search for periods starts at 1 or later.
ASSUME TagAssumption == IsFiniteSet(Tags) /\ Tags \subseteq [1..2 -> Byte]
ASSUME PeriodAssumption == MinPeriod \in Nat \ {0} /\ MaxPeriod \in Nat

Anchor    == <<3, 0, 1>>    \* "OggS\0"
Signature == <<2>>
EndTag    == <<0, 3>>       \* "IEND"

IsText(h) == h = "text"
HasDynamic(h) == h \in {"chain", "chunk"}

\* The fragments of a hypothesis at fixed offsets.
HeaderCribs(h) ==
  CASE h = "chain" -> {Crib(0, Anchor)}
    [] h = "chunk" -> {Crib(0, Signature)}
    [] h = "text"  -> {}

\* length_derived_cribs: the end chunk.
LengthCribs(h, len) ==
  IF h = "chunk" /\ len >= 3 THEN {Crib(len - 3, <<0>> \o EndTag)} ELSE {}

InitialCribs(h, len) == HeaderCribs(h) \union LengthCribs(h, len)

\* Bytes that must come from a small set: the first chunk's length.
HardConstraints(h, len) ==
  IF h = "chunk" /\ len >= 4 THEN {[at |-> 1, allowed |-> {0, 1}]} ELSE {}

\* How many bytes of a fragment the known key slots cover; -1 on a mismatch.
KnownMatch(stream, c, at, plain) ==
  LET bytes == [d \in DOMAIN plain |-> PlainAt(stream, c, at + d - 1)]
  IN  IF \E d \in DOMAIN plain : bytes[d] \notin {Unknown, plain[d]} THEN -1
      ELSE Cardinality({d \in DOMAIN plain : bytes[d] # Unknown})

\* The places a walk over a stream comes to: step says where it goes from a
\* place. It ends where step does not lead forward to another place, and comes
\* nowhere from a place behind the end.
Walked(step, start) ==
  LET walk[p \in DOMAIN step] ==
        {p} \union IF step[p] \in DOMAIN step /\ step[p] > p THEN walk[step[p]] ELSE {}
  IN  IF start \in DOMAIN step THEN walk[start] ELSE {}

\* Page starts reached by adding up known body lengths; the page after the
\* last known one is included.
PageStep(stream, c) ==
  [p \in 0..Len(stream) |->
     IF p + 4 > Len(stream) \/ PlainAt(stream, c, p + 3) = Unknown THEN p
     ELSE p + 4 + PlainAt(stream, c, p + 3)]
PageWalk(stream, c) == {p \in Walked(PageStep(stream, c), 0) : p + 4 <= Len(stream)}

\* Mutant: two unknown or wrong bytes are tolerated.
ResyncWeak(stream, c) ==
  {p \in 1..(Len(stream) - Len(Anchor)) :
     KnownMatch(stream, c, p, Anchor) >= Len(Anchor) - 2}

\* Places where all but at most one byte of the pattern are known to match.
Resync(stream, c) ==
  {p \in 1..(Len(stream) - Len(Anchor)) :
     KnownMatch(stream, c, p, Anchor) >= Len(Anchor) - 1}

DiscoverChain(stream, c) ==
  {Crib(p, Anchor) : p \in PageWalk(stream, c) \union Resync(stream, c)}

\* Chunk starts reached by known lengths; the walk stops at an unknown one.
ChunkStep(stream, c) ==
  [p \in 0..Len(stream) |->
     IF \/ p + 3 > Len(stream)
        \/ PlainAt(stream, c, p) = Unknown
        \/ p + 3 + PlainAt(stream, c, p) > Len(stream)
     THEN p ELSE p + 3 + PlainAt(stream, c, p)]
ChunkWalk(stream, c) ==
  {p \in Walked(ChunkStep(stream, c), Len(Signature)) : ChunkStep(stream, c)[p] > p}

\* The listed tags a half-known tag can be.
MatchingTags(stream, c, chunk) ==
  {t \in Tags : KnownMatch(stream, c, chunk + 1, t) >= 1}

DiscoverChunk(stream, c) ==
  UNION {{Crib(p + 1, t) : t \in MatchingTags(stream, c, p)} :
           p \in {q \in ChunkWalk(stream, c) : Cardinality(MatchingTags(stream, c, q)) = 1}}

\* discover_dynamic_cribs
Discover(h, stream, c) ==
  CASE h = "chain" -> DiscoverChain(stream, c)
    [] h = "chunk" -> DiscoverChunk(stream, c)
    [] h = "text"  -> {}

(* --- periods from ciphertext alone --- *)

Baseline == 90090   \* a random coincidence, 1/256 in the program
Prior    == 4       \* observations at the baseline a small sample is mixed with

\* Odd lags compare a low with a high byte: text of two-byte units is compared
\* two periods on.
Lag(period, parity) == IF parity /\ period % 2 = 1 THEN 2 * period ELSE period

Coincidence(stream, lag) ==
  IF lag >= Len(stream) THEN 0
  ELSE ((Cardinality({i \in 1..(Len(stream) - lag) : stream[i] = stream[i + lag]}) + 1)
        * 4 * Baseline) \div (Len(stream) - lag + Prior)

PeriodScore(stream, period, parity) == Coincidence(stream, Lag(period, parity))

Scores(h, stream) ==
  [p \in MinPeriod..MaxPeriod |-> PeriodScore(stream, p, IsText(h))]

(* --- text guesses --- *)

\* Position-independent plausibility of a plaintext byte.
ByteScore(high, byte) ==
  IF high THEN (IF byte = 0 THEN 10 ELSE 0)
  ELSE CASE byte = 0 -> -3 [] byte \in {1, 2} -> 4 [] byte = 3 -> 2

\* Plausibility of a two-byte character.
UnitScore(low, high) ==
  IF high = 0 THEN (CASE low = 0 -> -18 [] low \in {1, 2} -> 5 [] low = 3 -> 3)
  ELSE 1

\* The smallest of the best-scoring bytes.
Best(score) ==
  CHOOSE v \in Byte : \A w \in Byte \ {v} :
    score[v] > score[w] \/ (score[v] = score[w] /\ v < w)

\* choose_independent_key: each unknown slot by itself.
IndependentKey(stream, c) ==
  [s \in 0..(c.period - 1) |->
     IF s >= Len(stream) THEN 0
     ELSE IF c.key[s] # Unknown THEN c.key[s]
     ELSE Best([v \in Byte |->
            MapThenSumSet(LAMBDA o : ByteScore(o % 2 = 1, Xor(At(stream, o), v)),
                          Positions(stream, c.period, s))])]

\* Characters a key slot takes part in.
Affected(stream, period, slot) ==
  {o \in 0..(Len(stream) - 2) : o % 2 = 0 /\ slot \in {o % period, (o + 1) % period}}

UnitsScore(stream, period, key, slot) ==
  MapThenSumSet(LAMBDA o : UnitScore(Xor(At(stream, o), key[o % period]),
                                     Xor(At(stream, o + 1), key[(o + 1) % period])),
                Affected(stream, period, slot))

\* One slot improved with all others kept.
ImproveSlot(stream, c, key, slot) ==
  IF c.key[slot] # Unknown \/ Affected(stream, c.period, slot) = {} THEN key
  ELSE [key EXCEPT ![slot] =
          Best([v \in Byte |-> UnitsScore(stream, c.period, [key EXCEPT ![slot] = v], slot)])]

\* coordinate_refine: the slots in turn, each seeing the ones before it.
RefineOnce(stream, c, key) ==
  FoldLeft(LAMBDA k, s : ImproveSlot(stream, c, k, s), key,
           [i \in 1..Used(c, Len(stream)) |-> i - 1])

\* guess_text_keys: the independent key, then the refined one if it differs.
GuessTextKeys(stream, c, rounds) ==
  LET refined[r \in 0..rounds] ==
        IF r = 0 THEN IndependentKey(stream, c) ELSE RefineOnce(stream, c, refined[r - 1])
  IN  IF refined[rounds] = refined[0] THEN <<refined[0]>>
      ELSE <<refined[0], refined[rounds]>>

(* --- validate_hypothesis: the grammar of the whole plaintext --- *)

\* Pages one behind the other up to the end.
ChainStep(plain) ==
  [p \in 0..Len(plain) |-> IF p + 4 <= Len(plain) THEN p + 4 + At(plain, p + 3) ELSE p]
ChainValid(plain) ==
  /\ Len(plain) > 0
  /\ \A p \in Walked(ChainStep(plain), 0) :
       p # Len(plain) =>
         /\ p + 4 <= Len(plain)
         /\ SubSeq(plain, p + 1, p + 3) = Anchor
         /\ ChainStep(plain)[p] <= Len(plain)

\* The signature and chunks up to the end, which only the end chunk meets.
DataStep(plain) ==
  [p \in 0..Len(plain) |-> IF p + 3 < Len(plain) THEN p + 3 + At(plain, p) ELSE p]
ChunkValid(plain) ==
  /\ Len(plain) > 1 /\ plain[1] = Signature[1]
  /\ \A p \in Walked(DataStep(plain), Len(Signature)) :
       /\ p + 3 <= Len(plain)
       /\ IF p + 3 = Len(plain) THEN SubSeq(plain, p + 1, p + 3) = <<0>> \o EndTag
          ELSE /\ SubSeq(plain, p + 2, p + 3) # EndTag
               /\ DataStep(plain)[p] <= Len(plain)

TextValid(plain) ==
  \A i \in DOMAIN plain : IF i % 2 = 0 THEN plain[i] = 0 ELSE plain[i] \in {1, 2}

Strong(h, plain) ==
  CASE h = "chain" -> ChainValid(plain)
    [] h = "chunk" -> ChunkValid(plain)
    [] h = "text"  -> TextValid(plain)
====
