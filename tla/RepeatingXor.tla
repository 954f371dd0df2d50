---- MODULE RepeatingXor ----
(* Known-plaintext evidence for repeating-XOR keys (repeating_xor.rs). A      *)
(* byte has two bits here; a stream is a sequence, its offsets count from 0. *)
(* Every crib of the program has weight 1.0, so weights are counts.          *)
EXTENDS Integers, Sequences, FiniteSets, FiniteSetsExt, SequencesExt

Byte == 0..3
\* A key byte nobody has observed yet: Option::None.
Unknown == -1

Xor(a, b) == 2 * ((a \div 2 + b \div 2) % 2) + ((a + b) % 2)

At(stream, offset) == stream[offset + 1]

\* A plaintext fragment believed to start at an offset.
Crib(at, plain) == [at |-> at, plain |-> plain]

\* One key byte per crib byte that lies inside the stream. Two cribs over the
\* same offset are two observations, as are two samples.
Observations(sample, stream, cribs) ==
  UNION {{[sample |-> sample, crib |-> c, at |-> c.at + d - 1,
           key |-> Xor(At(stream, c.at + d - 1), c.plain[d])] :
            d \in {e \in DOMAIN c.plain : c.at + e <= Len(stream)}} : c \in cribs}

Votes(obs, period, slot, value) ==
  Cardinality({o \in obs : o.at % period = slot /\ o.key = value})

\* The most observed value of a slot, the smallest of those on a tie.
Winner(obs, period, slot) ==
  IF \A o \in obs : o.at % period # slot THEN Unknown
  ELSE CHOOSE v \in Byte : \A w \in Byte \ {v} :
         \/ Votes(obs, period, slot, v) > Votes(obs, period, slot, w)
         \/ Votes(obs, period, slot, v) = Votes(obs, period, slot, w) /\ v < w

Tallied(obs, period, key) ==
  [period |-> period, key |-> key,
   conflicts |-> Cardinality({o \in obs : o.key # key[o.at % period]}),
   agreements |-> Cardinality({o \in obs : o.key = key[o.at % period]})
                  - Cardinality({s \in 0..(period - 1) : key[s] # Unknown})]

\* What the observations say about one period.
Evaluate(obs, period) ==
  Tallied(obs, period, [s \in 0..(period - 1) |-> Winner(obs, period, s)])

EmptyPeriod(period) == [period |-> period, key |-> [s \in 0..(period - 1) |-> Unknown],
                        conflicts |-> 0, agreements |-> 0]

KnownSlots(c) == {s \in DOMAIN c.key : c.key[s] # Unknown}

\* Fewer conflicts, then more agreements, then the smaller period.
CandidateOrder(a, b) ==
  \/ a.conflicts < b.conflicts
  \/ a.conflicts = b.conflicts /\ a.agreements > b.agreements
  \/ a.conflicts = b.conflicts /\ a.agreements = b.agreements /\ a.period < b.period

\* Candidates in order, given those that come before each: their number is the
\* rank.
Ranked(earlier) ==
  {[at |-> Cardinality(earlier[c]), cand |-> c] : c \in DOMAIN earlier}

\* Each period of the range once, best first.
RankObserved(obs, min, max) ==
  LET all == {Evaluate(obs, p) : p \in min..max}
  IN  Ranked([c \in all |-> {d \in all : CandidateOrder(d, c)}])

RankPeriods(stream, cribs, min, max) == RankObserved(Observations(1, stream, cribs), min, max)

\* The evidence of several streams under one key that restarts in each of them.
RankSharedPeriods(samples, min, max) ==
  RankObserved(UNION {Observations(i, samples[i].stream, samples[i].cribs) :
                        i \in DOMAIN samples}, min, max)

Used(c, len) == IF c.period < len THEN c.period ELSE len

\* candidate_is_complete_for_len: every slot the stream uses is known.
CompleteFor(c, len) == c.conflicts = 0 /\ \A s \in 0..(Used(c, len) - 1) : c.key[s] # Unknown

\* known_plain_byte: Unknown outside the stream or under an unknown key byte.
PlainAt(stream, c, offset) ==
  IF offset >= Len(stream) \/ c.key[offset % c.period] = Unknown THEN Unknown
  ELSE Xor(At(stream, offset), c.key[offset % c.period])
====
