---- MODULE KeyRecovery ----
(* The recovery of one entry's key (solver.rs: recover_complete_stream) in   *)
(* an archive whose shared key is tried first (main.rs). Each hypothesis     *)
(* ranks the periods; a period's evidence is refined with the structure it   *)
(* uncovers, then with statistical guesses; what is left is searched. The    *)
(* hypotheses run in parallel and share nothing but the accelerator, whose   *)
(* answer or absence is a choice here, so they are taken in turn.            *)
(* Two commands only report: probe what the hypotheses of an entry come to   *)
(* without a search (recover_stream), shared-probe how the periods of the    *)
(* whole archive fare against its checksums.                                 *)
EXTENDS SharedKey

CONSTANTS
  Problems,        \* the archives: [entries, special, hyps, gpu, true key and plaintext]
  TopPeriods,      \* top_periods_per_hypothesis
  HistogramRanks,  \* ranks below which histograms are used (4)
  GuessRanks,      \* ranks below which text guesses are refined (12)
  CommonPeriods,   \* short periods, powers of two, multiples of 64
  MaxRounds,       \* max_refinement_rounds
  MaxHistogramRounds,
  ReportTop        \* how many candidates shared-probe reports

ASSUME ReportAssumption == ReportTop \in Nat
ASSUME ProblemAssumption ==
  \A p \in Problems :
    /\ p.entries \in Seq(Entries) /\ p.entries # <<>>
    /\ p.hyps \in Seq({"chain", "chunk", "text"})
    /\ IsKey(p.key)

VARIABLES
  command,   \* "unpack", "probe" or "shared-probe"
  report,    \* what a probing command prints
  problem,   \* the archive and its first entry, which is recovered
  stage,     \* what the solver does next: "content", "hypothesis", "period", "refine", "histogram",
             \* "guess", "search", "report", "done" or "failed"
  hyp,       \* the hypothesis in turn
  todo,      \* its ranked periods still to visit
  rank,      \* the rank of the period in turn
  cand,      \* the period in turn with what is known of its key
  cribs,     \* its fragments
  round,     \* refinement rounds of the loop in turn
  guessed,   \* whether fragments of statistical guesses were kept (history)
  seen,      \* keys of this hypothesis already judged
  accepted,  \* recoveries: [hyp, period, key]
  content    \* the key of the whole archive, or None

vars == <<command, report, problem, stage, hyp, todo, rank, cand, cribs, round, guessed, seen, accepted, content>>

Stream == problem.entries[1].stream
Adler0 == problem.entries[1].adler
Hyp    == problem.hyps[hyp]
Length == Len(Stream)

Init ==
  /\ problem \in Problems
  /\ command \in {"unpack", "probe", "shared-probe"}
  /\ stage = IF command = "probe" THEN "hypothesis" ELSE "content"
  /\ report = <<>>
  /\ hyp = 1 /\ todo = {} /\ rank = 0 /\ round = 0
  /\ cand = EmptyPeriod(MinPeriod)
  /\ cribs = {} /\ seen = {} /\ guessed = FALSE
  /\ accepted = <<>>
  /\ content = None

search == <<hyp, todo, rank, cand, cribs, round, guessed, seen, accepted>>

\* A key a special entry delivered, if the archive confirms it, else the key
\* the entries share.
ContentKey ==
  /\ stage = "content" /\ command = "unpack"
  /\ LET Use(key) == content' = key
                     /\ stage' = (IF key = None THEN "hypothesis" ELSE "done")
     IN  IF problem.special # None /\ SpecialKeyAccepted(problem.entries, problem.special)
         THEN Use(problem.special) ELSE Use(FindSharedKey(problem.entries))
  /\ UNCHANGED <<command, report, problem, search>>

\* shared-probe ends with its report, or without a sample in an error.
SharedProbe ==
  /\ stage = "content" /\ command = "shared-probe"
  /\ IF DOMAIN Samples(problem.entries) = {}
     THEN report' = report /\ stage' = "failed"
     ELSE report' = ProbeReport(problem.entries, ReportTop) /\ stage' = "done"
  /\ UNCHANGED <<command, problem, search, content>>

(* --- rank_hypothesis_periods --- *)

TextOrder(scores, a, b) ==
  \/ a.conflicts < b.conflicts
  \/ a.conflicts = b.conflicts /\ scores[a.period] > scores[b.period]
  \/ a.conflicts = b.conflicts /\ scores[a.period] = scores[b.period] /\ a.period < b.period

\* Every period whose score is within 60 % of the best counts as a hit; among
\* hits the smallest wins: a true period also scores at its multiples.
BinaryOrder(scores, threshold, a, b) ==
  LET hit(c) == scores[c.period] >= threshold
  IN  \/ a.conflicts < b.conflicts
      \/ /\ a.conflicts = b.conflicts
         /\ \/ hit(a) /\ ~hit(b)
            \/ hit(a) /\ hit(b) /\ a.period < b.period
            \/ ~hit(a) /\ ~hit(b) /\ scores[a.period] > scores[b.period]
            \/ ~hit(a) /\ ~hit(b) /\ scores[a.period] = scores[b.period] /\ a.period < b.period

Threshold(best) == Baseline + ((best - Baseline) * 3) \div 5

\* Only a best score of twice the random baseline reorders the periods.
ByCoincidence(ranked, scores) ==
  LET clean == {scores[t.cand.period] : t \in {u \in ranked : u.cand.conflicts = 0}}
  IN  IF clean = {} \/ Max(clean \union {0}) < 2 * Baseline THEN ranked
      ELSE Ranked([c \in {t.cand : t \in ranked} |->
                     {d \in {t.cand : t \in ranked} :
                        BinaryOrder(scores, Threshold(Max(clean)), d, c)}])

RankHypothesis(h, stream) ==
  LET scores == Scores(h, stream)
      empty  == {EmptyPeriod(p) : p \in MinPeriod..MaxPeriod}
  IN  IF IsText(h)
      THEN Ranked([c \in empty |-> {d \in empty : TextOrder(scores, d, c)}])
      ELSE ByCoincidence(RankPeriods(stream, InitialCribs(h, Len(stream)), MinPeriod, MaxPeriod),
                         scores)

BeginHypothesis ==
  /\ stage = "hypothesis" /\ hyp <= Len(problem.hyps)
  /\ todo' = RankHypothesis(Hyp, Stream)
  /\ rank' = -1 /\ seen' = {} /\ stage' = "period"
  /\ UNCHANGED <<command, report, problem, hyp, cand, cribs, round, guessed, accepted, content>>

(* --- one period --- *)

ShouldRefine(period, at) == at < TopPeriods \/ period \in CommonPeriods
ShouldUseHistogram(period, at) == at < HistogramRanks \/ period \in CommonPeriods

\* A search is worth while only without a contradiction; a report is anyway.
Visited(c, at) == (c.conflicts = 0 \/ command = "probe") /\ ShouldRefine(c.period, at)

\* What a period becomes after the rounds.
Judgement == IF command = "probe" THEN "report" ELSE "guess"

NextPeriod ==
  /\ stage = "period"
  /\ rank' = rank + 1
  /\ \E t \in todo :
       /\ t.at = rank' /\ todo' = todo \ {t}
       /\ IF Visited(t.cand, t.at)
          THEN /\ cand' = t.cand
               /\ cribs' = InitialCribs(Hyp, Length)
               /\ round' = 0 /\ guessed' = FALSE
               /\ stage' = IF t.cand.conflicts # 0 THEN Judgement
                          ELSE IF CompleteFor(t.cand, Length) THEN "histogram" ELSE "refine"
          ELSE UNCHANGED <<cand, cribs, round, guessed, stage>>
  /\ UNCHANGED <<command, report, problem, hyp, seen, accepted, content>>

EndHypothesis ==
  /\ stage = "period" /\ todo = {}
  /\ hyp' = hyp + 1 /\ stage' = "hypothesis"
  /\ UNCHANGED <<command, report, problem, todo, rank, cand, cribs, round, guessed, seen, accepted, content>>

\* The histogram loop starts from the fragments of the refined period.
EndRefine(c) ==
  /\ cand' = c /\ round' = 0 /\ stage' = "histogram"
  /\ cribs' = InitialCribs(Hyp, Length) \union Discover(Hyp, Stream, c)

\* One round of refine_period. New contradictions discard the round; a round
\* without a new key byte is the last one.
RefineRound ==
  /\ stage = "refine"
  /\ LET Step(more, next) ==
           IF more \subseteq cribs \/ next.conflicts > cand.conflicts THEN EndRefine(cand)
           ELSE IF \/ Cardinality(KnownSlots(next)) <= Cardinality(KnownSlots(cand))
                   \/ CompleteFor(next, Length)
                   \/ round + 1 = MaxRounds
           THEN EndRefine(next)
           ELSE cand' = next /\ cribs' = cribs \union more /\ round' = round + 1 /\ stage' = stage
         With(more) == Step(more, Evaluate(Observations(1, Stream, cribs \union more), cand.period))
     IN  IF HasDynamic(Hyp) THEN With(Discover(Hyp, Stream, cand)) ELSE EndRefine(cand)
  /\ UNCHANGED <<command, report, problem, hyp, todo, rank, guessed, seen, accepted, content>>

(* --- key_space_for and the statistical guesses --- *)

Space(c, histogram) ==
  LET Given(space) == IF histogram /\ space # NoSpace THEN Refined(Stream, c, space) ELSE space
  IN  Given(BuildKeySpace(Stream, c, HardConstraints(Hyp, Length)))

\* project_space_singletons: the candidate with the single candidates added.
Projected(c, space) ==
  [c EXCEPT !.key = [s \in DOMAIN c.key |->
     IF c.key[s] = Unknown /\ s \in DOMAIN space /\ Len(space[s]) = 1 THEN space[s][1]
     ELSE c.key[s]]]

\* A slot the histogram, not a constraint, brought down to one candidate.
HistogramSingleton(c) ==
  LET Narrowed(wide, narrow) ==
        /\ wide # NoSpace
        /\ \E s \in DOMAIN wide : Len(wide[s]) > 1 /\ Len(narrow[s]) = 1
  IN  Narrowed(Space(c, FALSE), Space(c, TRUE))

EndHistogram == stage' = Judgement /\ UNCHANGED <<cand, cribs, round, guessed>>

\* One round of refine_histogram_dynamic: the guessed bytes only show where to
\* look; the fragments found there are kept.
HistogramRound ==
  /\ stage = "histogram"
  /\ LET Step(more, next) ==
           IF \/ more \subseteq cribs
              \/ next.conflicts # 0
              \/ Cardinality(KnownSlots(next)) <= Cardinality(KnownSlots(cand))
           THEN EndHistogram
           ELSE /\ cand' = next /\ cribs' = cribs \union more /\ round' = round + 1
                /\ guessed' = TRUE
                /\ stage' = IF CompleteFor(next, Length) \/ round + 1 = MaxHistogramRounds
                            THEN Judgement ELSE stage
         Look(more) == Step(more, Evaluate(Observations(1, Stream, cribs \union more), cand.period))
         Guess(projected) == IF projected = cand THEN EndHistogram
                             ELSE Look(Discover(Hyp, Stream, projected))
     IN  IF /\ HasDynamic(Hyp) /\ cand.conflicts = 0
            /\ ShouldUseHistogram(cand.period, rank)
            /\ round < MaxHistogramRounds
            /\ HistogramSingleton(cand)
         THEN Guess(Projected(cand, Space(cand, TRUE)))
         ELSE EndHistogram
  /\ UNCHANGED <<command, report, problem, hyp, todo, rank, seen, accepted, content>>

(* --- judging keys --- *)

\* validate_full_candidate: the checksum where there is one, and the grammar.
Judged(key) ==
  /\ Adler0 # None => Adler(Decrypted(Stream, key)) = Adler0
  /\ Strong(Hyp, Decrypted(Stream, key))

\* full_period_from_key: slots behind the end of the stream stay unknown.
Found(key) == [hyp |-> Hyp, period |-> cand.period,
               key |-> [s \in 0..(Used(cand, Length) - 1) |-> key[s]]]

\* The keys not judged before under this hypothesis, and those that pass.
Judge(keys) ==
  LET Fresh(i) == keys[i] \notin seen /\ \A j \in 1..(i - 1) : keys[j] # keys[i]
      passed == SelectSeq([i \in DOMAIN keys |-> i], LAMBDA i : Fresh(i) /\ Judged(keys[i]))
  IN  /\ accepted' = accepted \o [n \in DOMAIN passed |-> Found(keys[passed[n]])]
      /\ seen' = seen \union ToSet(keys)

Guess ==
  /\ stage = "guess"
  /\ IF IsText(Hyp)
     THEN Judge(GuessTextKeys(Stream, cand, IF rank < GuessRanks THEN 2 ELSE 0))
     ELSE UNCHANGED <<accepted, seen>>
  /\ stage' = "search"
  /\ UNCHANGED <<command, report, problem, hyp, todo, rank, cand, cribs, round, guessed, content>>

\* Every slot is known already: the key is judged as it is.
Complete ==
  /\ stage = "search" /\ CompleteFor(cand, Length)
  /\ accepted' = IF Judged(cand.key) THEN Append(accepted, Found(cand.key)) ELSE accepted
  /\ stage' = "period"
  /\ UNCHANGED <<command, report, problem, hyp, todo, rank, cand, cribs, round, guessed, seen, content>>

SearchSpace == Space(cand, ShouldUseHistogram(cand.period, rank))

Searchable(space) ==
  /\ space # NoSpace
  /\ DirectFeasible(space) \/ (Adler0 # None /\ MitmFeasible(space))

SearchDone ==
  /\ stage' = "period"
  /\ UNCHANGED <<command, report, problem, hyp, todo, rank, cand, cribs, round, guessed, content>>

\* The direct branch applies while the combinations are few.
CpuHits(space) ==
  IF Adler0 = None THEN AllKeys(cand.period, space)
  ELSE LET need == Need(Stream, cand.period, Adler0, space)
       IN  IF DirectFeasible(space) THEN DirectHits(Stream, cand.period, space, need)
           ELSE MitmHits(Stream, cand.period, space, need)

SearchCpu ==
  /\ stage = "search" /\ ~CompleteFor(cand, Length) /\ problem.gpu # "only"
  /\ LET Run(space) ==
           IF Searchable(space)
           THEN Judge(Cut(SelectSeq(CpuHits(space), LAMBDA k : Strong(Hyp, Decrypted(Stream, k)))))
           ELSE UNCHANGED <<accepted, seen>>
     IN  Run(SearchSpace)
  /\ SearchDone

\* The accelerator answers: hits in any order, cut after MaxSolutions.
SearchGpu ==
  /\ stage = "search" /\ ~CompleteFor(cand, Length) /\ problem.gpu # "off" /\ Adler0 # None
  /\ \E space \in {SearchSpace} :
       /\ Searchable(space) /\ DirectFeasible(space) /\ Ambiguous(space) # {}
       /\ \E hits \in {{k \in GpuHits(Stream, cand.period, space,
                                      Need(Stream, cand.period, Adler0, space)) :
                          Strong(Hyp, Decrypted(Stream, k))}} :
            \E order \in Orders(hits, MaxSolutions) : Judge(order)
  /\ SearchDone

\* In GPU mode a missing or overflowing accelerator is an error of the whole
\* recovery; work the GPU does not do stays on the CPU.
SearchGpuOnly ==
  /\ stage = "search" /\ ~CompleteFor(cand, Length) /\ problem.gpu = "only"
  /\ \E space \in {SearchSpace} :
       IF Searchable(space) /\ DirectFeasible(space) /\ Ambiguous(space) # {} /\ Adler0 # None
       THEN stage' = "failed" /\ UNCHANGED <<command, report, problem, search, content>>
       ELSE /\ IF Searchable(space)
               THEN Judge(Cut(SelectSeq(CpuHits(space),
                                        LAMBDA k : Strong(Hyp, Decrypted(Stream, k)))))
               ELSE UNCHANGED <<accepted, seen>>
            /\ SearchDone

\* recover_stream keeps the period with the size of what is left to search;
\* NoSize where nothing can be searched.
NoSize == -1
SizeOf(space) == IF space = NoSpace THEN NoSize ELSE Size(space)
Report ==
  /\ stage = "report"
  /\ report' = Append(report, [hyp |-> Hyp, cand |-> cand, size |-> SizeOf(SearchSpace)])
  /\ stage' = "period"
  /\ UNCHANGED <<command, problem, hyp, todo, rank, cand, cribs, round, guessed, seen, accepted, content>>

\* Fewer conflicts, a smaller space, more known slots, more agreements, the
\* smaller period; the rest stays in the order of the hypotheses.
Criteria(r) ==
  <<r.cand.conflicts, IF r.size = NoSize THEN MaxCombinations ^ MaxPeriod ELSE r.size,
    -Cardinality(KnownSlots(r.cand)), -r.cand.agreements, r.cand.period>>
Before(a, b) ==
  \E n \in 1..5 : /\ Criteria(a)[n] < Criteria(b)[n]
                 /\ \A k \in 1..(n - 1) : Criteria(a)[k] = Criteria(b)[k]

FinishProbe ==
  /\ stage = "hypothesis" /\ hyp > Len(problem.hyps) /\ command = "probe"
  /\ report' = SortSeq(report, Before)
  /\ stage' = "done"
  /\ UNCHANGED <<command, problem, search, content>>

\* All hypotheses are done: the smallest period first, in the order found.
SmallerPeriod(a, b) == a.period < b.period
Finish ==
  /\ stage = "hypothesis" /\ hyp > Len(problem.hyps) /\ command = "unpack"
  /\ accepted' = SortSeq(accepted, SmallerPeriod)
  /\ stage' = "done"
  /\ UNCHANGED <<command, report, problem, hyp, todo, rank, cand, cribs, round, guessed, seen, content>>

Next ==
  \/ ContentKey \/ BeginHypothesis \/ NextPeriod \/ EndHypothesis
  \/ RefineRound \/ HistogramRound \/ Guess
  \/ Complete \/ SearchCpu \/ SearchGpu \/ SearchGpuOnly \/ Finish
  \/ SharedProbe \/ Report \/ FinishProbe

Spec == Init /\ [][Next]_vars

(* --- what must hold --- *)

TrueKey    == problem.key
TruePeriod == Cardinality(DOMAIN TrueKey)
TruePlain  == Decrypted(Stream, TrueKey)

Plainly == [period |-> 1, key |-> [s \in {0} |-> 0], conflicts |-> 0, agreements |-> 0]

\* The plaintext is one the evidence of the hypothesis is exact for: no place
\* but a page start looks mostly like a page start; all tags are listed ones.
Conforms(h) ==
  /\ Strong(h, TruePlain)
  /\ h = "chain" =>
       \A p \in 0..(Length - Len(Anchor)) \ PageWalk(TruePlain, Plainly) :
         Cardinality({d \in DOMAIN Anchor : TruePlain[p + d] = Anchor[d]}) < Len(Anchor) - 1
  /\ h = "chunk" =>
       \A p \in ChunkWalk(TruePlain, Plainly) : SubSeq(TruePlain, p + 2, p + 3) \in Tags

Agrees(c) ==
  \A s \in KnownSlots(c) : s < Length => c.key[s] = TrueKey[s % TruePeriod]

AtPeriod == stage \in {"refine", "histogram", "guess", "search", "report"}

\* format.rs:650 calls the discovered fragments exact: for a plaintext of the
\* hypothesis, no round of refinement at the true period or a multiple of it
\* ever learns a wrong key byte.
EvidenceIsSound ==
  AtPeriod /\ ~guessed /\ Conforms(Hyp) /\ cand.period % TruePeriod = 0 => Agrees(cand)

\* All keys of a space that fit the checksum and the grammar.
Solutions(space) ==
  {k \in {FullKey(space, cand.period, a) :
            a \in {Nth(Ambiguous(space), space, n) : n \in 0..(Size(space) - 1)}} : Judged(k)}

\* The search is exact: when it runs, each key of the space that fits checksum
\* and grammar is found, by the CPU, the GPU or meet-in-the-middle, or
\* MaxSolutions of them are; and nothing else is.
SearchIsExact ==
  [][stage = "search" /\ stage' = "period" /\ ~CompleteFor(cand, Length) =>
       \A space \in {SearchSpace} :
         IF ~Searchable(space) THEN accepted' = accepted
         ELSE LET new == {accepted'[i].key : i \in (Len(accepted) + 1)..Len(accepted')}
                  missed == {k \in Solutions(space) \ seen : Found(k).key \notin new}
              IN  /\ \A key \in new : \E k \in Solutions(space) : Found(k).key = key
                  /\ \/ missed = {}
                     \/ Cardinality(new) + Cardinality(Solutions(space) \cap seen) >= MaxSolutions]_vars

\* A key used for the whole archive contradicts no checksum of any entry that
\* can be read, and makes at least one of them a file of its format. What
\* shared-probe counts for a key, on streams all candidates share, is the
\* number of checksums this key fits.
ContentKeyFitsAll ==
  /\ command = "shared-probe" =>
       \A i \in {j \in DOMAIN report : Whole(report[j].cand)} :
         /\ report[i].tested = Cardinality(Tested(problem.entries))
         /\ report[i].matches = Cardinality(AdlerMatches(problem.entries, report[i].cand.key))
  /\ content # None =>
    /\ \A i \in Tested(problem.entries) :
         Adler(Decrypted(problem.entries[i].stream, content)) = problem.entries[i].adler
    /\ \E i \in Readable(problem.entries) :
         Strong(problem.entries[i].format, Decrypted(problem.entries[i].stream, content))
====
