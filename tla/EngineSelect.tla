---------------------------- MODULE EngineSelect ----------------------------
(***************************************************************************)
(* Choice of the native content filter of an archive, before any brute     *)
(* force (main.rs: unpack, select_recovered_cxdec_engine,                  *)
(* select_validated_x86_filter).  CxDec parameters of the game's modules   *)
(* are tried first, then emulated x86 callbacks; a candidate is accepted   *)
(* for what it makes of real entries.                                      *)
(*                                                                         *)
(* A game is [skip, target, broken, explicit, modules, setup, truth,       *)
(* entries]: `truth` is the parameter set the archive was made with (or    *)
(* Nothing), known to no action but through what a candidate decodes.  An  *)
(* entry is [sum, enc, strong, real, readable, size, senses]: sum is       *)
(* "adler", "alternate" or "none", strong says that its plain content has  *)
(* a strong format, senses names the parameters its content depends on.    *)
(***************************************************************************)
EXTENDS CxdecParams

CONSTANTS
  Games,        \* the archives and games considered
  SampleCount,  \* SAMPLE_COUNT
  SampleBytes,  \* SAMPLE_BYTES
  Preflight,    \* entries of the second stage of a hypothesis
  WordLimit     \* u32::MAX: longest entry a CxDec engine takes

ASSUME EngineAssumption ==
  /\ Preflight \in Nat
  /\ \A g \in Games :
      g.entries \in Seq([sum : {"adler", "alternate", "none"}, enc : BOOLEAN, strong : BOOLEAN, real : BOOLEAN,
                        readable : BOOLEAN, size : Nat, senses : SUBSET STRING])

VARIABLES
  game,     \* the archive and what lies around it
  route,    \* "start", "collected", "coherent", "generic", "probe", "registered", "hypotheses", "done"
  phase,    \* "sample" or "full"
  found,    \* what the scans found: facts, coherent and generic parameters, reports
  todo,     \* candidates still to be validated, each at its place in the list
  job,      \* the validation going on, or NoJob
  passing,  \* candidates that passed the current phase
  outcome   \* [how, cand]

vars == <<game, route, phase, found, todo, job, passing, outcome>>

----------------------------------------------------------------------------
(* Candidates and samples *)

Cx(p) == [kind |-> "cxdec", p |-> p, mod |-> 0, cb |-> 0, forced |-> FALSE, k |-> 0]
X86(i, cb, forced) == [kind |-> "x86", p |-> Nothing, mod |-> i, cb |-> cb, forced |-> forced, k |-> IF forced THEN 1 ELSE 3]
NoCandidate == [kind |-> "none", p |-> Nothing, mod |-> 0, cb |-> 0, forced |-> FALSE, k |-> 0]
NoJob == [cand |-> NoCandidate]
Decided(how, c) == [how |-> how, cand |-> c]

Indices == [i \in DOMAIN game.entries |-> i]

(* A plain entry says nothing about a filter.  Without the checksum an     *)
(* entry counts as plain only if its format is known.                      *)
StoredPlain(e) == ~e.enc /\ (e.sum = "adler" \/ e.strong)
Usable(e) == e.real /\ e.sum # "none" /\ e.readable /\ ~StoredPlain(e)

(* The order of the samples: smallest first, for the x86 route those with  *)
(* an adler checksum before all others.                                    *)
Rank(sumsFirst, e) == IF sumsFirst /\ e.sum # "adler" THEN 1 ELSE 0
Earlier(sumsFirst, i, j) ==
  LET a == game.entries[i] b == game.entries[j]
  IN \/ Rank(sumsFirst, a) < Rank(sumsFirst, b)
     \/ Rank(sumsFirst, a) = Rank(sumsFirst, b) /\ (a.size < b.size \/ (a.size = b.size /\ i < j))

(* Up to the count and the bytes; an entry too big for what is left is     *)
(* passed over.                                                            *)
Take(sumsFirst, s) ==
  LET i == CHOOSE x \in s.left : \A y \in s.left \ {x} : Earlier(sumsFirst, x, y)
      size == game.entries[i].size
      fits == Len(s.ids) < SampleCount /\ s.bytes + size <= SampleBytes
  IN IF s.left = {} THEN s
     ELSE [left |-> s.left \ {i}, ids |-> IF fits THEN Append(s.ids, i) ELSE s.ids,
           bytes |-> IF fits THEN s.bytes + size ELSE s.bytes]
SamplesIn(sumsFirst) ==
  LET taken[n \in 0..Len(game.entries)] ==
        IF n = 0 THEN [left |-> {i \in DOMAIN game.entries : Usable(game.entries[i])}, ids |-> <<>>, bytes |-> 0]
        ELSE Take(sumsFirst, taken[n - 1])
  IN taken[Len(game.entries)].ids

CxdecSamples == SamplesIn(FALSE)
FilterSamples == SamplesIn(TRUE)

(* probe_x86_filter_path: one explicit plugin, or every module with        *)
(* anything of interest, captured callbacks first.                         *)
Hypotheses(m) == SelectSeq(m.hints, LAMBDA h : h.cb \notin ToSet(m.proven))
Report(i) ==
  LET m == game.modules[i]
      cb == Captured(m)
  IN [mod |-> i, read |-> m.pe, registered |-> cb # NoCallback \/ m.proven # <<>>, hints |-> Hypotheses(m),
      interesting |-> m.pe /\ (m.v2link \/ m.proven # <<>> \/ m.hints # <<>>),
      key |-> <<IF cb # NoCallback THEN 0 ELSE 1, 100 - m.score, i>>]

Reports ==
  LET single == game.explicit # 0 /\ game.modules[game.explicit].dll
      all == {Report(i) : i \in IF single THEN {game.explicit} ELSE DOMAIN game.modules}
  IN SetToSortSeq({r \in all : r.read /\ (single \/ r.interesting)}, LAMBDA r, q : Below(r.key, q.key))

RegisteredNow ==
  LET r == SelectSeq(found.reports, LAMBDA x : x.registered)
  IN [n \in DOMAIN r |-> X86(r[n].mod, NoCallback, FALSE)]

(* All hypotheses of all modules, by kind of evidence, then by score.      *)
HypothesesNow ==
  LET all == UNION {{[mod |-> r.mod, h |-> h] : h \in ToSet(r.hints)} : r \in ToSet(found.reports)}
      key(w) == <<w.h.prio, 100 - w.h.score, w.mod, w.h.cb>>
      s == SetToSortSeq(all, LAMBDA v, w : Below(key(v), key(w)))
  IN [n \in DOMAIN s |-> X86(s[n].mod, s[n].h.cb, TRUE)]

----------------------------------------------------------------------------
(* Validation of one candidate: validate_cxdec_params_on_entries,          *)
(* validate_x86_filter_module_on_entries                                   *)

ModuleOf(c) == game.modules[c.mod]

RuntimeOf(c) ==
  IF c.kind = "cxdec" THEN Ready(NoCallback, Fresh)
  ELSE IF c.forced THEN OpenWithCallback(ModuleOf(c), c.cb) ELSE Open(ModuleOf(c))

Scope(c) ==
  IF phase = "full" THEN Indices
  ELSE IF c.kind = "cxdec" THEN CxdecSamples
  ELSE LET s == FilterSamples
           n == CASE c.k = 1 -> 1 [] c.k = 2 -> Preflight [] OTHER -> Len(s)
       IN SubSeq(s, 1, IF n < Len(s) THEN n ELSE Len(s))

(* What a candidate makes of an encrypted entry.  A wrong filter, and any  *)
(* filter on an entry that has none, leaves neither the checksum nor a     *)
(* format.                                                                 *)
Decodes(c, e) ==
  IF c.kind = "cxdec" THEN Known(game.truth) /\ \A f \in e.senses : c.p[f] = game.truth.params[f]
  ELSE e.senses \subseteq ModuleOf(c).cbs[c.cb].decodes

(* The candidate of a validation, with the callback its runtime has.       *)
Running(j) == IF j.cand.kind = "x86" THEN [j.cand EXCEPT !.cb = j.rt.cb] ELSE j.cand

Applied(j, e) ==
  IF j.cand.kind = "cxdec"
  THEN [ok |-> e.size <= WordLimit, right |-> e.enc /\ Decodes(j.cand, e), rt |-> j.rt]
  ELSE LET a == Apply(ModuleOf(j.cand), j.rt, e.size)
       IN [ok |-> a.ok, right |-> e.enc /\ a.plain /\ Decodes(Running(j), e), rt |-> a.rt]

Count(b) == IF b THEN 1 ELSE 0

(* Bug: a mismatch is counted and the validation goes on.                  *)
JudgeLenient(j, e) ==
  LET a == Applied(j, e)
      sum == e.sum = "adler"
  IN IF ~Usable(e) THEN [j EXCEPT !.left = Tail(@)]
     ELSE [j EXCEPT !.left = Tail(@), !.rt = a.rt, !.verdict = IF ~a.ok THEN "error" ELSE @,
                    !.tested = @ + Count(a.ok /\ sum), !.matches = @ + Count(a.ok /\ sum /\ a.right),
                    !.strong = @ + Count(a.ok /\ a.right /\ e.strong)]

(* One entry of a validation: passed over, or filtered and judged.         *)
Judge(j, e) ==
  LET a == Applied(j, e)
      sum == e.sum = "adler"
  IN IF ~Usable(e) THEN [j EXCEPT !.left = Tail(@)]
     ELSE [j EXCEPT !.left = Tail(@), !.rt = a.rt,
                    !.verdict = IF ~a.ok THEN "error" ELSE IF sum /\ ~a.right THEN "mismatch" ELSE @,
                    !.tested = @ + Count(a.ok /\ sum), !.matches = @ + Count(a.ok /\ sum /\ a.right),
                    !.strong = @ + Count(a.ok /\ a.right /\ e.strong)]

Enough(j) ==
  \/ j.matches >= 2
  \/ j.matches >= 1 /\ j.strong >= 1
  \/ j.tested = 0 /\ j.strong >= 2
Survives(j) == IF j.tested # 0 THEN j.matches = j.tested ELSE j.strong >= 1
Accepted(j) == j.verdict = "open" /\ (IF j.cand.k = 1 THEN Survives(j) ELSE Enough(j))

----------------------------------------------------------------------------
(* The selection *)

Finish(how, c) ==
  /\ route' = "done"
  /\ outcome' = Decided(how, c)
  /\ todo' = <<>> /\ job' = NoJob /\ passing' = <<>>
  /\ UNCHANGED <<game, phase, found>>

Enter(r, p, list) ==
  /\ route' = r /\ phase' = p /\ todo' = list
  /\ UNCHANGED <<game, found, job, outcome>>

EnterX86 == Enter("probe", "sample", <<>>) /\ passing' = <<>>

Init ==
  /\ game \in Games
  /\ route = "start" /\ phase = "sample" /\ todo = <<>> /\ job = NoJob /\ passing = <<>>
  /\ found = [coherent |-> <<>>, generic |-> <<>>, reports |-> <<>>]
  /\ outcome = Decided("pending", NoCandidate)

(* An accepted global key or an HXV4 archive leaves no question; without a *)
(* game and without a module there is nothing to look at.                  *)
NotNeeded ==
  /\ route = "start"
  /\ game.skip \/ (~game.target /\ game.explicit = 0)
  /\ Finish("none", NoCandidate)

Searching == route = "start" /\ ~game.skip

(* An unreadable game directory ends the unpacking, not only the search.   *)
ScanFails ==
  /\ Searching /\ game.target /\ game.broken
  /\ Finish("error", NoCandidate)

(* The parameters the modules give; nothing is tried across modules when   *)
(* one module gives a coherent set.                                        *)
CollectParams ==
  /\ Searching /\ game.target /\ ~game.broken
  /\ \E facts \in {GameFacts(game.modules)} :
       found' = [found EXCEPT !.coherent = Coherent(facts, game.setup), !.generic = Generic(facts, game.setup)]
  /\ route' = "collected"
  /\ UNCHANGED <<game, phase, todo, job, passing, outcome>>

Candidates(params) == [i \in DOMAIN params |-> Cx(params[i])]

StartCoherent ==
  /\ route = "collected" /\ found.coherent # <<>>
  /\ IF CxdecSamples = <<>> THEN Finish("error", NoCandidate)
     ELSE Enter("coherent", "sample", Candidates(found.coherent)) /\ UNCHANGED passing

StartGeneric ==
  /\ route = "collected" /\ found.coherent = <<>> /\ found.generic # <<>>
  /\ Enter("generic", "sample", Candidates(found.generic)) /\ UNCHANGED passing

StartX86 ==
  /\ \/ route = "collected" /\ found.coherent = <<>> /\ found.generic = <<>>
     \/ Searching /\ ~game.target /\ game.explicit # 0
  /\ EnterX86

(* The x86 route needs a module with something to try and a sample.        *)
Probe ==
  /\ route = "probe" /\ found.reports = <<>>
  /\ LET reports == Reports
     IN IF reports = <<>> THEN Finish("none", NoCandidate)
        ELSE found' = [found EXCEPT !.reports = reports] /\ UNCHANGED <<game, route, phase, todo, job, passing, outcome>>

StartRegistered ==
  /\ route = "probe" /\ found.reports # <<>>
  /\ IF FilterSamples = <<>> THEN Finish("none", NoCandidate)
     ELSE Enter("registered", "sample", RegisteredNow) /\ UNCHANGED passing

(* A fresh runtime for each candidate and each phase.                      *)
TryNext ==
  /\ job = NoJob
  /\ \E n \in DOMAIN todo :
       /\ \A m \in DOMAIN todo : n <= m
       /\ LET rt == RuntimeOf(todo[n])
          IN job' = IF ~rt.ok THEN NoJob
                    ELSE [cand |-> todo[n], at |-> n, rt |-> rt, left |-> Scope(todo[n]),
                          tested |-> 0, matches |-> 0, strong |-> 0, verdict |-> "open"]
       /\ todo' = [m \in DOMAIN todo \ {n} |-> todo[m]]
  /\ UNCHANGED <<game, route, phase, found, passing, outcome>>

Working == job # NoJob /\ job.verdict = "open" /\ job.left # <<>>

(* The error of one CxDec candidate ends the whole unpacking.              *)
CheckEntry ==
  /\ Working
  /\ LET j == Judge(job, game.entries[Head(job.left)])
     IN IF j.verdict = "error" /\ job.cand.kind = "cxdec" THEN Finish("error", NoCandidate)
        ELSE job' = j /\ UNCHANGED <<game, route, phase, found, todo, passing, outcome>>

(* The end of a validation.  A hypothesis goes through three stages; the   *)
(* first that gets through all ends the search for others.                 *)
EndCandidate ==
  /\ job # NoJob /\ (job.left = <<>> \/ job.verdict # "open")
  /\ job' = NoJob
  /\ LET c == job.cand
         staged == route = "hypotheses" /\ phase = "sample"
     IN CASE ~Accepted(job) -> UNCHANGED <<todo, passing>>
          [] Accepted(job) /\ staged /\ c.k < 3 ->
               /\ todo' = [m \in DOMAIN todo \cup {job.at} |-> IF m = job.at THEN [c EXCEPT !.k = @ + 1] ELSE todo[m]]
               /\ UNCHANGED passing
          [] OTHER -> /\ passing' = Append(passing, Running(job))
                      /\ todo' = IF staged THEN <<>> ELSE todo
  /\ UNCHANGED <<game, route, phase, found, outcome>>

ListDone == job = NoJob /\ DOMAIN todo = {}
IsCxdec == route \in {"coherent", "generic"}

(* Bug: the first of several survivors is taken.                           *)
ConcludeCxdecFirst ==
  /\ IsCxdec /\ ListDone
  /\ IF phase = "sample" /\ passing # <<>> THEN Enter(route, "full", passing) /\ passing' = <<>>
     ELSE IF passing # <<>> THEN Finish("selected", passing[1])
     ELSE IF route = "coherent" THEN Finish("error", NoCandidate)
     ELSE EnterX86

(* The survivors of the samples are validated over the whole archive;      *)
(* exactly one must be left.  The coherent route fails otherwise, the      *)
(* generic one gives way to x86.                                           *)
ConcludeCxdec ==
  /\ IsCxdec /\ ListDone
  /\ IF phase = "sample" /\ passing # <<>> THEN Enter(route, "full", passing) /\ passing' = <<>>
     ELSE IF Len(passing) = 1 THEN Finish("selected", passing[1])
     ELSE IF route = "coherent" THEN Finish("error", NoCandidate)
     ELSE EnterX86

EndRegistered ==
  /\ route = "registered" /\ ListDone
  /\ Enter("hypotheses", "sample", HypothesesNow) /\ UNCHANGED passing

(* One survivor is selected as it is; several are validated over the whole *)
(* archive.                                                                *)
ConcludeX86 ==
  /\ route = "hypotheses" /\ ListDone
  /\ CASE Len(passing) = 1 -> Finish("selected", passing[1])
       [] Len(passing) > 1 /\ phase = "sample" -> Enter("hypotheses", "full", passing) /\ passing' = <<>>
       [] OTHER -> Finish("none", NoCandidate)

Next ==
  \/ NotNeeded \/ ScanFails \/ StartCoherent \/ StartGeneric \/ StartX86
  \/ CollectParams \/ Probe \/ StartRegistered
  \/ TryNext \/ CheckEntry \/ EndCandidate
  \/ ConcludeCxdec \/ EndRegistered \/ ConcludeX86

Spec == Init /\ [][Next]_vars

----------------------------------------------------------------------------
(* Properties *)

Selected == outcome.how = "selected"
Proper(e) == e.real /\ e.readable /\ e.enc /\ e.sum = "adler"

(* A selected engine reproduces the checksum of what it was judged on:     *)
(* CxDec parameters of every encrypted entry of the archive, a callback of *)
(* every sample.                                                           *)
SelectedFits ==
  Selected =>
    \A i \in DOMAIN game.entries :
      /\ outcome.cand.kind = "cxdec" \/ i \in ToSet(FilterSamples)
      /\ Proper(game.entries[i])
      => Decodes(outcome.cand, game.entries[i])

Tried == IF found.coherent # <<>> THEN found.coherent ELSE found.generic
FitsAll(p) == \A i \in DOMAIN game.entries : Usable(game.entries[i]) /\ game.entries[i].enc => Decodes(Cx(p), game.entries[i])

(* Parameters are selected only if no other candidate of their list fits   *)
(* the archive as well: an ambiguous recovery selects nothing.             *)
OnlyOneFits ==
  Selected /\ outcome.cand.kind = "cxdec" =>
    \A q \in ToSet(Tried) : q = outcome.cand.p \/ ~FitsAll(q)

(* What the images a module can be seen in were built with, as a set of    *)
(* <<field, value>>: the stored one, and what its own code makes of it.    *)
Visible(m) ==
  m.stored.shows \cup (IF m.decodes /\ "clear" \in ToSet(Snapshots(m)) THEN m.hidden.shows ELSE {})
Shown ==
  UNION {Visible(m) \cup UNION {Visible(m.embedded[j]) : j \in DOMAIN m.embedded} : m \in ToSet(game.modules)}
    \cup {<<"mo", mo>> : mo \in game.setup.mo} \cup {<<"ctl", c>> : c \in game.setup.ctl}
Exposed(p) ==
  /\ \A f \in {"mo", "ord", "ctl", "gen"} : <<f, p[f]>> \in Shown
  /\ p.wrap => <<"wrap", TRUE>> \in Shown

(* The parameters of the archive are found when the modules of the game    *)
(* give them coherently, or when every field of them was compiled into an  *)
(* image of some module, stored or initialised, in any of the forms the    *)
(* scanners know and next to code that resembles them; no other candidate  *)
(* may fit, nothing be over a limit, and at least two checksummed entries  *)
(* must be small enough to be samples.                                     *)
RightParamsAreFound ==
  LET p == game.truth.params
  IN /\ route = "done" /\ ~game.skip /\ game.target /\ ~game.broken
     /\ Known(game.truth) /\ (p \in ToSet(found.coherent) \/ (found.coherent = <<>> /\ Exposed(p)))
     /\ Len(found.generic) < MaxCombinations
     /\ \A i \in DOMAIN game.entries : game.entries[i].size <= WordLimit
     /\ \A i \in DOMAIN game.entries : Usable(game.entries[i]) => game.entries[i].enc
     /\ Cardinality({i \in ToSet(CxdecSamples) : game.entries[i].sum = "adler"}) >= 2
     /\ \A q \in ToSet(Tried) : q # p => ~FitsAll(q)
     => outcome = Decided("selected", Cx(p))

=============================================================================
