---------------------------- MODULE CxdecParams ----------------------------
(***************************************************************************)
(* Parameters of the classic and Cabbage CxDec families, recovered from    *)
(* the PE modules of a game (legacy_cxdec.rs).  A set of parameters is     *)
(* [mo, ord, ctl, gen, wrap]: mask and offset, dispatch orders, control    *)
(* block, generator and content wrapper.  A module is a record of          *)
(* X86Runtime with, in addition, the image as `stored`, what its own code  *)
(* makes of it (`hidden`, or Nothing), and the embedded PE modules, as a   *)
(* sequence.                                                               *)
(***************************************************************************)
EXTENDS X86Runtime, CxdecFacts

CONSTANT MaxCombinations, \* MAX_COMBINATIONS of the generic product
         SeedWindow       \* seeds of a module the coherent route tries

ASSUME ParamsAssumption == MaxCombinations \in Nat \ {0} /\ SeedWindow \in Nat

----------------------------------------------------------------------------
(* Facts of one module *)

(* needs_runtime_cxdec_initialization *)
NeedsInitialization(fact) ==
  /\ fact.v2link /\ fact.ctl # {}
  /\ ~fact.classic \/ fact.mo = {} \/ fact.disp = <<>>

(* runtime_fact_improves_static *)
Improves(old, new) ==
  \/ ~old.classic /\ new.classic
  \/ old.mo = {} /\ new.mo # {}
  \/ old.disp = <<>> /\ new.disp # <<>>
  \/ ~old.cabbage /\ new.cabbage
  \/ ~old.riddle /\ new.riddle

Better(facts, new) == IF Known(new) /\ Improves(Last(facts), new) THEN Append(facts, new) ELSE facts

(* Bug: the initialisation runs only if the static layer gave nothing.     *)
ModuleFactsStatic(m) ==
  With(FactOf(m.stored), LAMBDA f :
    IF ~Known(f) THEN <<>>
    ELSE IF ~NeedsInitialization(f) THEN <<f>>
    ELSE FoldLeft(LAMBDA s, l : Better(s, FactOf(l.image)), <<f>>, Unfolded(m.stored)))

(* The facts of an image: as stored, then of the unfolded image, then of   *)
(* the initialised ones, each kept when it improves on the best before.    *)
ModuleFacts(m) ==
  With(FactOf(m.stored), LAMBDA f :
    IF ~Known(f) THEN <<>>
    ELSE IF ~NeedsInitialization(f) THEN <<f>>
    ELSE With(FoldLeft(LAMBDA s, l : Better(s, FactOf(l.image)), <<f>>, Unfolded(m.stored)), LAMBDA fs :
           IF ~NeedsInitialization(Last(fs)) THEN fs
           ELSE FoldLeft(LAMBDA s, image : IF image = "clear" /\ m.decodes THEN Better(s, FactOf(m.hidden)) ELSE s,
                         fs, Snapshots(m))))

(* collect_game_module_param_facts: each module, then what it embeds       *)
GameFacts(modules) ==
  FlattenSeq([i \in DOMAIN modules |->
    FlattenSeq([j \in 1..Len(modules[i].embedded) + 1 |->
      ModuleFacts((<<modules[i]>> \o modules[i].embedded)[j])])])

----------------------------------------------------------------------------
(* Candidates.  `setup` holds what Storages.setupArchiveData generates:    *)
(* at most one control block and one mask and offset.                      *)

Params(mo, ord, ctl, gen, wrap) == [mo |-> mo, ord |-> ord, ctl |-> ctl, gen |-> gen, wrap |-> wrap]
Cabbage(seed) == <<"cabbage", seed>>
Classic == <<"classic">>

(* One PE has the three anchors: nothing is taken from another module.     *)
IsCoherent(fact) == fact.setup /\ fact.cabbage /\ fact.riddle /\ fact.disp # <<>> /\ fact.seeds # <<>>

Distinct(s) == SelectSeq([i \in DOMAIN s |-> [v |-> s[i], new |-> \A j \in 1..i-1 : s[j] # s[i]]], LAMBDA r : r.new)
Values(s) == [i \in DOMAIN s |-> s[i].v]

Coherent(facts, setup) ==
  LET own(f) == FlattenSeq([d \in DOMAIN f.disp |->
                  [k \in DOMAIN Upto(f.seeds, SeedWindow) |->
                     Params(CHOOSE mo \in setup.mo : TRUE, f.disp[d].ord, CHOOSE c \in setup.ctl : TRUE,
                            Cabbage(f.seeds[k]), TRUE)]])
  IN IF setup.ctl = {} \/ setup.mo = {} THEN <<>>
     ELSE Values(Distinct(FlattenSeq([i \in DOMAIN facts |-> IF IsCoherent(facts[i]) THEN own(facts[i]) ELSE <<>>])))

(* The fields each module has, put together: every combination, in this    *)
(* order, up to the limit.                                                 *)
MaskOffsets(facts, setup) == UNION {facts[i].mo : i \in DOMAIN facts} \cup setup.mo
Controls(facts, setup) == UNION {facts[i].ctl : i \in DOMAIN facts} \cup setup.ctl

(* The orders of all modules, the nearest occurrence of each; of equal     *)
(* distances the earlier module's comes first.                             *)
Dispatches(facts) ==
  UNION {{[ord |-> facts[i].disp[d].ord, key |-> <<facts[i].disp[d].dist, i>>] : d \in DOMAIN facts[i].disp} : i \in DOMAIN facts}
Orders(facts) ==
  LET best == {d \in Dispatches(facts) : \A e \in Dispatches(facts) : e.ord = d.ord => ~Below(e.key, d.key)}
      all == FoldSet(LAMBDA d, s : Append(s, d), <<>>, best)
  IN SortSeq(all, LAMBDA a, b : Below(a.key \o a.ord, b.key \o b.ord))
Generators(facts) ==
  (IF \E i \in DOMAIN facts : facts[i].classic THEN <<Classic>> ELSE <<>>)
  \o (IF \E i \in DOMAIN facts : facts[i].cabbage
      THEN LET all == UNION {ToSet(facts[i].seeds) : i \in DOMAIN facts}
               s == SetToSortSeq(all, <) IN [k \in DOMAIN s |-> Cabbage(s[k])]
      ELSE <<>>)
Wrappers(facts) == IF \E i \in DOMAIN facts : facts[i].riddle THEN <<FALSE, TRUE>> ELSE <<FALSE>>

Product(facts, setup) ==
  LET mos == SetToSortSeq(MaskOffsets(facts, setup), Below)
      ctls == SetToSortSeq(Controls(facts, setup), <)
      ords == Orders(facts)
      gens == Generators(facts)
      wraps == Wrappers(facts)
  IN FlattenSeq([a \in DOMAIN mos |-> FlattenSeq([b \in DOMAIN ctls |-> FlattenSeq([c \in DOMAIN ords |->
       FlattenSeq([d \in DOMAIN gens |-> [e \in DOMAIN wraps |->
         Params(mos[a], ords[c].ord, ctls[b], gens[d], wraps[e])]])])])])

(* Bug: a field of the product is taken from the first module only.        *)
GenericOneOrder(facts, setup) ==
  SelectSeq(Product(facts, setup), LAMBDA p : p.ord = Orders(facts)[1].ord)

Generic(facts, setup) ==
  LET all == Product(facts, setup)
  IN SubSeq(all, 1, IF Len(all) < MaxCombinations THEN Len(all) ELSE MaxCombinations)

=============================================================================
