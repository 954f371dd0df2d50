--------------------------- MODULE MCEngineSelect ---------------------------
(***************************************************************************)
(* Games for EngineSelect: modules that show CxDec parameters in their     *)
(* stored or initialised images, modules with callbacks proven, captured   *)
(* or merely guessed, and archives whose entries depend on more or fewer   *)
(* of the parameters.                                                      *)
(***************************************************************************)
EXTENDS ContentFilter

Entry(sum, enc, strong, size, senses) ==
  [sum |-> sum, enc |-> enc, strong |-> strong, real |-> TRUE, readable |-> TRUE, size |-> size, senses |-> senses]

All == {"mo", "ord", "ctl", "gen", "wrap"}

(* Two small samples, a larger entry beyond the samples, plain ones.       *)
MCArchives == {
  <<Entry("adler", TRUE, TRUE, 1, All), Entry("adler", TRUE, FALSE, 2, All), Entry("adler", FALSE, TRUE, 1, {})>>,
  <<Entry("adler", TRUE, TRUE, 1, {"mo"}), Entry("adler", TRUE, FALSE, 2, {"ord"}), Entry("adler", TRUE, TRUE, 6, All)>>,
  <<Entry("adler", TRUE, TRUE, 1, {"mo"}), Entry("adler", TRUE, FALSE, 2, {"ord"}), Entry("adler", TRUE, TRUE, 3, {"gen"})>>,
  <<Entry("alternate", TRUE, TRUE, 1, All), Entry("alternate", TRUE, TRUE, 2, {"mo"}),
    [Entry("adler", TRUE, TRUE, 1, All) EXCEPT !.readable = FALSE]>>,
  <<Entry("alternate", FALSE, FALSE, 1, {}), Entry("adler", TRUE, TRUE, 2, {"mo"}), Entry("adler", TRUE, FALSE, 9, All)>>,
  <<Entry("adler", TRUE, TRUE, 1, {"mo"}), Entry("adler", TRUE, FALSE, 1, {"mo"}), Entry("adler", TRUE, TRUE, 2, {"wrap"}),
    [Entry("adler", TRUE, TRUE, 1, All) EXCEPT !.real = FALSE]>>,
  <<Entry("none", TRUE, TRUE, 1, All), Entry("adler", FALSE, FALSE, 1, {})>> }

(* Parameters. *)
Mo(n) == <<n, n + 4>>
OrdA == <<0, 1, 2>> \o <<0, 1, 2, 3, 4, 5, 6, 7>> \o <<0, 1, 2, 3, 4, 5>>
OrdB == FixedOrder
MCReferenceKeys == Mo(2)

(* The code that implements them. *)
Case(own) == [own |-> own, tails |-> <<>>]
PrologCase(s) == Case(<<{"b8"}, {"8b", "c7"}, {"be", "86"}>>[s + 1])
EvenCase(s) ==
  IF s = 2 THEN [own |-> {"f7"}, tails |-> <<{"01"}, {"d8"}>>]
  ELSE Case(<<{"f7", "d0"}, {"48"}, {}, {"40"}, {"3ff", "be"}, {"aaaaaaaa", "55555555"}, {"35"}, {"05"}>>[s + 1])
OddCase(s) == Case(<<{"d3", "e8"}, {"d3", "e0"}, {"01", "d8"}, {"f7", "d8", "01"}, {"0f", "af", "c3"}, {"29", "d8"}>>[s + 1])

Selector(role, form, at, targets) == [kind |-> "selector", role |-> role, form |-> form, at |-> at, targets |-> targets]
Switches(form, at, ord) ==
  <<Selector("prolog", form, at, [n \in 1..3 |-> PrologCase(ord[n])]),
    Selector("even", "table", at + 1, [n \in 1..8 |-> EvenCase(ord[n + 3])]),
    Selector("odd", "table", at + 2, [n \in 1..6 |-> OddCase(ord[n + 11])])>>
OtherSwitch(at) == <<Selector("prolog", "table", at, [n \in 1..3 |-> PrologCase(0)])>>

Keys(form, at, mo) == [kind |-> "boundary", form |-> form, at |-> at, mask |-> mo[1], offset |-> mo[2]]
Descriptor(at, mo, builder, xrefs) ==
  [at |-> at, key0 |-> mo[1], key1 |-> mo[2], builder |-> builder, xrefs |-> xrefs, decc |-> FALSE, name |-> "null"]
ManagerCode(at, builder, control) == [kind |-> "manager", at |-> at, builder |-> builder, complement |-> TRUE, control |-> control]
Pointer(at, to) == [kind |-> "pointer", at |-> at, to |-> to]
Seed(form, at, v, call) == [kind |-> "seed", form |-> form, at |-> at, value |-> v, call |-> call, to |-> 300]
Prng(at) == [kind |-> "cabbage", at |-> at, state |-> {300}]
Prefix(at) == [kind |-> "riddle", at |-> at]

Block(at, b) == [at |-> at, block |-> b, like |-> TRUE, sig |-> FALSE, exec |-> FALSE, points |-> 0]
SignedBlock(at, b) == [Block(at, b) EXCEPT !.sig = TRUE]
Cell(at, to) == [Block(at, 0) EXCEPT !.like = FALSE, !.points = to]

Image == [recognized |-> TRUE, i386 |-> TRUE, lcg |-> {}, v2link |-> FALSE, setup |-> FALSE, text |-> <<10, 100>>, descs |-> <<>>,
          code |-> <<>>, data |-> {}, layers |-> <<>>, immediates |-> {}, shows |-> {}]
Lcg == {"mul", "add"}
ShowsOrd(S) == {<<"ord", o>> : o \in S}
ShowsClassic == {<<"gen", Classic>>}

Module == [pe |-> TRUE, clash |-> FALSE, dll |-> TRUE, v2link |-> FALSE, marks |-> "none", attach |-> <<>>, link |-> <<>>,
           proven |-> <<>>, hints |-> <<>>, cbs |-> <<>>, score |-> 0, stored |-> Image, decodes |-> FALSE, hidden |-> Image,
           embedded |-> <<>>]
Stores(image) == [Module EXCEPT !.stored = image]

Query == [api |-> "QueryFunctions", names |-> {"filter"}]
Set(cb) == [api |-> "SetFilter", cb |-> cb]
Op(a) == [api |-> a]

Cb(d) == [decodes |-> d, tables |-> FALSE, cost |-> 1, once |-> FALSE, bad |-> FALSE]
Linked(link, cbs) == [Module EXCEPT !.v2link = TRUE, !.link = link, !.cbs = cbs]
Hint(cb, prio, score) == [cb |-> cb, prio |-> prio, score |-> score]

(* Modules that show parameters. *)
FullImage == [Image EXCEPT
  !.descs = <<Descriptor(40, Mo(2), 300, 3), Descriptor(44, <<0, 3>>, 20, 3), Descriptor(48, Mo(1), 20, 2), Descriptor(52, Mo(3), 20, 1)>>,
  !.lcg = Lcg, !.data = {SignedBlock(204, 1), [Block(208, 2) EXCEPT !.like = FALSE]},
  !.code = OtherSwitch(21) \o Switches("table", 22, OrdA) \o Switches("table", 30, OrdB) \o Switches("table", 60, OrdB),
  !.shows = {<<"mo", Mo(1)>>, <<"ctl", 1>>} \cup ShowsOrd({OrdA, OrdB}) \cup ShowsClassic]
Full == Stores(FullImage)
Mask(n) == Stores([Image EXCEPT !.code = <<Keys("object", 9, <<0, 1>>), Keys("object", 10, Mo(n)), Keys("direct", 12, Mo(3))>>,
                               !.shows = {<<"mo", Mo(n)>>}])
Coded == [Image EXCEPT !.v2link = TRUE, !.data = {SignedBlock(204, 1)}, !.shows = {<<"ctl", 1>>}, !.immediates = {5}]
Packed == [Linked(<<Op("Unpack"), Query, Set(1)>>, <<Cb(All)>>)
           EXCEPT !.stored = Coded, !.decodes = TRUE,
                  !.hidden = [Image EXCEPT !.lcg = Lcg, !.v2link = TRUE, !.data = {Block(216, 3), Block(220, 1), Cell(224, 220)},
                    !.code = <<ManagerCode(50, 54, 216), ManagerCode(51, 54, 216), Keys("object", 60, Mo(1)), Pointer(55, 224)>>
                               \o Switches("branch", 56, OrdA),
                    !.shows = {<<"mo", Mo(1)>>, <<"ctl", 1>>} \cup ShowsOrd({OrdA}) \cup ShowsClassic]]
Layered == [Linked(<<Op("Unpack"), Op("Fault")>>, <<>>)
            EXCEPT !.stored = [Coded EXCEPT !.layers = <<[writable |-> FALSE, seed |-> 4, image |-> [Image EXCEPT !.lcg = Lcg]],
                               [writable |-> TRUE, seed |-> 5, image |-> [Coded EXCEPT !.lcg = Lcg, !.code = <<Keys("direct", 9, Mo(2))>>]]>>],
                   !.decodes = TRUE,
                   !.hidden = [Image EXCEPT !.lcg = Lcg, !.data = {Block(216, 1)}, !.v2link = TRUE,
                     !.code = <<ManagerCode(50, 54, 216), Keys("direct", 60, Mo(2))>> \o Switches("branch", 56, OrdB),
                     !.shows = {<<"mo", Mo(2)>>, <<"ctl", 1>>} \cup ShowsOrd({OrdB}) \cup ShowsClassic]]
Runtime == Stores([Image EXCEPT !.setup = TRUE,
             !.code = <<Prng(40), Prefix(70), Seed("operand", 41, 7, FALSE), Seed("operand", 38, 9, FALSE), Seed("operand", 42, 6, TRUE),
                        Seed("object", 46, 8, TRUE)>> \o Switches("branch", 44, OrdA),
             !.shows = {<<"gen", Cabbage(8)>>, <<"wrap", TRUE>>} \cup ShowsOrd({OrdA})])
Riddle == Stores([FullImage EXCEPT !.code = Switches("table", 22, OrdA) \o <<Prefix(70)>>,
                                   !.shows = {<<"mo", Mo(1)>>, <<"ctl", 1>>, <<"wrap", TRUE>>} \cup ShowsOrd({OrdA}) \cup ShowsClassic])
Outer == [Stores([Image EXCEPT !.code = <<Prng(40), Seed("store", 90, 7, FALSE)>>, !.shows = {<<"gen", Cabbage(7)>>}])
          EXCEPT !.embedded = <<Full>>]

(* Modules with callbacks. *)
Capture == Linked(<<Query, Op("InitTables"), Set(1)>>, <<[Cb(All) EXCEPT !.tables = TRUE]>>)
Doubled == [Capture EXCEPT !.hints = <<Hint(1, 0, 20)>>]
Guarded == [Linked(<<Op("Verify"), Query, Set(1)>>, <<[Cb(All) EXCEPT !.once = TRUE]>>) EXCEPT !.marks = "guarded"]
NoGuard == [Guarded EXCEPT !.marks = "noguard", !.proven = <<2>>, !.cbs = <<Cb(All), Cb({"mo"})>>]
Guessed == [Module EXCEPT !.hints = <<Hint(1, 3, 30), Hint(2, 1, 10), Hint(3, 1, 20)>>, !.attach = <<Op("InitTables")>>,
                          !.cbs = <<[Cb(All) EXCEPT !.tables = TRUE], [Cb({"mo"}) EXCEPT !.cost = 2], [Cb({"mo", "ord"}) EXCEPT !.bad = TRUE]>>]
Proven == [Module EXCEPT !.proven = <<1>>, !.hints = <<Hint(1, 0, 9), Hint(2, 0, 8)>>, !.cbs = <<Cb({"mo", "ord"}), Cb(All)>>, !.score = 5]
Exe == [Module EXCEPT !.dll = FALSE, !.hints = <<Hint(1, 2, 5)>>, !.cbs = <<Cb(All)>>, !.attach = <<Op("OtherExport")>>]
Broken == [Module EXCEPT !.pe = FALSE]
Clash == [Proven EXCEPT !.clash = TRUE]

MCModules == {
  <<Full>>, <<Mask(1), Mask(2), Packed>>, <<Mask(1), Layered>>, <<Packed, Capture>>, <<Riddle>>, <<Outer, Mask(2)>>,
  <<Runtime, Capture>>, <<Capture>>, <<Doubled>>, <<Guarded, Guessed>>, <<NoGuard, Exe>>, <<Guessed, Proven>>, <<Proven, Capture>>,
  <<Broken, Clash>> }

MCSetups == {[ctl |-> {}, mo |-> {}], [ctl |-> {1}, mo |-> {Mo(1)}]}
Truth(p) == [recognized |-> TRUE, params |-> p]
MCTruths == {Nothing, Truth(Params(Mo(1), OrdA, 1, Classic, FALSE)), Truth(Params(Mo(1), OrdB, 1, Classic, TRUE)),
             Truth(Params(Mo(1), OrdB, 1, Classic, FALSE)), Truth(Params(Mo(2), OrdB, 1, Classic, FALSE)),
             Truth(Params(Mo(1), OrdA, 1, Cabbage(8), TRUE)), Truth(Params(Mo(2), OrdA, 1, Cabbage(7), FALSE))}

Game(e, m, s, t) ==
  [skip |-> FALSE, target |-> TRUE, broken |-> FALSE, explicit |-> 0, modules |-> m, setup |-> s, truth |-> t, entries |-> e]

(* Initialisations of three calls of the allocator. *)
MCOps == {[api |-> "HeapAlloc", n |-> 1], [api |-> "HeapAlloc", n |-> 3], [api |-> "VirtualAlloc", at |-> 2, n |-> 3],
          [api |-> "VirtualAlloc", at |-> 6, n |-> 5], [api |-> "VirtualFree", i |-> 1], [api |-> "VirtualAlloc", at |-> 99, n |-> 2],
          [api |-> "HeapReAlloc", i |-> 1, n |-> 4],
          [api |-> "TlsAlloc"], [api |-> "TlsFree", i |-> 1]}
Small == <<Entry("adler", TRUE, TRUE, 1, All), Entry("adler", TRUE, FALSE, 2, All)>>
Nowhere == [ctl |-> {}, mo |-> {}]

(* Calls that end an initialisation or change nothing the filter needs.    *)
MCEnds == {<<Op("CreateFile"), Op("ReadFile"), Op("CloseHandle"), Op("ReadFile")>>, <<Op("Fault")>>, <<Op("Throw")>>, <<Op("Exit")>>,
           <<[api |-> "HeapFree", i |-> 9, cost |-> 20]>>}

----------------------------------------------------------------------------
(* Engines built and applied, and builders studied. *)

MCControl(i) == Times(i, 40503)

Reading(p) == Game(Small, <<Stores([FullImage EXCEPT !.code = Switches("table", 22, p.ord), !.descs = <<Descriptor(48, p.mo, 20, 2)>>,
                                                     !.shows = {<<"mo", p.mo>>, <<"ctl", 1>>} \cup ShowsOrd({p.ord}) \cup ShowsClassic])>>,
                   Nowhere, Truth(p))
ClassicParams == Params(Mo(1), OrdB, 1, Classic, FALSE)
HxGame == [Game(Small, <<Capture>>, Nowhere, Nothing) EXCEPT !.skip = TRUE]
MCFiltered == {Reading(ClassicParams), HxGame}
MCHxOrders == {Params(Mo(1), OrdA, 1, Cabbage(1234567), TRUE)}

Order0 == <<1, 0, 2>> \o <<6, 2, 7, 0, 5, 3, 1, 4>> \o <<5, 1, 3, 0, 4, 2>>
SamePrologs == SubSeq(Order0, 1, 3) \o <<0, 1, 2, 3, 4, 5, 6, 7>> \o SubSeq(Order0, 12, 17)
MCBuilders == {[p |-> Params(Mo(1), Order0, 1, Classic, FALSE), others |-> o] :
                 o \in {<<>>, <<Nothing, ClassicParams>>, <<Params(Mo(1), SamePrologs, 1, Classic, FALSE)>>}}
              \cup {[p |-> Params(Mo(1), OrdB, 1, Cabbage(7), FALSE), others |-> <<>>]}

MCHashes == {1234567, 268435451}

MCGames ==
  MCFiltered \cup
  {Game(e, m, s, t) : e \in MCArchives, m \in MCModules, s \in MCSetups, t \in MCTruths}
  \cup {Game(Small, <<[Capture EXCEPT !.attach = <<a, b, c>>]>>, Nowhere, Nothing) : a, b, c \in MCOps}
  \cup {Game(Small, <<[x EXCEPT !.attach = a]>>, Nowhere, Nothing) : a \in MCEnds, x \in {Capture, Proven, Guessed}}
  \cup {[Game(e, m, Nowhere, Nothing) EXCEPT !.target = FALSE, !.explicit = i] : e \in MCArchives, i \in 0..2, m \in {<<NoGuard, Exe>>, <<Guessed, Proven>>}}
  \cup {[Game(e, <<Capture>>, Nowhere, Nothing) EXCEPT !.skip = TRUE] : e \in MCArchives}
  \cup {[Game(e, <<Capture>>, Nowhere, Nothing) EXCEPT !.broken = TRUE] : e \in MCArchives}
=============================================================================
