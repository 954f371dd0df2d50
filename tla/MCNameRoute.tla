--------------------------- MODULE MCNameRoute -----------------------------
(* Small archives for NameRoute: what tables look like, what hides them,   *)
(* what else a game has; the HXV4 games are in MCHxGames.                  *)
EXTENDS NameRoute

Entry(n, vis, hash) == [name |-> n, vis |-> vis, hash |-> hash, chars |-> 1, dummy |-> FALSE]
Warning == [name |-> "w", vis |-> Plain("w"), hash |-> 9, chars |-> 9, dummy |-> TRUE]
TwoFiles == <<Entry("a", Plain("x1"), 1), Entry("b", Plain("x2"), 2)>>
WithWarning == <<Warning>> \o TwoFiles
NoHashes == <<Entry("a", Plain("x1"), 0), Entry("b", Plain("x2"), 0)>>

Rec(n, h) == [name |-> n, hash |-> h, chars |-> 1, warn |-> FALSE]
RecWarn == [name |-> "w", hash |-> 9, chars |-> 9, warn |-> TRUE]
Chunk(t, r) == [tag |-> t, rec |-> r]
ChunkPool == {Chunk("t", Rec("a", 1)), Chunk("t", Rec("b", 2)), Chunk("t", RecWarn), Chunk("t", NoRec),
              Chunk("u", NoRec), Chunk("u", Rec("b", 2))}

Stream(cs) == [form |-> "m2", chunks |-> cs, names |-> <<>>, len |-> Len(cs), far |-> FALSE, stray |-> FALSE, nul |-> TRUE]
Table(form, ns) == [Stream(<<>>) EXCEPT !.form = form, !.names = ns, !.len = 9]
Good == Stream(<<Chunk("t", Rec("a", 1)), Chunk("t", Rec("b", 2))>>)

Whole(p) == [period |-> p, scope |-> "whole", key |-> "k"]
Prefix(p) == [period |-> p, scope |-> "prefix100", key |-> "k"]
Native == [period |-> 9999, scope |-> "native", key |-> <<"c", "s">>]

SpecialRoot(wrap, cipher, size, modal, plain) ==
  [special |-> TRUE, stored |-> TRUE, wrap |-> wrap, cipher |-> cipher, size |-> size, modal |-> modal, plain |-> plain,
   tag |-> "yuz:", product |-> "none"]

NoFacts == [controls |-> {}, seeds |-> {}, fixed |-> {}, tables |-> {}]
Case(es, roots) ==
  [entries |-> es, roots |-> roots, hxv4 |-> FALSE, exe |-> FALSE, early |-> FALSE, key |-> NoKey, period |-> 64,
   generator |-> FALSE, bootstrap |-> FALSE, startups |-> <<>>, scripts |-> <<>>, facts |-> NoFacts]

(* Every short stream against every index. *)
Streams ==
  {Case(es, <<SpecialRoot("zlib", NoCipher, "right", {}, Stream(cs))>>) :
     es \in {TwoFiles, WithWarning, NoHashes}, cs \in UNION {[1 .. n -> ChunkPool] : n \in 2 .. 4}}

(* Every wrapper and cipher, for two roots of one archive. *)
Wraps == {SpecialRoot(w, c, z, m, p) : w \in {"raw", "zlib"}, c \in {NoCipher, Whole(2), Whole(64), Prefix(2)},
            z \in {"right", "wrong"}, m \in {{}, {64}}, p \in {Good, Table("file", <<"c", "a", "b">>)}}
Others == {SpecialRoot("zlib", NoCipher, "right", {}, Table("u16", <<"a", "b">>)), SpecialRoot("gzip", Whole(2), "none", {2}, Good),
           [SpecialRoot("raw", NoCipher, "none", {}, Good) EXCEPT !.stored = FALSE],
           SpecialRoot("raw", NoCipher, "none", {}, [Good EXCEPT !.far = TRUE, !.form = "m2"])}
Wrapped ==
  {[Case(TwoFiles, <<r, o>>) EXCEPT !.key = k, !.period = p] :
     r \in Wraps, o \in Others, p \in {0, 3, 64},
     k \in {NoKey, [key |-> "k", scope |-> "whole"], [key |-> "k", scope |-> "prefix100"]}}

(* Names that are tokens, records under two tags, files of one content. *)
Visibles == {Plain("a"), Plain("v"), Token("a", "yuz:"), Token("b", "yuz:"), Token("a", "none"), [kind |-> "shortcut", of |-> "$", salt |-> ""]}
TokenEntries == {<<Entry("a", u, h), Entry("b", v, g), Entry("c", Token("c", "yuz:"), 2)>> :
                   u \in Visibles \ {Token("b", "yuz:")}, v \in {Plain("v"), Token("b", "yuz:"), Token("b", "none")}, h \in {0, 1, 2}, g \in {1, 2}}
MapRecords(es) == {Stream([i \in DOMAIN f |-> Chunk(t[i], Rec(es[f[i]].name, es[f[i]].hash))]) :
                     f \in {<<1, 2, 3>>, <<2, 1, 3>>, <<3, 1>>, <<2, 1>>, <<2, 3>>, <<1>>}, t \in {<<"t", "t", "t">>, <<"t", "u", "u">>, <<"u", "t", "t">>}}
Tokens(es) ==
  {[Case(es, <<SpecialRoot("zlib", c, "right", {}, p)>>) EXCEPT !.exe = TRUE, !.early = c = NoCipher,
      !.facts = [NoFacts EXCEPT !.fixed = {<<"c", "s">>}]] :
     p \in MapRecords(es), c \in {NoCipher, Native}}

(* Scripts that lead to scripts, and parameters in modules. *)
Call(p, f) == [params |-> p, file |-> f]
Right == <<"c", "s">>
Wrong == <<"c", "x">>
Script(ok, tjs2, calls, loads) == [ok |-> ok, tjs2 |-> tjs2, calls |-> calls, loads |-> loads]
MapTable == Stream(<<Chunk("t", Rec("b", 2)), Chunk("t", Rec("a", 1))>>)
Scripts ==
  {[Case(es, <<SpecialRoot("zlib", Native, z, {}, MapTable)>>) EXCEPT !.exe = TRUE, !.early = FALSE, !.generator = g,
      !.bootstrap = b, !.startups = s, !.facts = fs,
      !.scripts = <<Script(TRUE, x, {Call(Wrong, 3)}, {2}), Script(ok, y, {Call(Wrong, 0), Call(Wrong, 4)}, {1, 3}),
                    Script(TRUE, TRUE, {}, {4, 5}), Script(TRUE, FALSE, {Call(v, 0)}, {}), Script(TRUE, TRUE, {}, {1})>>] :
     es \in {TwoFiles}, z \in {"right", "wrong"}, g \in BOOLEAN, b \in BOOLEAN, s \in {<<1>>, <<1, 2>>, <<3>>},
     x \in BOOLEAN, y \in BOOLEAN, ok \in BOOLEAN, v \in {Right, Wrong},
     fs \in {NoFacts, [NoFacts EXCEPT !.controls = {"c"}], [NoFacts EXCEPT !.seeds = {"s", "x"}, !.tables = {"c"}],
             [NoFacts EXCEPT !.fixed = {Wrong}, !.controls = {"d"}]}}

MCCases == {Streams, Wrapped, Scripts, {[Case(TwoFiles, r) EXCEPT !.hxv4 = h] : h \in BOOLEAN, r \in {<<>>, <<SpecialRoot("zlib", Native, "right", {}, Good)>>}}}
           \cup {Tokens(es) : es \in TokenEntries}
HxData == INSTANCE MCHxGames
MCHxGames == HxData!SmallGames
MCExts == HxData!Extensions
MCPeriods == <<64, 32, 2, 1>>
=============================================================================
