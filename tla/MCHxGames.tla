---------------------------- MODULE MCHxGames ------------------------------
(* Small games for HxBootstrap: who mentions whom, and what hides it. *)
EXTENDS Naturals, Sequences

Startup == <<"startup", "tjs">>
A == <<"a", "ks">>
B1 == <<"b1", "ks">>
B2 == <<"b2", "ks">>
C == <<"c", "tjs">>

Word(d, s, e) == [dir |-> d, stem |-> s, ext |-> e]
Says(n) == CASE n = A -> {Word("d", "a", "")} [] n = B1 -> {Word("", "b1", "ks")} [] n = C -> {Word("", "c", "")}

Rec(id, n, d, slot) == [id |-> id, name |-> n, dir |-> d, slot |-> slot]
Entry(id, filter, says) ==
  [id |-> id, startup |-> FALSE, filter |-> filter, format |-> "tjs2", adler |-> TRUE, looks |-> FALSE, large |-> FALSE, says |-> says]
StartupEntry(says) == [Entry(0, "none", says) EXCEPT !.startup = TRUE]

Near == [n \in {B1, B2} |-> IF n = B1 THEN {B2} ELSE {B1}]
Game(recs1, es1, recs2, es2, native, dict, loose) ==
  [arch |-> <<[recs |-> recs1, entries |-> es1], [recs |-> recs2, entries |-> es2]>>,
   native |-> native, dict |-> dict, loose |-> loose, near |-> Near]

Recs1 == {Rec(1, A, "d", 0), Rec(2, B1, "/", 0), Rec(3, B2, "d", 0)}
Recs2 == {Rec(1, C, "/", 0), Rec(2, A, "d", 1)}

(* Names that lead to one another across the archives, behind any filter. *)
Mentions ==
  {Game(Recs1, <<Entry(1, f, Says(B1)), Entry(2, "none", {}), Entry(3, "none", w2)>>, Recs2, <<Entry(1, g, Says(A))>>, nat, {}, l) :
     f \in {"none", "native", "effective", "lost"}, g \in {"none", "native", "xor"},
     w2 \in {{}, Says(C)}, nat \in BOOLEAN, l \in {{}, Says(A), Says(C), Says(A) \cup Says(B1) \cup Says(C)}}

(* The startup script, stored under its own name or behind an id. *)
Startups ==
  {Game(Recs1 \cup {Rec(4, Startup, "/", 0)}, <<s, Entry(1, "native", Says(C)), Entry(x, "none", {})>>,
        Recs2, <<Entry(1, "none", {Word("d", "x", "ks")} \cup w)>>, nat, d, {}) :
     s \in {StartupEntry(Says(A)), [StartupEntry(Says(A)) EXCEPT !.filter = "native"], Entry(4, "native", Says(A))},
     x \in {0, 2, 4, 9}, w \in {{}, Says(B1)}, nat \in BOOLEAN, d \in {{}, Says(A) \cup Says(B1)}}

(* What one entry may look like. *)
Contents ==
  {Game({Rec(1, A, "/", 0), Rec(2, B1, "d", 0)},
        <<[Entry(1, f, Says(B1)) EXCEPT !.format = m, !.adler = c, !.looks = k, !.large = g], Entry(2, "none", {})>>,
        {Rec(1, C, "/", 0)}, <<Entry(1, "lost", {})>>, nat, d, {}) :
     f \in {"none", "native", "effective", "xor", "lost"}, m \in {"none", "text", "tjs2"}, c \in BOOLEAN, k \in BOOLEAN,
     g \in BOOLEAN, nat \in BOOLEAN, d \in {{}, Says(A), Says(B1) \cup Says(A)}}

(* A sibling with an index and no entries. *)
Empty ==
  {Game({Rec(1, A, "/", 0), Rec(2, B1, "d", 0)}, <<Entry(1, "native", Says(B1)), Entry(2, "none", {})>>,
        {Rec(1, C, "/", 0)}, <<>>, TRUE, {}, l) : l \in {{}, Says(A)}}

SmallGames == Mentions \cup Startups \cup Contents \cup Empty
Extensions == {"ks", "tjs"}
=============================================================================
