---------------------------- MODULE NameRecovery ----------------------------
(***************************************************************************)
(* How the names of an archive with an indirect special index are found    *)
(* (main.rs recover_ordered_names_with_hx_options and what it calls).      *)
(* Without the game's executable the search of SpecialIndex is all there   *)
(* is.  With it the strategies follow one another: early plain name        *)
(* records, a plain ordered table, the parameters the bootstrap scripts    *)
(* pass to setupArchiveData, parameters found in the modules.              *)
(*                                                                         *)
(* A visible name is [kind, of, salt]: "plain" (kept), "token" (MD5 of the *)
(* salt and the name `of`) or "shortcut" ("$").  A native cipher has scope *)
(* "native" and its parameters <<control, seeds>> for key.  A script is    *)
(* [ok, tjs2, calls, loads]: calls are the arguments of setupArchiveData,  *)
(* loads the scripts it names; a call is [params, file]: what is derived   *)
(* from it and the script of that name, if any.                            *)
(***************************************************************************)
EXTENDS SpecialIndex

CONSTANT MaxScripts \* MAX_BOOTSTRAP_SCRIPTS

(* What an entry shows (or is the token of) is its own name or no entry's. *)
ASSUME NamesAssumption ==
  \A F \in Cases : \A g \in F : \A j, k \in DOMAIN g.entries :
    g.entries[k].name \in {g.entries[j].name, g.entries[j].vis.of} => j = k

VARIABLES
  route,   \* "begin", "search", "early", "plain", "scan", "values", "params", "done", "error"
  pending, \* scripts to visit
  visited,
  values,  \* arguments found, not tried
  result   \* [names, by, root] or NoResult

vars == <<game, root, stage, limit, keyed, best, route, pending, visited, values, result>>

NoResult == [names |-> <<>>, by |-> "none", root |-> 0]
Startup == "startup.tjs"
Token(n, salt) == [kind |-> "token", of |-> n, salt |-> salt]
Plain(n) == [kind |-> "plain", of |-> n, salt |-> "none"]

(* What stands for an entry that gets no name: what it is called already. *)
Kept(e) == IF e.vis.kind = "plain" THEN e.vis.of ELSE "token"

Stored == {i \in DOMAIN game.roots : game.roots[i].special /\ game.roots[i].stored}

----------------------------------------------------------------------------
(* Names bound by their records: recover_cxdec_names_from_decoded *)

(* Every chunk is a record with a name and its NUL, to the last byte. *)
IsNameTable(p) == p.form = "m2" /\ p.nul /\ p.chunks # <<>> /\ \A i \in DOMAIN p.chunks : p.chunks[i].rec # NoRec
Records(p) == [i \in DOMAIN p.chunks |-> p.chunks[i].rec]

OnlyOne(S) == \E x \in S : S = {x}

(* Bug: a record stays available after an entry took it. *)
FreeAll(b, recs) == DOMAIN recs

(* A record names one entry. *)
Free(b, recs) == DOMAIN recs \ b.used

(* By visible name, by token, by hash: a route that finds exactly one free *)
(* record decides.                                                         *)
Routes(b, e, recs, salt) ==
  <<{i \in Free(b, recs) : Plain(recs[i].name) = e.vis},
    {i \in Free(b, recs) : Token(recs[i].name, salt) = e.vis},
    {i \in Free(b, recs) : e.hash # 0 /\ recs[i].hash = e.hash}>>

(* Bug: the first of several records with the hash is taken. *)
BindEntryFirst(b, e, recs, salt) ==
  LET routes == Routes(b, e, recs, salt)
      some == {r \in DOMAIN routes : routes[r] # {}}
      i == Least(routes[Least(some)])
  IN  IF e.vis.kind = "shortcut" THEN [b EXCEPT !.names = Append(@, Startup)]
      ELSE IF some = {} THEN [b EXCEPT !.names = Append(@, Kept(e))]
      ELSE [used |-> b.used \cup {i}, names |-> Append(b.names, recs[i].name)]

BindEntry(b, e, recs, salt) ==
  LET routes == Routes(b, e, recs, salt)
      one == {r \in DOMAIN routes : OnlyOne(routes[r])}
      i == Least(routes[Least(one)])
  IN  IF e.vis.kind = "shortcut" THEN [b EXCEPT !.names = Append(@, Startup)]
      ELSE IF one = {} THEN [b EXCEPT !.names = Append(@, Kept(e))]
      ELSE [used |-> b.used \cup {i}, names |-> Append(b.names, recs[i].name)]

(* Accepted when every record named an entry. *)
BindStructural(p, salt, es) ==
  LET recs == Records(p)
      bound[k \in 0 .. Len(es)] ==
        IF k = 0 THEN [used |-> {}, names |-> <<>>] ELSE BindEntry(bound[k - 1], es[k], recs, salt)
  IN  IF IsNameTable(p) /\ bound[Len(es)].used = DOMAIN recs THEN bound[Len(es)].names ELSE <<>>

(* validate_special_fixed_params: the first root these parameters decrypt  *)
(* to a table that binds.                                                  *)
Validated(params) ==
  LET good == {i \in Stored : LET r == game.roots[i]
                              IN  /\ r.cipher.scope = "native" /\ r.cipher.key = params
                                  /\ r.wrap = "zlib" /\ r.size # "wrong"
                                  /\ BindStructural(r.plain, r.tag, Entries) # <<>>}
      i == Least(good)
  IN  IF good = {} THEN NoResult
      ELSE [names |-> BindStructural(game.roots[i].plain, game.roots[i].tag, Entries), by |-> "records", root |-> i]

----------------------------------------------------------------------------
(* Early plain records: recover_early_plain_cxdec_names *)

Tags(p) == {p.chunks[i].tag : i \in {j \in DOMAIN p.chunks : p.chunks[j].rec # NoRec}}
Group(p, t) == {p.chunks[i].rec : i \in {j \in DOMAIN p.chunks : p.chunks[j].tag = t /\ p.chunks[j].rec # NoRec}}
GroupSize(p, t) == Cardinality({j \in DOMAIN p.chunks : p.chunks[j].tag = t /\ p.chunks[j].rec # NoRec})

(* group_evidence: how many entries a group has something for. *)
Counted == {k \in DOMAIN Entries : ~Entries[k].dummy /\ Entries[k].vis.kind # "shortcut"}
ExactFor(G, e) == {r.name : r \in {q \in G : Plain(q.name) = e.vis}}
TokenFor(G, e, salt) == {r.name : r \in {q \in G : Token(q.name, salt) = e.vis}}
HashFor(G, e) == {r.name : r \in {q \in G : e.hash # 0 /\ q.hash = e.hash}}

Evidence(p, t, salt) ==
  LET G == Group(p, t)
      exact == Cardinality({k \in Counted : ExactFor(G, Entries[k]) # {}})
      token == Cardinality({k \in Counted : TokenFor(G, Entries[k], salt) # {}})
      hash == Cardinality({k \in Counted : HashFor(G, Entries[k]) # {}})
  IN  <<exact + token, token, exact, hash, GroupSize(p, t)>>

Outranks(a, b) == \E i \in DOMAIN a : a[i] > b[i] /\ \A j \in 1 .. i - 1 : a[j] = b[j]

(* The group to take, or none: a tie, or no evidence for any of several.   *)
Selected(p, salt) ==
  {t \in Tags(p) : /\ \A u \in Tags(p) \ {t} : Outranks(Evidence(p, t, salt), Evidence(p, u, salt))
                   /\ OnlyOne(Tags(p)) \/ Evidence(p, t, salt)[1] # 0 \/ Evidence(p, t, salt)[4] # 0}

(* A record may name several entries here; a token that stays a token is   *)
(* unresolved.                                                             *)
Unnamed == "unnamed"

EarlyName(G, e, salt) ==
  IF e.dummy THEN Kept(e)
  ELSE IF e.vis.kind = "shortcut" THEN Startup
  ELSE LET routes == <<ExactFor(G, e), TokenFor(G, e, salt), HashFor(G, e)>>
           one == {r \in DOMAIN routes : OnlyOne(routes[r])}
       IN  IF one # {} THEN CHOOSE n \in routes[Least(one)] : TRUE
           ELSE IF e.vis.kind = "plain" THEN Kept(e) ELSE Unnamed

EarlyReadable(r) == r.cipher = NoCipher /\ r.wrap = "zlib" /\ r.size # "wrong" /\ r.plain.form = "m2" /\ Tags(r.plain) # {}

----------------------------------------------------------------------------
(* The strategies *)

Init ==
  /\ \E F \in Cases : game \in F
  /\ root = 0 /\ stage = "names" /\ limit = 0 /\ keyed = FALSE /\ best = NoBest
  /\ route = "begin" /\ pending = <<>> /\ visited = {} /\ values = {} /\ result = NoResult

Finish(r) == route' = "done" /\ result' = r
Fail == route' = "error" /\ result' = NoResult
(* No layer of names to recover, or an authenticated one handled elsewhere. *)
Begin ==
  /\ route = "begin" /\ UNCHANGED <<game, pending, visited, values>>
  /\ IF game.hxv4 \/ ~\E i \in DOMAIN game.roots : game.roots[i].special
     THEN Finish(NoResult) /\ UNCHANGED searchVars
     ELSE IF ~game.exe THEN StartSearch(game.period, game.key # NoKey) /\ route' = "search" /\ result' = result
     ELSE route' = "early" /\ result' = result /\ UNCHANGED searchVars

Search ==
  /\ route \in {"search", "plain"} /\ stage # "over"
  /\ SearchStep /\ UNCHANGED <<route, result, pending, visited, values>>

Found == [names |-> best.names, by |-> IF best.confidence = 100 THEN "order" ELSE "table", root |-> best.root]

SearchOver ==
  /\ route = "search" /\ stage = "over"
  /\ Finish(IF best = NoBest THEN NoResult ELSE Found)
  /\ UNCHANGED <<game, root, stage, limit, keyed, best, pending, visited, values>>

(* Only the first readable root is looked at: it ends in names or an error. *)
Early ==
  /\ route = "early" /\ UNCHANGED <<game, pending, visited, values>>
  /\ LET readable == {i \in Stored : EarlyReadable(game.roots[i])}
         i == Least(readable)
         p == game.roots[i].plain
         salt == game.roots[i].product
         names == [k \in DOMAIN Entries |-> EarlyName(Group(p, CHOOSE t \in Selected(p, salt) : TRUE), Entries[k], salt)]
     IN  IF ~game.early \/ readable = {} THEN route' = "plain" /\ result' = result /\ StartSearch(0, FALSE)
         ELSE /\ UNCHANGED searchVars
              /\ IF Selected(p, salt) = {} \/ Unnamed \in Range(names) THEN Fail
                 ELSE Finish([names |-> names, by |-> "early", root |-> i])

(* startup_setup_data_candidates begins, where a module has the generator  *)
(* and the bootstrap archive is there.                                     *)
PlainOver ==
  /\ route = "plain" /\ stage = "over"
  /\ UNCHANGED <<game, root, stage, limit, keyed, best, visited, values>>
  /\ IF best # NoBest THEN Finish(Found) /\ pending' = pending
     ELSE IF game.generator /\ game.bootstrap THEN route' = "scan" /\ pending' = game.startups /\ result' = result
     ELSE route' = "params" /\ UNCHANGED <<pending, result>>

(* What a script makes known, and the scripts it leads to.  In a script    *)
(* that is text every argument may be a script's name too.                 *)
Calls(i) == IF game.scripts[i].ok THEN game.scripts[i].calls ELSE {}
Leads(i) ==
  IF ~game.scripts[i].ok THEN {}
  ELSE IF game.scripts[i].tjs2 THEN game.scripts[i].loads
  ELSE {c.file : c \in game.scripts[i].calls} \ {0}

ScanScript ==
  /\ route = "scan" /\ pending # <<>>
  /\ LET i == Head(pending)
         skip == Cardinality(visited) >= MaxScripts \/ i \in visited
         more == SetToSeq(Leads(i) \ (visited \cup {i}))
     IN  IF skip THEN pending' = Tail(pending) /\ UNCHANGED <<visited, values>>
         ELSE visited' = visited \cup {i} /\ values' = values \cup Calls(i) /\ pending' = Tail(pending) \o more
  /\ UNCHANGED <<game, root, stage, limit, keyed, best, route, result>>

ScanOver ==
  /\ route = "scan" /\ pending = <<>>
  /\ route' = "values"
  /\ UNCHANGED <<game, root, stage, limit, keyed, best, pending, visited, values, result>>

(* The arguments are tried in the order of their text. *)
TryValue ==
  /\ route = "values" /\ UNCHANGED <<game, root, stage, limit, keyed, best, pending, visited>>
  /\ IF values = {} THEN route' = "params" /\ UNCHANGED <<values, result>>
     ELSE \E v \in values :
            /\ values' = values \ {v}
            /\ IF Validated(v.params) # NoResult THEN Finish(Validated(v.params)) ELSE UNCHANGED <<route, result>>

(* Controls of other modules count only once seeds were found. *)
Controls == game.facts.controls \cup IF game.facts.seeds = {} THEN {} ELSE game.facts.tables
Params == game.facts.fixed \cup (Controls \X game.facts.seeds)

TryParams ==
  /\ route = "params" /\ UNCHANGED <<game, root, stage, limit, keyed, best, pending, visited, values>>
  /\ LET good == {p \in Params : Validated(p) # NoResult}
     IN  IF good = {} THEN Fail ELSE \E p \in good : Finish(Validated(p))

Next ==
  \/ Begin \/ Search \/ SearchOver \/ Early \/ PlainOver
  \/ ScanScript \/ ScanOver \/ TryValue \/ TryParams

Spec == Init /\ [][Next]_vars

----------------------------------------------------------------------------
(* Properties *)

(* Names bound by order: entry k has the name of a record that matches it, *)
(* the records stand in the order of the entries, and nothing but warnings *)
(* with the same tag stands between them.                                  *)
InOrder(cs, names) ==
  \E f \in [DOMAIN names -> DOMAIN cs] :
    /\ \A k \in DOMAIN names :
         /\ cs[f[k]].rec.name = names[k]
         /\ Matches(cs[f[k]].rec, Entries[k]) \/ (cs[f[k]].rec.warn /\ Entries[k].dummy)
    /\ \A j, k \in DOMAIN names :
         j < k => f[j] < f[k] /\ cs[f[j]].tag = cs[f[k]].tag
    /\ \A i \in f[1] .. f[Len(names)] : cs[i].tag = cs[f[1]].tag => cs[i].rec.warn \/ i \in Range(f)

OrderIsVerified ==
  result.by = "order" => Len(result.names) = Len(Entries) /\ InOrder(game.roots[result.root].plain.chunks, result.names)

(* A table is complete when it has the record of every entry, and no other. *)
Own(k) == [name |-> Entries[k].name, hash |-> Entries[k].hash, chars |-> Entries[k].chars, warn |-> FALSE]
Complete(p) == OnlyOne(Tags(p)) /\ Range(Records(p)) = {Own(k) : k \in DOMAIN Entries}

(* Names bound by their records: from a complete table no entry gets the   *)
(* name of another, it has its own or the one it showed, also where files  *)
(* are equal and their hashes do not tell them apart.  From any table a    *)
(* record names one entry, except for early archives: where two entries    *)
(* get one name that neither showed, two records have it.                  *)
NobodysName ==
  /\ result.by \in {"records", "early"} /\ Complete(game.roots[result.root].plain) =>
       \A k \in DOMAIN Entries : result.names[k] \in {Entries[k].name, Kept(Entries[k]), Startup}
  /\ result.by = "records" =>
       \A j, k \in DOMAIN Entries :
         j # k /\ result.names[j] = result.names[k] =>
           \/ result.names[j] \in {Kept(Entries[j]), Kept(Entries[k]), Startup}
           \/ LET recs == Records(game.roots[result.root].plain)
              IN  \E i, l \in DOMAIN recs : i # l /\ recs[i].name = result.names[j] /\ recs[l].name = result.names[j]

=============================================================================
