----------------------------- MODULE HxBootstrap -----------------------------
(***************************************************************************)
(* Filename bootstrap of HXV4 archives (main.rs bootstrap_hxv4_names).     *)
(* The index of an archive has hashes for names.  Whatever plaintext can   *)
(* be recovered, in the archive or a sibling, is mined for words; a word   *)
(* is a name when its hash is in an index; a named entry can be recovered  *)
(* by its name and yields more words.                                      *)
(*                                                                         *)
(* A hash is modelled by the name it is the hash of; a name that never     *)
(* gets into the dictionary stays a hash.  A word is a record [dir, stem,  *)
(* ext] with "" for what it lacks; what bytes yield which words is given   *)
(* by the entry (`says`).  An entry's content is given by its filter, the  *)
(* format of its plaintext, whether it has adlr, and `looks`: its stored   *)
(* bytes pass a strong format test although they are not plaintext.        *)
(***************************************************************************)
EXTENDS Naturals, Sequences, FiniteSets

CONSTANTS
  Games,     \* the archives of a game: see MCHxGames
  MaxRounds, \* HXV4_BOOTSTRAP_MAX_ROUNDS
  Exts       \* HXV4_COMMON_EXTENSIONS

Startup == <<"startup", "tjs">>
Root == "/"

VARIABLES
  game,
  phase,   \* "seed", "round", "archive", "entry", "end", "done", "failed"
  round,
  active,  \* format_bootstrap_active
  map,     \* Hxv4NameMap: [names, paths]
  known,   \* what apply_names has put into each index
  snap,    \* by_id: the current archive's index when its round began
  at,      \* [arch, entry]
  tried,   \* processed_entries
  probed,  \* blind_processed_entries
  got,     \* plaintext recovered: [arch, entry, method, true]
  written, \* files of the current archive: [entry, path, true]
  before,  \* map and known when the round began
  why      \* what ended the loop

vars == <<game, phase, round, active, map, known, snap, at, tried, probed, got, written, before, why>>

Archives == DOMAIN game.arch
Entries(a) == game.arch[a].entries
Current(a) == {r \in game.arch[a].recs : r.slot = 0}

----------------------------------------------------------------------------
(* Names *)

TargetNames == UNION {{r.name : r \in game.arch[a].recs} : a \in Archives}
TargetPaths == UNION {{r.dir : r \in game.arch[a].recs} : a \in Archives}

(* add_hxv4_candidate_variants and add_candidate: a basename without an    *)
(* extension is tried with each; only hashes of an index are kept.         *)
Retained(words) ==
  [names |-> TargetNames \cap UNION {{<<w.stem, e>> : e \in IF w.ext = "" THEN Exts \cup {""} ELSE {w.ext}} : w \in words},
   paths |-> TargetPaths \cap UNION {IF w.dir = "" THEN {} ELSE {w.dir, Root} : w \in words}]

Join(m, n) == [names |-> m.names \cup n.names, paths |-> m.paths \cup n.paths]

(* add_hxv4_numeric_neighbor_candidates, for the resolved names of archive *)
(* a; `near` gives the names 128 numbers around a name.                    *)
Neighbours(k, a) ==
  TargetNames \cap UNION {game.near[n] : n \in {r.name : r \in Current(a)} \cap k.names \cap DOMAIN game.near}

(* Of one index entry. *)
Named(k, r) == r.name \in k.names
DisplayPath(k, r) ==
  <<IF r.dir \in k.paths THEN r.dir ELSE "hash", IF Named(k, r) THEN r.name ELSE "hash">>

Resolved(k, a) == {r \in Current(a) : Named(k, r)}
Unresolved(k) == {a \in Archives : Resolved(k[a], a) # Current(a)}

----------------------------------------------------------------------------
(* Which name and which record an entry of an archive has *)

(* hxv4_startup_entry_index: startup.tjs stored under its own name. *)
IsStartup(a, i) == Entries(a)[i].id = 0 /\ Entries(a)[i].startup
HasStartup(a) == \E i \in DOMAIN Entries(a) : IsStartup(a, i)

(* by_id: records of slot 0 (ids are unique there). *)
RecordOf(a, i) == {r \in Current(a) : Entries(a)[i].id # 0 /\ r.id = Entries(a)[i].id}

(* The record whose key the native filter takes. *)
NativeRecord(k, a, i) ==
  IF IsStartup(a, i) THEN {r \in Current(a) : r.name = Startup /\ Named(k, r)} ELSE RecordOf(a, i)

(* real_name, as a set of at most one name. *)
RealName(k, a, i) ==
  IF IsStartup(a, i) THEN {Startup}
  ELSE {r.name : r \in {q \in RecordOf(a, i) : Named(k, q) /\ ~(HasStartup(a) /\ q.name = Startup)}}

----------------------------------------------------------------------------
(* Recovering one entry *)

Lost == [method |-> "none", true |-> FALSE]
By(m, t) == [method |-> m, true |-> t]

(* The native filter undoes what it did; on anything else it garbles. *)
NativeRight(e) == e.filter = "native"

(* recover_named_hxv4_plaintext *)
RecoverNamed(e, native) ==
  IF e.filter = "none" /\ e.adler THEN By("plain-adler", TRUE)
  ELSE IF native THEN
    IF NativeRight(e) /\ (e.adler \/ e.format # "none") THEN By("native-entry-key", TRUE) ELSE Lost
  ELSE IF e.filter = "none" /\ e.format # "none" THEN By("plain-format", TRUE)
  ELSE IF e.looks THEN By("plain-format", FALSE)
  ELSE IF e.filter = "effective" /\ e.format # "none" THEN By("hxv4-effective-fallback", TRUE)
  ELSE IF e.filter = "xor" /\ e.format # "none" THEN By("repeating-xor-fallback", TRUE)
  ELSE Lost

(* recover_hash_only_hxv4_plaintext: no name, so any format may match; a   *)
(* strong format is taken before the native filter is asked.               *)
RecoverHashOnly(e, native) ==
  IF e.filter = "none" /\ e.adler THEN By("plain-adler", TRUE)
  ELSE IF e.filter = "none" /\ e.format # "none" THEN By("plain-format", TRUE)
  ELSE IF e.looks THEN By("plain-format", FALSE)
  ELSE IF native THEN
    IF NativeRight(e) /\ (e.adler \/ e.format # "none") THEN By("native-entry-key", TRUE) ELSE Lost
  ELSE IF e.filter = "effective" /\ e.format \notin {"none", "text"} THEN By("hxv4-format", TRUE)
  ELSE IF e.filter = "xor" /\ e.format \notin {"none", "text"} THEN By("xor-format", TRUE)
  ELSE IF e.filter = "xor" /\ e.format = "text" /\ ~e.large THEN By("xor-text", TRUE)
  ELSE Lost

(* What mining finds in recovered bytes: nothing in bytes that only look right. *)
Mined(e, r) == IF r.true THEN Retained(e.says) ELSE [names |-> {}, paths |-> {}]

----------------------------------------------------------------------------
(* The loop *)

Nobody == [arch |-> 1, entry |-> 1]
NoNames == [names |-> {}, paths |-> {}]

Init ==
  /\ game \in Games
  /\ phase = "seed" /\ round = 0 /\ active = FALSE
  /\ map = NoNames /\ known = [a \in Archives |-> NoNames] /\ snap = NoNames
  /\ at = Nobody /\ tried = {} /\ probed = {} /\ got = {} /\ written = {}
  /\ before = [map |-> NoNames, known |-> [a \in Archives |-> NoNames]]
  /\ why = "none"

(* The user's dictionary, and what names the game's own files give away.   *)
Dictionary == Retained(game.dict)
Seeds == Join(Retained({[dir |-> "", stem |-> "startup", ext |-> "tjs"]}), Retained(game.loose))

(* Targets, the dictionary cut down to them, startup.tjs, executables and  *)
(* loose files; each index starts with the whole dictionary applied.       *)
Seed ==
  /\ phase = "seed"
  /\ map' = Join(Dictionary, Seeds) /\ known' = [a \in Archives |-> map']
  /\ phase' = IF Resolved(Dictionary, 1) = Current(1) THEN "done" ELSE "round"
  /\ why' = IF Resolved(Dictionary, 1) = Current(1) THEN "complete" ELSE why
  /\ UNCHANGED <<game, round, active, snap, at, tried, probed, got, written, before>>

BeginRound ==
  /\ phase = "round"
  /\ IF round = MaxRounds
     THEN phase' = "done" /\ why' = "limit" /\ UNCHANGED <<round, at, before>>
     ELSE /\ phase' = "archive" /\ why' = why
          /\ round' = round + 1
          /\ at' = Nobody
          /\ before' = [map |-> map, known |-> known]
  /\ UNCHANGED <<game, active, map, known, snap, tried, probed, got, written>>

(* The archives follow one another; none that is left ends the round.      *)
ToNextArchive ==
  IF at.arch < Len(game.arch) THEN at' = [arch |-> at.arch + 1, entry |-> 1] /\ phase' = "archive"
  ELSE at' = at /\ phase' = "end"

(* bootstrap_archive_round, up to its loop: what the archives before it    *)
(* found in this round is applied here already.                            *)
EnterArchive ==
  /\ phase = "archive"
  /\ known' = [known EXCEPT ![at.arch] = Join(@, map)]
  /\ snap' = Join(known[at.arch], map)
  /\ IF Entries(at.arch) = <<>> THEN ToNextArchive ELSE at' = at /\ phase' = "entry"
  /\ UNCHANGED <<game, round, active, map, tried, probed, got, written, before, why>>

ToNextEntry ==
  IF at.entry < Len(Entries(at.arch)) THEN at' = [at EXCEPT !.entry = @ + 1] /\ phase' = phase
  ELSE ToNextArchive

Here == <<at.arch, at.entry>>
E == Entries(at.arch)[at.entry]
HasNative == game.native /\ NativeRecord(snap, at.arch, at.entry) # {}

(* Nothing left to try for this entry in this round. *)
SkipEntry ==
  /\ phase = "entry"
  /\ IF RealName(snap, at.arch, at.entry) = {} THEN ~active \/ Here \in probed ELSE Here \in tried
  /\ ToNextEntry
  /\ UNCHANGED <<game, round, active, map, known, snap, tried, probed, got, written, before, why>>

(* The nameless branch; without a record the native filter cannot be asked *)
(* and nothing else is.                                                    *)
ProbeEntry ==
  /\ phase = "entry" /\ active
  /\ RealName(snap, at.arch, at.entry) = {} /\ Here \notin probed
  /\ probed' = probed \cup {Here}
  /\ LET r == IF game.native /\ ~HasNative THEN Lost ELSE RecoverHashOnly(E, HasNative)
     IN  /\ map' = Join(map, Mined(E, r))
         /\ got' = IF r = Lost THEN got ELSE got \cup {<<Here, r>>}
  /\ ToNextEntry
  /\ UNCHANGED <<game, round, active, known, snap, tried, written, before, why>>

(* Where the file of an entry goes: its display path at this moment. *)
OutputPath == IF IsStartup(at.arch, at.entry) THEN <<"", Startup>>
              ELSE DisplayPath(snap, CHOOSE r \in RecordOf(at.arch, at.entry) : TRUE)

(* The named branch: only the current archive writes files, and a failed   *)
(* write ends the command.                                                 *)
NameEntry ==
  /\ phase = "entry"
  /\ RealName(snap, at.arch, at.entry) # {} /\ Here \notin tried
  /\ tried' = tried \cup {Here}
  /\ LET r == RecoverNamed(E, HasNative)
     IN  /\ got' = IF r = Lost THEN got ELSE got \cup {<<Here, r>>}
         /\ \/ /\ r # Lost /\ at.arch = 1
               /\ phase' = "failed"
               /\ UNCHANGED <<at, map, written>>
            \/ /\ map' = Join(map, Mined(E, r))
               /\ written' = IF r # Lost /\ at.arch = 1
                             THEN written \cup {[entry |-> at.entry, path |-> OutputPath, true |-> r.true]} ELSE written
               /\ ToNextEntry
  /\ UNCHANGED <<game, round, active, known, snap, probed, before, why>>

(* After both archives: apply, numeric neighbours, apply.  What the map    *)
(* and the indexes are then.                                               *)
Applied == [a \in Archives |-> Join(known[a], map)]
EndMap == [map EXCEPT !.names = @ \cup UNION {Neighbours(Applied[a], a) : a \in Archives}]
EndKnown == [a \in Archives |-> Join(known[a], EndMap)]

Grew ==
  \/ EndMap # before.map
  \/ \E a \in Archives : Resolved(EndKnown[a], a) # Resolved(before.known[a], a)

(* Bug: the first fixed point ends the loop. *)
EndRoundHashOnly ==
  /\ phase = "end"
  /\ map' = EndMap /\ known' = EndKnown
  /\ IF Grew THEN phase' = "round" /\ why' = why ELSE phase' = "done" /\ why' = "fixed"
  /\ UNCHANGED <<game, round, active, snap, at, tried, probed, got, written, before>>

(* Bug: numeric neighbours are added after the growth is measured. *)
EndRoundLateNumbers ==
  /\ phase = "end"
  /\ map' = EndMap /\ known' = EndKnown
  /\ IF map # before.map \/ \E a \in Archives : Resolved(Applied[a], a) # Resolved(before.known[a], a)
     THEN phase' = "round" /\ UNCHANGED <<active, why>>
     ELSE IF ~active /\ Unresolved(EndKnown) # {} THEN phase' = "round" /\ active' = TRUE /\ why' = why
     ELSE phase' = "done" /\ why' = "fixed" /\ active' = active
  /\ UNCHANGED <<game, round, snap, at, tried, probed, got, written, before>>

(* No growth: the first time, go on without names if any is missing.       *)
EndRound ==
  /\ phase = "end"
  /\ map' = EndMap /\ known' = EndKnown
  /\ IF Grew THEN phase' = "round" /\ UNCHANGED <<active, why>>
     ELSE IF ~active /\ Unresolved(EndKnown) # {} THEN phase' = "round" /\ active' = TRUE /\ why' = why
     ELSE phase' = "done" /\ why' = "fixed" /\ active' = active
  /\ UNCHANGED <<game, round, snap, at, tried, probed, got, written, before>>

Next == Seed \/ BeginRound \/ EnterArchive \/ SkipEntry \/ ProbeEntry \/ NameEntry \/ EndRound

Spec == Init /\ [][Next]_vars

----------------------------------------------------------------------------
(* Properties *)

Places == UNION {{<<a, i>> : i \in DOMAIN Entries(a)} : a \in Archives}

(* Where the loop ends by itself nothing is left to learn: every entry     *)
(* that has a name was tried by it, every other one without it (if a name  *)
(* is missing anywhere), every word of a recovered plaintext and every     *)
(* numeric neighbour that is a name of the game is in the dictionary, and  *)
(* the dictionary is in every index.                                       *)
FixedPointIsComplete ==
  why = "fixed" =>
    /\ \A p \in Places : IF RealName(known[p[1]], p[1], p[2]) # {} THEN p \in tried
                         ELSE Unresolved(known) # {} => p \in probed
    /\ \A g \in got : g[2].true =>
         LET m == Retained(Entries(g[1][1])[g[1][2]].says)
         IN  m.names \subseteq map.names /\ m.paths \subseteq map.paths
    /\ \A a \in Archives : known[a] = map /\ Neighbours(known[a], a) \subseteq map.names

=============================================================================
