-------------------------- MODULE NameRoute_proofs --------------------------
(***************************************************************************)
(* Proofs about NameRoute: the HXV4 bootstrap, the names bound by order    *)
(* and the names bound by their records.                                   *)
(***************************************************************************)
EXTENDS NameRoute, TLAPS, WellFoundedInduction

----------------------------------------------------------------------------
(* The bootstrap.  A round starts with what was known `before`, and until  *)
(* it ends map and indexes only grow.  An entry the round has passed was   *)
(* seen with an index in between, so it was tried if it had a name before, *)
(* and probed if it has none now.                                          *)

IsMap(m) == m = [names |-> m.names, paths |-> m.paths]
Within(m, n) == m.names \subseteq n.names /\ m.paths \subseteq n.paths
IsIndexes(k) == k = [a \in Hx!Archives |-> k[a]] /\ \A a \in Hx!Archives : IsMap(k[a])

Running == phase \in {"archive", "entry", "end"}

MapsInv ==
  /\ IsMap(map) /\ IsIndexes(known) /\ \A a \in Hx!Archives : Within(known[a], map)
  /\ Running => /\ IsMap(before.map) /\ Within(before.map, map)
                /\ IsIndexes(before.known)
                /\ \A a \in Hx!Archives : Within(before.known[a], known[a])
  /\ phase = "entry" => snap = known[at.arch]

(* Where the round is. *)
PlaceInv ==
  /\ at = [arch |-> at.arch, entry |-> at.entry]
  /\ phase \in {"archive", "entry"} => at.arch \in Hx!Archives
  /\ phase = "archive" => at.entry = 1
  /\ phase = "entry" => at.entry \in DOMAIN Hx!Entries(at.arch)

Passed(a, i) == phase = "end" \/ a < at.arch \/ (a = at.arch /\ i < at.entry)

PassedInv ==
  Running => \A a \in Hx!Archives : \A i \in DOMAIN Hx!Entries(a) : Passed(a, i) =>
    /\ Hx!RealName(before.known[a], a, i) # {} => <<a, i>> \in tried
    /\ active /\ Hx!RealName(known[a], a, i) = {} => <<a, i>> \in probed

(* What the words of recovered plaintext are is in the dictionary. *)
GotInv ==
  /\ phase = "seed" => got = {}
  /\ phase # "failed" =>
       \A g \in got : g[2].true =>
         Within(Hx!Retained(Hx!Entries(g[1][1])[g[1][2]].says), map)

WhyInv == why = "fixed" => phase = "done" /\ Hx!FixedPointIsComplete

HxInv ==
  /\ gate = "names" => phase = "idle" /\ got = {} /\ map = Hx!NoNames /\ at = Hx!Nobody
  /\ phase = "idle" => why = "none" /\ gate # "hx"
  /\ phase # "idle" =>
       /\ hxGame \in HxGames
       /\ MapsInv /\ PlaceInv /\ PassedInv /\ GotInv /\ WhyInv

LEMMA NamesGrow ==
  ASSUME NEW k, NEW l, k.names \subseteq l.names, NEW a, NEW i
  PROVE  Hx!RealName(k, a, i) \subseteq Hx!RealName(l, a, i)
  BY DEF Hx!RealName, Hx!Named

LEMMA NamesResolved ==
  ASSUME NEW k, NEW l, NEW a, Hx!Resolved(k, a) = Hx!Resolved(l, a), NEW i
  PROVE  Hx!RealName(k, a, i) = Hx!RealName(l, a, i)
  BY DEF Hx!RealName, Hx!RecordOf, Hx!Resolved

LEMMA Joined ==
  ASSUME NEW m, NEW n
  PROVE  /\ IsMap(Hx!Join(m, n)) /\ Within(m, Hx!Join(m, n)) /\ Within(n, Hx!Join(m, n))
         /\ \A l : Within(m, l) /\ Within(n, l) => Within(Hx!Join(m, n), l)
         /\ IsMap(n) /\ Within(m, n) => Hx!Join(m, n) = n
  BY DEF Hx!Join, IsMap, Within

LEMMA WithinWithin ==
  ASSUME NEW k, NEW l, NEW m, Within(k, l), Within(l, m)
  PROVE  Within(k, m)
  BY DEF Within

(* A game does not change while its bootstrap runs. *)
LEMMA GameStays ==
  ASSUME hxGame' = hxGame
  PROVE  /\ (Hx!Archives)' = Hx!Archives
         /\ \A a : (Hx!Entries(a))' = Hx!Entries(a) /\ (Hx!Current(a))' = Hx!Current(a)
         /\ \A k, a, i : (Hx!RealName(k, a, i))' = Hx!RealName(k, a, i)
         /\ \A w : (Hx!Retained(w))' = Hx!Retained(w)
         /\ \A k : (Hx!Unresolved(k))' = Hx!Unresolved(k)
         /\ \A k, a : (Hx!Neighbours(k, a))' = Hx!Neighbours(k, a)
         /\ (Hx!Places)' = Hx!Places
  BY DEF Hx!Archives, Hx!Entries, Hx!Current, Hx!RealName, Hx!IsStartup, Hx!HasStartup, Hx!RecordOf, Hx!Retained,
         Hx!TargetNames, Hx!TargetPaths, Hx!Named, Hx!Unresolved, Hx!Resolved, Hx!Neighbours, Hx!Places

LEMMA GameIs ==
  ASSUME hxGame \in HxGames
  PROVE  /\ 1 \in Hx!Archives /\ Hx!Archives = 1 .. Len(hxGame.arch) /\ Len(hxGame.arch) \in Nat
         /\ \A a \in Hx!Archives : /\ DOMAIN Hx!Entries(a) = 1 .. Len(Hx!Entries(a)) /\ Len(Hx!Entries(a)) \in Nat
                                    /\ Hx!Entries(a) # <<>> => 1 \in DOMAIN Hx!Entries(a)
<1>1. hxGame.arch \in Seq(Range(hxGame.arch)) /\ hxGame.arch # <<>>
  BY HxAssumption DEF IsList
<1>2. ASSUME NEW a \in Hx!Archives
      PROVE  Hx!Entries(a) \in Seq(Range(Hx!Entries(a)))
  BY HxAssumption DEF IsList, Hx!Archives, Hx!Entries
<1>3. 1 \in Hx!Archives /\ Hx!Archives = 1 .. Len(hxGame.arch) /\ Len(hxGame.arch) \in Nat
  BY <1>1 DEF Hx!Archives
<1>4. ASSUME NEW a \in Hx!Archives
      PROVE  /\ DOMAIN Hx!Entries(a) = 1 .. Len(Hx!Entries(a)) /\ Len(Hx!Entries(a)) \in Nat
             /\ Hx!Entries(a) # <<>> => 1 \in DOMAIN Hx!Entries(a)
  <2> DEFINE s == Hx!Entries(a)
  <2>1. PICK q : q = s
    OBVIOUS
  <2>2. q \in Seq(Range(q))
    BY <1>2, <2>1
  <2>3. DOMAIN q = 1 .. Len(q) /\ Len(q) \in Nat /\ (q # <<>> => 1 \in DOMAIN q)
    BY <2>2
  <2> QED
    BY <2>1, <2>3
<1> QED
  BY <1>3, <1>4

----------------------------------------------------------------------------
(* One step of the bootstrap *)

CoreInv == hxGame \in HxGames /\ MapsInv /\ PlaceInv /\ PassedInv /\ GotInv /\ WhyInv

(* What is left to the archives after an archive. *)
LEMMA NextArchiveStep ==
  ASSUME hxGame \in HxGames, hxGame' = hxGame, PlaceInv, at.arch \in Hx!Archives, Hx!ToNextArchive
  PROVE  /\ PlaceInv' /\ phase' \in {"archive", "end"}
         /\ \A a \in Hx!Archives : \A i \in DOMAIN Hx!Entries(a) : Passed(a, i)' => a <= at.arch
<1>1. Hx!Archives = 1 .. Len(hxGame.arch) /\ Len(hxGame.arch) \in Nat
  BY GameIs
<1>2. (Hx!Archives)' = Hx!Archives
  BY GameStays
<1>3. CASE at.arch < Len(hxGame.arch)
  <2>1. at' = [arch |-> at.arch + 1, entry |-> 1] /\ phase' = "archive"
    BY <1>3 DEF Hx!ToNextArchive
  <2>2. at'.arch = at.arch + 1 /\ at'.entry = 1 /\ at'.arch \in Hx!Archives
    BY <1>1, <1>3, <2>1
  <2>3. PlaceInv'
    BY <1>2, <2>1, <2>2 DEF PlaceInv
  <2>4. ASSUME NEW a \in Hx!Archives, NEW i \in DOMAIN Hx!Entries(a), Passed(a, i)'
        PROVE  a <= at.arch
    <3>1. i \in Nat /\ i >= 1
      BY GameIs
    <3> QED
      BY <1>1, <2>1, <2>2, <2>4, <3>1 DEF Passed
  <2> QED
    BY <2>1, <2>3, <2>4
<1>4. CASE ~(at.arch < Len(hxGame.arch))
  <2>1. at' = at /\ phase' = "end"
    BY <1>4 DEF Hx!ToNextArchive
  <2> QED
    BY <1>1, <1>4, <2>1 DEF PlaceInv
<1> QED
  BY <1>3, <1>4

LEMMA PassEntry ==
  ASSUME hxGame \in HxGames, hxGame' = hxGame, MapsInv, PlaceInv, PassedInv, phase = "entry",
         Hx!ToNextEntry, known' = known, before' = before, active' = active,
         tried \subseteq tried', probed \subseteq probed',
         Hx!RealName(snap, at.arch, at.entry) # {} => Hx!Here \in tried',
         active /\ Hx!RealName(snap, at.arch, at.entry) = {} => Hx!Here \in probed'
  PROVE  PassedInv' /\ PlaceInv' /\ phase' \in {"archive", "entry", "end"}
                    /\ (phase' = "entry" => at'.arch = at.arch)
<1>1. /\ (Hx!Archives)' = Hx!Archives
      /\ \A a : (Hx!Entries(a))' = Hx!Entries(a)
      /\ \A k, a, i : (Hx!RealName(k, a, i))' = Hx!RealName(k, a, i)
  BY GameStays
<1>2. at.arch \in Hx!Archives /\ at.entry \in DOMAIN Hx!Entries(at.arch)
  BY DEF PlaceInv
<1>3. /\ Hx!Archives = 1 .. Len(hxGame.arch) /\ Len(hxGame.arch) \in Nat
      /\ \A a \in Hx!Archives : DOMAIN Hx!Entries(a) = 1 .. Len(Hx!Entries(a)) /\ Len(Hx!Entries(a)) \in Nat
  BY GameIs
<1>4. snap = known[at.arch] /\ Within(before.known[at.arch], known[at.arch])
  BY <1>2 DEF MapsInv, Running
<1>5. /\ PlaceInv' /\ phase' \in {"archive", "entry", "end"} /\ (phase' = "entry" => at'.arch = at.arch)
      /\ \A a \in Hx!Archives : \A i \in DOMAIN Hx!Entries(a) :
           Passed(a, i)' => Passed(a, i) \/ (a = at.arch /\ i = at.entry)
  <2>1. CASE at.entry < Len(Hx!Entries(at.arch))
    <3>1. at' = [at EXCEPT !.entry = @ + 1] /\ phase' = "entry"
      BY <2>1 DEF Hx!ToNextEntry
    <3>2. at'.arch = at.arch /\ at'.entry = at.entry + 1 /\ at' = [arch |-> at'.arch, entry |-> at'.entry]
      BY <3>1 DEF PlaceInv
    <3>3. at.entry + 1 \in DOMAIN Hx!Entries(at.arch)
      BY <1>2, <1>3, <2>1
    <3>4. PlaceInv'
      <4>1. PICK a : a = at.arch
        OBVIOUS
      <4>2. (Hx!Entries(a))' = Hx!Entries(a)
        BY <1>1
      <4> QED
        BY <1>1, <1>2, <3>1, <3>2, <3>3, <4>1, <4>2 DEF PlaceInv
    <3>5. ASSUME NEW a \in Hx!Archives, NEW i \in DOMAIN Hx!Entries(a), Passed(a, i)'
          PROVE  Passed(a, i) \/ (a = at.arch /\ i = at.entry)
      BY <1>2, <1>3, <3>1, <3>2, <3>5 DEF Passed
    <3> QED
      BY <3>1, <3>2, <3>4, <3>5
  <2>2. CASE ~(at.entry < Len(Hx!Entries(at.arch)))
    <3>1. Hx!ToNextArchive
      BY <2>2 DEF Hx!ToNextEntry
    <3>2. /\ PlaceInv' /\ phase' \in {"archive", "end"}
          /\ \A a \in Hx!Archives : \A i \in DOMAIN Hx!Entries(a) : Passed(a, i)' => a <= at.arch
      BY <1>2, <3>1, NextArchiveStep
    <3>3. ASSUME NEW a \in Hx!Archives, NEW i \in DOMAIN Hx!Entries(a), a <= at.arch
          PROVE  Passed(a, i) \/ (a = at.arch /\ i = at.entry)
      BY <1>2, <1>3, <2>2, <3>3 DEF Passed
    <3> QED
      BY <3>2, <3>3
  <2> QED
    BY <2>1, <2>2
<1>6. ASSUME NEW a \in Hx!Archives, NEW i \in DOMAIN Hx!Entries(a), Passed(a, i)'
      PROVE  /\ Hx!RealName(before.known[a], a, i) # {} => <<a, i>> \in tried'
             /\ active /\ Hx!RealName(known[a], a, i) = {} => <<a, i>> \in probed'
  <2>1. CASE Passed(a, i)
    BY <2>1 DEF PassedInv, Running
  <2>2. CASE a = at.arch /\ i = at.entry
    <3>1. Hx!RealName(before.known[a], a, i) \subseteq Hx!RealName(known[a], a, i)
      BY <1>4, <2>2, NamesGrow DEF Within
    <3> QED
      BY <1>4, <2>2, <3>1 DEF Hx!Here
  <2> QED
    BY <1>5, <1>6, <2>1, <2>2
<1>7. PassedInv'
  <2> SUFFICES ASSUME NEW a \in Hx!Archives, NEW i \in DOMAIN Hx!Entries(a), Passed(a, i)'
               PROVE  /\ (Hx!RealName(before.known[a], a, i))' # {} => <<a, i>> \in tried'
                      /\ active' /\ (Hx!RealName(known[a], a, i))' = {} => <<a, i>> \in probed'
    BY <1>1 DEF PassedInv
  <2>1. PICK k : k = known[a]
    OBVIOUS
  <2>2. PICK b : b = before.known[a]
    OBVIOUS
  <2>3. (Hx!RealName(k, a, i))' = Hx!RealName(k, a, i) /\ (Hx!RealName(b, a, i))' = Hx!RealName(b, a, i)
    BY <1>1
  <2> QED
    BY <1>6, <2>1, <2>2, <2>3
<1> QED
  BY <1>5, <1>7

LEMMA GotGrows ==
  ASSUME hxGame' = hxGame, phase # "seed", phase' # "seed", phase # "failed", GotInv, Within(map, map'),
         \A g \in got' : g \in got \/
           (g[2].true => Within(Hx!Retained(Hx!Entries(g[1][1])[g[1][2]].says), map'))
  PROVE  GotInv'
<1>1. /\ \A a : (Hx!Entries(a))' = Hx!Entries(a)
      /\ \A w : (Hx!Retained(w))' = Hx!Retained(w)
  BY GameStays
<1> SUFFICES ASSUME NEW g \in got', g[2].true
             PROVE  Within(Hx!Retained(Hx!Entries(g[1][1])[g[1][2]].says), map)'
  BY DEF GotInv
<1>2. PICK m : m = map'
  OBVIOUS
<1>3. Within(Hx!Retained(Hx!Entries(g[1][1])[g[1][2]].says), m)
  <2>1. CASE g \in got
    BY <1>2, <2>1, WithinWithin DEF GotInv
  <2> QED
    BY <1>2, <2>1
<1>4. (Hx!Retained(Hx!Entries(g[1][1])[g[1][2]].says))' = Hx!Retained(Hx!Entries(g[1][1])[g[1][2]].says)
  <2>1. PICK e : e = Hx!Entries(g[1][1])
    OBVIOUS
  <2>2. (Hx!Entries(g[1][1]))' = e
    BY <1>1, <2>1
  <2>3. PICK w : w = e[g[1][2]].says
    OBVIOUS
  <2>4. (Hx!Retained(w))' = Hx!Retained(w)
    BY <1>1
  <2> QED
    BY <2>1, <2>2, <2>3, <2>4
<1> QED
  BY <1>2, <1>3, <1>4 DEF Within

LEMMA SeedStep ==
  ASSUME CoreInv, Hx!Seed
  PROVE  CoreInv'
<1>1. /\ phase = "seed" /\ hxGame' = hxGame /\ map' = Hx!Join(Hx!Dictionary, Hx!Seeds)
      /\ known' = [a \in Hx!Archives |-> map'] /\ got' = got /\ at' = at
      /\ \/ phase' = "done" /\ why' = "complete"
         \/ phase' = "round" /\ why' = why
  BY DEF Hx!Seed
<1>2. (Hx!Archives)' = Hx!Archives
  BY <1>1, GameStays
<1>3. IsMap(map')
  BY <1>1, Joined
<1>4. MapsInv'
  BY <1>1, <1>2, <1>3 DEF MapsInv, IsIndexes, Running, Within, IsMap
<1>5. PlaceInv' /\ PassedInv' /\ WhyInv' /\ GotInv'
  BY <1>1 DEF PlaceInv, PassedInv, WhyInv, GotInv, CoreInv, Running
<1> QED
  BY <1>1, <1>4, <1>5 DEF CoreInv

LEMMA BeginRoundStep ==
  ASSUME CoreInv, Hx!BeginRound
  PROVE  CoreInv'
<1>1. /\ phase = "round" /\ hxGame' = hxGame /\ map' = map /\ known' = known /\ got' = got /\ active' = active
      /\ tried' = tried /\ probed' = probed
      /\ \/ phase' = "done" /\ why' = "limit" /\ at' = at
         \/ phase' = "archive" /\ why' = why /\ at' = Hx!Nobody /\ before' = [map |-> map, known |-> known]
  BY DEF Hx!BeginRound
<1>2. (Hx!Archives)' = Hx!Archives /\ 1 \in Hx!Archives
  BY <1>1, GameStays, GameIs DEF CoreInv
<1>3. MapsInv'
  BY <1>1, <1>2 DEF MapsInv, IsIndexes, Running, Within, IsMap, CoreInv
<1>4. PlaceInv'
  BY <1>1, <1>2 DEF PlaceInv, CoreInv, Hx!Nobody
<1>5. PassedInv'
  <2>1. CASE phase' = "done"
    BY <2>1 DEF PassedInv, Running
  <2>2. CASE phase' = "archive"
    <3>1. at'.arch = 1 /\ at'.entry = 1
      BY <1>1, <2>2 DEF Hx!Nobody
    <3>2. ASSUME NEW a \in Hx!Archives, NEW i \in DOMAIN Hx!Entries(a)
          PROVE  ~ Passed(a, i)'
      <4>1. a \in Nat /\ a >= 1 /\ i \in Nat /\ i >= 1
        BY GameIs DEF CoreInv
      <4> QED
        BY <2>2, <3>1, <4>1 DEF Passed
    <3>3. \A a : (Hx!Entries(a))' = Hx!Entries(a)
      BY <1>1, GameStays
    <3> QED
      BY <1>2, <3>2, <3>3 DEF PassedInv
  <2> QED
    BY <1>1, <2>1, <2>2
<1>6. WhyInv'
  BY <1>1 DEF WhyInv, CoreInv
<1>7. GotInv'
  BY <1>1, GotGrows DEF CoreInv, Within
<1> QED
  BY <1>1, <1>3, <1>4, <1>5, <1>6, <1>7 DEF CoreInv

LEMMA EnterArchiveStep ==
  ASSUME CoreInv, Hx!EnterArchive
  PROVE  CoreInv'
<1>1. /\ phase = "archive" /\ hxGame' = hxGame /\ map' = map /\ got' = got /\ active' = active
      /\ tried' = tried /\ probed' = probed /\ before' = before /\ why' = why
      /\ known' = [known EXCEPT ![at.arch] = Hx!Join(@, map)] /\ snap' = Hx!Join(known[at.arch], map)
      /\ \/ Hx!Entries(at.arch) = <<>> /\ Hx!ToNextArchive
         \/ Hx!Entries(at.arch) # <<>> /\ at' = at /\ phase' = "entry"
  BY DEF Hx!EnterArchive
<1>2. /\ (Hx!Archives)' = Hx!Archives /\ at.arch \in Hx!Archives /\ at.entry = 1
      /\ \A a : (Hx!Entries(a))' = Hx!Entries(a)
      /\ \A k, a, i : (Hx!RealName(k, a, i))' = Hx!RealName(k, a, i)
  BY <1>1, GameStays DEF PlaceInv, CoreInv
<1>3. /\ PlaceInv' /\ phase' \in {"archive", "entry", "end"} /\ (phase' = "entry" => at'.arch = at.arch)
      /\ \A a \in Hx!Archives : \A i \in DOMAIN Hx!Entries(a) : Passed(a, i)' => Passed(a, i)
  <2>1. CASE Hx!Entries(at.arch) = <<>>
    <3>1. /\ PlaceInv' /\ phase' \in {"archive", "end"}
          /\ \A a \in Hx!Archives : \A i \in DOMAIN Hx!Entries(a) : Passed(a, i)' => a <= at.arch
      BY <1>1, <1>2, <2>1, NextArchiveStep DEF CoreInv
    <3>2. ASSUME NEW a \in Hx!Archives, NEW i \in DOMAIN Hx!Entries(a), a <= at.arch
          PROVE  Passed(a, i)
      <4>1. a # at.arch
        BY <2>1
      <4>2. a \in Nat /\ at.arch \in Nat
        BY <1>2, GameIs DEF CoreInv
      <4> QED
        BY <3>2, <4>1, <4>2 DEF Passed
    <3> QED
      BY <3>1, <3>2
  <2>2. CASE Hx!Entries(at.arch) # <<>>
    <3>1. 1 \in DOMAIN Hx!Entries(at.arch)
      BY <1>2, <2>2, GameIs DEF CoreInv
    <3>2. PICK a : a = at.arch
      OBVIOUS
    <3>3. (Hx!Entries(a))' = Hx!Entries(a)
      BY <1>2
    <3>4. PlaceInv'
      BY <1>1, <1>2, <2>2, <3>1, <3>2, <3>3 DEF PlaceInv, CoreInv
    <3> QED
      BY <1>1, <2>2, <3>4 DEF Passed
  <2> QED
    BY <2>1, <2>2
<1>4. /\ IsIndexes(known)' /\ \A a \in Hx!Archives : Within(known[a], known'[a]) /\ Within(known'[a], map)
      /\ known'[at.arch] = snap'
  <2>1. known = [a \in Hx!Archives |-> known[a]] /\ \A a \in Hx!Archives : IsMap(known[a]) /\ Within(known[a], map)
    BY DEF CoreInv, MapsInv, IsIndexes
  <2>2. \A a \in Hx!Archives : known'[a] = IF a = at.arch THEN Hx!Join(known[a], map) ELSE known[a]
    BY <1>1, <2>1
  <2>3. \A a \in Hx!Archives : IsMap(known'[a])
    BY <2>1, <2>2, Joined
  <2>4. known' = [a \in Hx!Archives |-> known'[a]]
    BY <1>1, <2>1
  <2>5. \A a \in Hx!Archives : Within(known[a], known'[a]) /\ Within(known'[a], map)
    <3> SUFFICES ASSUME NEW a \in Hx!Archives
                 PROVE  Within(known[a], known'[a]) /\ Within(known'[a], map)
      OBVIOUS
    <3>1. Within(map, map) /\ Within(known[a], known[a])
      BY DEF Within
    <3>2. Within(known[a], Hx!Join(known[a], map)) /\ Within(Hx!Join(known[a], map), map)
      BY <2>1, <3>1, Joined
    <3> QED
      BY <2>1, <2>2, <3>1, <3>2
  <2>6. IsIndexes(known)'
    BY <1>2, <2>3, <2>4 DEF IsIndexes, IsMap
  <2> QED
    BY <1>1, <1>2, <2>2, <2>5, <2>6
<1>5. MapsInv'
  <2>1. Running
    BY <1>1 DEF Running
  <2>2. \A a \in Hx!Archives : Within(before.known[a], known'[a])
    BY <1>4, <2>1, WithinWithin DEF CoreInv, MapsInv
  <2>3. IsIndexes(before.known)'
    BY <1>1, <1>2, <2>1 DEF CoreInv, MapsInv, IsIndexes, IsMap
  <2>4. phase' = "entry" => snap' = known'[at'.arch]
    BY <1>3, <1>4
  <2> QED
    BY <1>1, <1>2, <1>4, <2>1, <2>2, <2>3, <2>4 DEF CoreInv, MapsInv, IsMap, Within
<1>6. PassedInv'
  <2> SUFFICES ASSUME NEW a \in Hx!Archives, NEW i \in DOMAIN Hx!Entries(a), Passed(a, i)'
               PROVE  /\ (Hx!RealName(before.known[a], a, i))' # {} => <<a, i>> \in tried'
                      /\ active' /\ (Hx!RealName(known[a], a, i))' = {} => <<a, i>> \in probed'
    BY <1>2 DEF PassedInv
  <2>1. /\ Hx!RealName(before.known[a], a, i) # {} => <<a, i>> \in tried
        /\ active /\ Hx!RealName(known[a], a, i) = {} => <<a, i>> \in probed
    BY <1>1, <1>3 DEF CoreInv, PassedInv, Running
  <2>2. PICK k : k = known'[a]
    OBVIOUS
  <2>3. PICK b : b = before.known[a]
    OBVIOUS
  <2>4. (Hx!RealName(k, a, i))' = Hx!RealName(k, a, i) /\ (Hx!RealName(b, a, i))' = Hx!RealName(b, a, i)
    BY <1>2
  <2>5. Hx!RealName(known[a], a, i) \subseteq Hx!RealName(k, a, i)
    BY <1>4, <2>2, NamesGrow DEF Within
  <2> QED
    BY <1>1, <2>1, <2>2, <2>3, <2>4, <2>5
<1>7. WhyInv'
  BY <1>1 DEF WhyInv, CoreInv
<1>8. GotInv'
  BY <1>1, <1>3, GotGrows DEF CoreInv, Within
<1> QED
  BY <1>1, <1>3, <1>5, <1>6, <1>7, <1>8 DEF CoreInv

(* While entries are passed the indexes stay and the dictionary grows. *)
LEMMA MapGrows ==
  ASSUME hxGame' = hxGame, MapsInv, phase = "entry", phase' # "entry" \/ at'.arch = at.arch, IsMap(map'), Within(map, map'),
         known' = known, before' = before, snap' = snap
  PROVE  MapsInv'
<1>1. (Hx!Archives)' = Hx!Archives
  BY GameStays
<1>2. \A a \in Hx!Archives : Within(known[a], map')
  BY WithinWithin DEF MapsInv
<1>3. Within(before.map, map')
  BY WithinWithin DEF MapsInv, Running
<1>4. IsIndexes(known)' /\ IsIndexes(before.known)'
  BY <1>1 DEF MapsInv, Running, IsIndexes, IsMap
<1> QED
  BY <1>1, <1>2, <1>3, <1>4 DEF MapsInv, Running, IsMap, Within

LEMMA SkipStep ==
  ASSUME CoreInv, Hx!SkipEntry
  PROVE  CoreInv'
<1>1. /\ phase = "entry" /\ Hx!ToNextEntry /\ hxGame' = hxGame
      /\ map' = map /\ known' = known /\ snap' = snap /\ before' = before /\ got' = got /\ why' = why /\ active' = active
      /\ tried' = tried /\ probed' = probed
      /\ IF Hx!RealName(snap, at.arch, at.entry) = {} THEN ~active \/ Hx!Here \in probed ELSE Hx!Here \in tried
  BY DEF Hx!SkipEntry
<1>2. PassedInv' /\ PlaceInv' /\ phase' \in {"archive", "entry", "end"} /\ (phase' = "entry" => at'.arch = at.arch)
  BY <1>1, PassEntry DEF CoreInv
<1>3. MapsInv'
  <2>1. IsMap(map') /\ Within(map, map')
    BY <1>1 DEF CoreInv, MapsInv, Within, IsMap
  <2> QED
    BY <1>1, <1>2, <2>1, MapGrows DEF CoreInv
<1>4. GotInv' /\ WhyInv'
  <2>1. GotInv'
    BY <1>1, <1>2, GotGrows DEF CoreInv, Within
  <2> QED
    BY <1>1, <2>1 DEF CoreInv, WhyInv
<1> QED
  BY <1>1, <1>2, <1>3, <1>4 DEF CoreInv

(* The words of what was recovered now are in the dictionary. *)
LEMMA MinedIn ==
  ASSUME NEW e, NEW r, map' = Hx!Join(map, Hx!Mined(e, r)), MapsInv
  PROVE  IsMap(map') /\ Within(map, map') /\ (r.true => Within(Hx!Retained(e.says), map'))
  BY Joined DEF Hx!Mined

LEMMA ProbeStep ==
  ASSUME CoreInv, Hx!ProbeEntry
  PROVE  CoreInv'
<1>1. PICK r : /\ map' = Hx!Join(map, Hx!Mined(Hx!E, r))
               /\ got' = IF r = Hx!Lost THEN got ELSE got \cup {<<Hx!Here, r>>}
  BY DEF Hx!ProbeEntry
<1>2. /\ phase = "entry" /\ active /\ Hx!ToNextEntry /\ hxGame' = hxGame
      /\ Hx!RealName(snap, at.arch, at.entry) = {}
      /\ known' = known /\ snap' = snap /\ before' = before /\ why' = why /\ active' = active
      /\ tried' = tried /\ probed' = probed \cup {Hx!Here}
  BY DEF Hx!ProbeEntry
<1>3. PassedInv' /\ PlaceInv' /\ phase' \in {"archive", "entry", "end"} /\ (phase' = "entry" => at'.arch = at.arch)
  BY <1>2, PassEntry DEF CoreInv
<1>4. IsMap(map') /\ Within(map, map') /\ (r.true => Within(Hx!Retained(Hx!E.says), map'))
  BY <1>1, MinedIn DEF CoreInv
<1>5. MapsInv'
  BY <1>2, <1>3, <1>4, MapGrows DEF CoreInv
<1>6. GotInv'
  BY <1>1, <1>2, <1>3, <1>4, GotGrows DEF CoreInv, Hx!Here, Hx!E
<1> QED
  BY <1>2, <1>3, <1>5, <1>6 DEF CoreInv, WhyInv

LEMMA NameStep ==
  ASSUME CoreInv, Hx!NameEntry
  PROVE  CoreInv'
<1>1. /\ phase = "entry" /\ hxGame' = hxGame
      /\ known' = known /\ snap' = snap /\ before' = before /\ why' = why /\ active' = active
      /\ Hx!RealName(snap, at.arch, at.entry) # {}
      /\ probed' = probed /\ tried' = tried \cup {Hx!Here}
  BY DEF Hx!NameEntry
<1>2. PICK r : /\ got' = IF r = Hx!Lost THEN got ELSE got \cup {<<Hx!Here, r>>}
               /\ \/ phase' = "failed" /\ at' = at /\ map' = map
                  \/ map' = Hx!Join(map, Hx!Mined(Hx!E, r)) /\ Hx!ToNextEntry
  BY DEF Hx!NameEntry
<1>3. CASE phase' = "failed" /\ at' = at /\ map' = map
  <2>1. MapsInv'
    <3>1. IsMap(map') /\ Within(map, map')
      BY <1>3 DEF CoreInv, MapsInv, Within, IsMap
    <3> QED
      BY <1>1, <1>3, <3>1, MapGrows DEF CoreInv
  <2>2. PlaceInv' /\ PassedInv' /\ GotInv' /\ WhyInv'
    BY <1>1, <1>3 DEF PlaceInv, PassedInv, Running, GotInv, WhyInv, CoreInv
  <2> QED
    BY <1>1, <2>1, <2>2 DEF CoreInv
<1>4. CASE map' = Hx!Join(map, Hx!Mined(Hx!E, r)) /\ Hx!ToNextEntry
  <2>1. PassedInv' /\ PlaceInv' /\ phase' \in {"archive", "entry", "end"} /\ (phase' = "entry" => at'.arch = at.arch)
    BY <1>1, <1>4, PassEntry DEF CoreInv
  <2>2. IsMap(map') /\ Within(map, map') /\ (r.true => Within(Hx!Retained(Hx!E.says), map'))
    BY <1>4, MinedIn DEF CoreInv
  <2>3. MapsInv'
    BY <1>1, <2>1, <2>2, MapGrows DEF CoreInv
  <2>4. GotInv'
    BY <1>1, <1>2, <2>1, <2>2, GotGrows DEF CoreInv, Hx!Here, Hx!E
  <2> QED
    BY <1>1, <2>1, <2>3, <2>4 DEF CoreInv, WhyInv
<1> QED
  BY <1>2, <1>3, <1>4

(* FixedPointIsComplete of the next state, in terms of this game. *)
LEMMA FixedNext ==
  ASSUME hxGame' = hxGame, NEW k, NEW m, known' = k, map' = m,
         \A p \in Hx!Places : IF Hx!RealName(k[p[1]], p[1], p[2]) # {} THEN p \in tried'
                              ELSE Hx!Unresolved(k) # {} => p \in probed',
         \A g \in got' : g[2].true => Within(Hx!Retained(Hx!Entries(g[1][1])[g[1][2]].says), m),
         \A a \in Hx!Archives : k[a] = m /\ Hx!Neighbours(k[a], a) \subseteq m.names
  PROVE  (Hx!FixedPointIsComplete)'
<1>1. /\ (Hx!Archives)' = Hx!Archives
      /\ \A a : (Hx!Entries(a))' = Hx!Entries(a)
      /\ \A l, a, i : (Hx!RealName(l, a, i))' = Hx!RealName(l, a, i)
      /\ \A w : (Hx!Retained(w))' = Hx!Retained(w)
      /\ (Hx!Unresolved(k))' = Hx!Unresolved(k)
      /\ \A l, a : (Hx!Neighbours(l, a))' = Hx!Neighbours(l, a)
      /\ (Hx!Places)' = Hx!Places
  BY GameStays
<1>2. \A p \in Hx!Places : IF (Hx!RealName(known[p[1]], p[1], p[2]))' # {} THEN p \in tried'
                           ELSE (Hx!Unresolved(known))' # {} => p \in probed'
  <2> SUFFICES ASSUME NEW p \in Hx!Places
               PROVE  IF (Hx!RealName(known[p[1]], p[1], p[2]))' # {} THEN p \in tried'
                      ELSE (Hx!Unresolved(known))' # {} => p \in probed'
    OBVIOUS
  <2>1. PICK l : l = k[p[1]]
    OBVIOUS
  <2>2. (Hx!RealName(l, p[1], p[2]))' = Hx!RealName(l, p[1], p[2])
    BY <1>1
  <2> QED
    BY <1>1, <2>1, <2>2
<1>3. \A g \in got' : g[2].true =>
         Within((Hx!Retained(Hx!Entries(g[1][1])[g[1][2]].says))', map')
  <2> SUFFICES ASSUME NEW g \in got', g[2].true
               PROVE  Within((Hx!Retained(Hx!Entries(g[1][1])[g[1][2]].says))', m)
    OBVIOUS
  <2>1. PICK e : e = Hx!Entries(g[1][1])
    OBVIOUS
  <2>2. (Hx!Entries(g[1][1]))' = e
    BY <1>1, <2>1
  <2>3. PICK w : w = e[g[1][2]].says
    OBVIOUS
  <2>4. (Hx!Retained(w))' = Hx!Retained(w)
    BY <1>1
  <2> QED
    BY <2>1, <2>2, <2>3, <2>4
<1>4. \A a \in Hx!Archives : known'[a] = map' /\ (Hx!Neighbours(known[a], a))' \subseteq map'.names
  <2> SUFFICES ASSUME NEW a \in Hx!Archives
               PROVE  known'[a] = map' /\ (Hx!Neighbours(known[a], a))' \subseteq map'.names
    OBVIOUS
  <2>1. PICK l : l = k[a]
    OBVIOUS
  <2>2. (Hx!Neighbours(l, a))' = Hx!Neighbours(l, a)
    BY <1>1
  <2> QED
    BY <2>1, <2>2
<1> QED
  BY <1>1, <1>2, <1>3, <1>4 DEF Hx!FixedPointIsComplete, Within

(* A round without growth that saw every entry, with or without names:     *)
(* there is nothing left to learn.                                         *)
LEMMA Settled ==
  ASSUME CoreInv, phase = "end", hxGame' = hxGame, tried' = tried, probed' = probed, got' = got,
         map' = Hx!EndMap, known' = Hx!EndKnown, ~Hx!Grew, active \/ Hx!Unresolved(Hx!EndKnown) = {}
  PROVE  (Hx!FixedPointIsComplete)'
<1>2. /\ Hx!EndMap = before.map
      /\ \A a \in Hx!Archives : Hx!Resolved(Hx!EndKnown[a], a) = Hx!Resolved(before.known[a], a)
  BY DEF Hx!Grew
<1>3. IsMap(Hx!EndMap) /\ Within(map, Hx!EndMap)
  <2>1. PICK n, q : map = [names |-> n, paths |-> q]
    BY DEF CoreInv, MapsInv, IsMap
  <2> QED
    BY <2>1 DEF Hx!EndMap, IsMap, Within
<1>4. \A a \in Hx!Archives : Hx!EndKnown[a] = Hx!EndMap
  BY <1>3, Joined, WithinWithin DEF Hx!EndKnown, CoreInv, MapsInv
<1>5. \A p \in Hx!Places : IF Hx!RealName(Hx!EndKnown[p[1]], p[1], p[2]) # {} THEN p \in tried
                           ELSE active => p \in probed
  <2> SUFFICES ASSUME NEW a \in Hx!Archives, NEW i \in DOMAIN Hx!Entries(a)
               PROVE  IF Hx!RealName(Hx!EndKnown[a], a, i) # {} THEN <<a, i>> \in tried
                      ELSE active => <<a, i>> \in probed
    BY DEF Hx!Places
  <2>1. Hx!RealName(Hx!EndKnown[a], a, i) = Hx!RealName(before.known[a], a, i)
    BY <1>2, NamesResolved
  <2>2. Hx!RealName(known[a], a, i) \subseteq Hx!RealName(Hx!EndKnown[a], a, i)
    <3>1. Within(known[a], Hx!EndKnown[a])
      BY <1>3, <1>4, WithinWithin DEF CoreInv, MapsInv
    <3> QED
      BY <3>1, NamesGrow DEF Within
  <2>3. /\ Hx!RealName(before.known[a], a, i) # {} => <<a, i>> \in tried
        /\ active /\ Hx!RealName(known[a], a, i) = {} => <<a, i>> \in probed
    BY DEF CoreInv, PassedInv, Running, Passed
  <2> QED
    BY <2>1, <2>2, <2>3
<1>6. \A a \in Hx!Archives : Hx!Neighbours(Hx!EndKnown[a], a) \subseteq Hx!EndMap.names
  <2> SUFFICES ASSUME NEW a \in Hx!Archives
               PROVE  Hx!Neighbours(Hx!EndKnown[a], a) \subseteq Hx!EndMap.names
    OBVIOUS
  <2>1. Hx!Neighbours(Hx!Applied[a], a) \subseteq Hx!EndMap.names
    BY DEF Hx!EndMap, IsMap, CoreInv, MapsInv
  <2>2. Hx!EndKnown[a].names \cap {r.name : r \in Hx!Current(a)} \subseteq Hx!Applied[a].names
    <3>1. Within(before.known[a], Hx!Applied[a])
      BY Joined, WithinWithin DEF Hx!Applied, CoreInv, MapsInv, Running
    <3> SUFFICES ASSUME NEW r \in Hx!Current(a), r.name \in Hx!EndKnown[a].names
                 PROVE  r.name \in Hx!Applied[a].names
      OBVIOUS
    <3>2. r \in Hx!Resolved(Hx!EndKnown[a], a)
      BY DEF Hx!Resolved, Hx!Named
    <3>3. r.name \in before.known[a].names
      BY <1>2, <3>2 DEF Hx!Resolved, Hx!Named
    <3> QED
      BY <3>1, <3>3 DEF Within
  <2>3. Hx!Neighbours(Hx!EndKnown[a], a) \subseteq Hx!Neighbours(Hx!Applied[a], a)
    BY <2>2 DEF Hx!Neighbours
  <2> QED
    BY <2>1, <2>3
<1>7. ASSUME NEW g \in got, g[2].true
      PROVE  Within(Hx!Retained(Hx!Entries(g[1][1])[g[1][2]].says), Hx!EndMap)
  BY <1>3, <1>7, WithinWithin DEF CoreInv, GotInv
<1>8. \A p \in Hx!Places : IF Hx!RealName(Hx!EndKnown[p[1]], p[1], p[2]) # {} THEN p \in tried'
                           ELSE Hx!Unresolved(Hx!EndKnown) # {} => p \in probed'
  BY <1>5
<1>9. \A a \in Hx!Archives : Hx!EndKnown[a] = Hx!EndMap /\ Hx!Neighbours(Hx!EndKnown[a], a) \subseteq Hx!EndMap.names
  BY <1>4, <1>6
<1>10. PICK k, m : k = Hx!EndKnown /\ m = Hx!EndMap
  OBVIOUS
<1> QED
  BY <1>7, <1>8, <1>9, <1>10, FixedNext

LEMMA EndRoundStep ==
  ASSUME CoreInv, Hx!EndRound
  PROVE  CoreInv'
<1>1. /\ phase = "end" /\ hxGame' = hxGame /\ map' = Hx!EndMap /\ known' = Hx!EndKnown
      /\ tried' = tried /\ probed' = probed /\ got' = got /\ at' = at /\ why # "fixed"
      /\ \/ phase' = "round" /\ why' = why
         \/ phase' = "done" /\ ~Hx!Grew /\ (active \/ Hx!Unresolved(Hx!EndKnown) = {})
  BY DEF Hx!EndRound, CoreInv, WhyInv
<1>2. (Hx!Archives)' = Hx!Archives
  BY <1>1, GameStays
<1>3. IsMap(map') /\ Within(map, map')
  <2>1. PICK n, q : map = [names |-> n, paths |-> q]
    BY DEF CoreInv, MapsInv, IsMap
  <2> QED
    BY <1>1, <2>1 DEF Hx!EndMap, IsMap, Within
<1>4. known' = [a \in Hx!Archives |-> map']
  <2>1. \A a \in Hx!Archives : Hx!Join(known[a], map') = map'
    BY <1>3, Joined, WithinWithin DEF CoreInv, MapsInv
  <2> QED
    BY <1>1, <2>1 DEF Hx!EndKnown
<1>5. MapsInv'
  BY <1>1, <1>2, <1>3, <1>4 DEF MapsInv, IsIndexes, Running, Within, IsMap
<1>6. PlaceInv' /\ PassedInv'
  BY <1>1 DEF PlaceInv, PassedInv, Running, CoreInv
<1>7. GotInv'
  BY <1>1, <1>3, GotGrows DEF CoreInv
<1>8. WhyInv'
  BY <1>1, Settled DEF WhyInv
<1> QED
  BY <1>1, <1>5, <1>6, <1>7, <1>8 DEF CoreInv

LEMMA BootstrapStep ==
  ASSUME CoreInv, Hx!Next
  PROVE  CoreInv' /\ phase' # "idle"
<1>1. CoreInv'
  BY SeedStep, BeginRoundStep, EnterArchiveStep, SkipStep, ProbeStep, NameStep, EndRoundStep DEF Hx!Next
<1>2. phase' # "idle"
  BY DEF Hx!Next, Hx!Seed, Hx!BeginRound, Hx!EnterArchive, Hx!SkipEntry, Hx!ProbeEntry, Hx!NameEntry, Hx!EndRound,
         Hx!ToNextEntry, Hx!ToNextArchive
<1> QED
  BY <1>1, <1>2

LEMMA BootstrapInit == RouteInit => HxInv
  BY DEF RouteInit, HxInv

LEMMA StartStep ==
  ASSUME HxInv, StartBootstrap
  PROVE  HxInv'
<1>1. /\ gate = "names" /\ phase = "idle" /\ why = "none" /\ got = {} /\ map = Hx!NoNames
      /\ gate' = "hx" /\ phase' = "seed" /\ why' = why /\ got' = got /\ map' = map /\ at' = at
  BY DEF StartBootstrap, HxInv
<1>0. at = Hx!Nobody
  BY <1>1 DEF HxInv
<1>2. PICK g \in HxGames : hxGame' = g /\ known' = [a \in DOMAIN g.arch |-> Hx!NoNames]
  BY DEF StartBootstrap
<1>3. MapsInv'
  <2>1. (Hx!Archives)' = DOMAIN g.arch
    BY <1>2 DEF Hx!Archives
  <2> QED
    BY <1>1, <1>2, <2>1 DEF MapsInv, IsMap, IsIndexes, Within, Running, Hx!NoNames
<1>4. PlaceInv' /\ PassedInv' /\ GotInv' /\ WhyInv'
  BY <1>1, <1>0 DEF PlaceInv, PassedInv, Running, GotInv, WhyInv, Hx!Nobody
<1> QED
  BY <1>1, <1>2, <1>3, <1>4 DEF HxInv

LEMMA CoreStays ==
  ASSUME CoreInv, UNCHANGED hxVars
  PROVE  CoreInv'
<1>1. /\ hxGame' = hxGame /\ phase' = phase /\ map' = map /\ known' = known /\ before' = before /\ at' = at
      /\ snap' = snap /\ got' = got /\ tried' = tried /\ probed' = probed /\ why' = why /\ active' = active
  BY DEF hxVars
<1>2. MapsInv'
  <2>1. (Hx!Archives)' = Hx!Archives
    BY <1>1, GameStays
  <2> QED
    BY <1>1, <2>1 DEF CoreInv, MapsInv, IsMap, IsIndexes, Within, Running
<1>3. PlaceInv' /\ PassedInv'
  <2>1. /\ (Hx!Archives)' = Hx!Archives
        /\ \A a : (Hx!Entries(a))' = Hx!Entries(a)
        /\ \A l, a, i : (Hx!RealName(l, a, i))' = Hx!RealName(l, a, i)
    BY <1>1, GameStays
  <2>2. PlaceInv'
    <3>1. PICK a : a = at.arch
      OBVIOUS
    <3> QED
      BY <1>1, <2>1, <3>1 DEF CoreInv, PlaceInv
  <2>3. PassedInv'
    <3> SUFFICES ASSUME Running, NEW a \in Hx!Archives, NEW i \in DOMAIN Hx!Entries(a), Passed(a, i)
                 PROVE  /\ (Hx!RealName(before.known[a], a, i))' # {} => <<a, i>> \in tried
                        /\ active /\ (Hx!RealName(known[a], a, i))' = {} => <<a, i>> \in probed
      BY <1>1, <2>1 DEF PassedInv, Running, Passed
    <3>1. PICK k, b : k = known[a] /\ b = before.known[a]
      OBVIOUS
    <3>2. (Hx!RealName(k, a, i))' = Hx!RealName(k, a, i) /\ (Hx!RealName(b, a, i))' = Hx!RealName(b, a, i)
      BY <2>1
    <3> QED
      BY <1>1, <3>1, <3>2 DEF CoreInv, PassedInv
  <2> QED
    BY <2>2, <2>3
<1>4. GotInv'
  <2>1. CASE phase = "seed" \/ phase = "failed"
    BY <1>1, <2>1 DEF CoreInv, GotInv
  <2>2. CASE phase # "seed" /\ phase # "failed"
    BY <1>1, <2>2, GotGrows DEF CoreInv, Within
  <2> QED
    BY <2>1, <2>2
<1>5. WhyInv'
  <2> SUFFICES ASSUME why = "fixed"
               PROVE  (Hx!FixedPointIsComplete)'
    BY <1>1 DEF CoreInv, WhyInv
  <2>1. PICK k, m : k = known /\ m = map
    OBVIOUS
  <2>2. /\ \A p \in Hx!Places : IF Hx!RealName(known[p[1]], p[1], p[2]) # {} THEN p \in tried
                                ELSE Hx!Unresolved(known) # {} => p \in probed
        /\ \A g \in got : g[2].true => Within(Hx!Retained(Hx!Entries(g[1][1])[g[1][2]].says), map)
        /\ \A a \in Hx!Archives : known[a] = map /\ Hx!Neighbours(known[a], a) \subseteq map.names
    BY DEF CoreInv, WhyInv, Hx!FixedPointIsComplete, Within
  <2> QED
    BY <1>1, <2>1, <2>2, FixedNext
<1> QED
  BY <1>1, <1>2, <1>3, <1>4, <1>5 DEF CoreInv

LEMMA HxStep ==
  ASSUME HxInv, [RouteNext]_routeVars
  PROVE  HxInv'
<1>1. CASE StartBootstrap
  BY <1>1, StartStep
<1>2. CASE Bootstrap
  <2>1. phase # "idle" /\ gate = "hx" /\ gate' = gate
    BY <1>2 DEF Bootstrap, HxInv
  <2>2. CoreInv' /\ phase' # "idle"
    BY <1>2, <2>1, BootstrapStep DEF Bootstrap, HxInv, CoreInv
  <2> QED
    BY <2>1, <2>2 DEF HxInv, CoreInv
<1>3. CASE UNCHANGED hxVars /\ (gate' = gate \/ gate' \in {"content", "failed", "stopped"})
  <2>1. phase # "idle" => CoreInv'
    BY <1>3, CoreStays DEF HxInv, CoreInv
  <2> QED
    BY <1>3, <2>1 DEF HxInv, CoreInv, hxVars
<1> QED
  BY <1>1, <1>2, <1>3 DEF RouteNext, routeVars, OrderedNames, ToContent, IndexLocked, BootstrapOver

(* Of the bootstrap: indexes within the dictionary, the entries the round  *)
(* has passed, and what was learnt from them.                              *)
THEOREM BootstrapInductive == RouteSpec => []HxInv
  BY BootstrapInit, HxStep, PTL DEF RouteSpec

(* Whatever names lead to one another, in the archive or its siblings: a   *)
(* bootstrap that ends by itself has tried every entry and learnt every    *)
(* word and number (the loop of bootstrap_hxv4_names).                     *)
THEOREM BootstrapCorrect == RouteSpec => []FixedPointIsComplete
<1>1. HxInv => FixedPointIsComplete
  BY DEF HxInv, FixedPointIsComplete, WhyInv, Hx!FixedPointIsComplete
<1> QED
  BY BootstrapInductive, <1>1, PTL

----------------------------------------------------------------------------
(* Least elements: where a walk or a route is the first of several, and    *)
(* where a recursive function is built one argument after another.         *)

Less == {p \in Nat \X Nat : p[1] < p[2]}

LEMMA LessWellFounded == IsWellFoundedOn(Less, Nat)
<1>1. Less = OpToRel(<, Nat)
  BY DEF Less, OpToRel
<1> QED
  BY <1>1, NatLessThanWellFounded

LEMMA HasLeast ==
  ASSUME NEW S, S \subseteq Nat, S # {}
  PROVE  Least(S) \in S /\ \A y \in S : Least(S) <= y
<1>1. PICK x \in S : \A y \in S : ~(<<y, x>> \in Less)
  BY LessWellFounded, WFMin
<1>2. ASSUME NEW y \in S
      PROVE  x <= y
  <2>1. ~(<<y, x>> \in Less) /\ y \in Nat /\ x \in Nat
    BY <1>1
  <2>2. <<y, x>> \in Nat \X Nat
    BY <2>1
  <2> QED
    BY <2>1, <2>2 DEF Less
<1> QED
  BY <1>2 DEF Least

----------------------------------------------------------------------------
(* Names bound by order.  Until it is rejected, a walk stands behind chunk *)
(* k with names from chunks f[1] < f[2] < ... that match their entries;    *)
(* from f[1] on, what has their tag is one of them or a warning.           *)

Stands(cs, s, es, k, names, tag, f) ==
  /\ f \in [DOMAIN names -> s .. k]
  /\ \A j \in DOMAIN names :
       /\ cs[f[j]].rec.name = names[j] /\ cs[f[j]].tag = tag
       /\ Matches(cs[f[j]].rec, es[j]) \/ (cs[f[j]].rec.warn /\ es[j].dummy)
  /\ \A i, j \in DOMAIN names : i < j => f[i] < f[j]
  /\ \A i \in s .. k :
       /\ names # <<>> /\ f[1] <= i /\ cs[i].tag = tag
       /\ Len(names) = Len(es) => i <= f[Len(names)]
       => cs[i].rec.warn \/ \E j \in DOMAIN names : f[j] = i

NamesOf(cs) == {cs[i].rec.name : i \in DOMAIN cs}

WalkInv(cs, s, es, k, w) ==
  /\ w = [names |-> w.names, tag |-> w.tag, unknown |-> w.unknown, ok |-> w.ok]
  /\ w.names \in Seq(NamesOf(cs)) /\ Len(w.names) <= Len(es)
  /\ w.tag = "none" => w.names = <<>>
  /\ w.ok => \E f : Stands(cs, s, es, k, w.names, w.tag, f)

LEMMA Taken ==
  ASSUME NEW cs, NEW es, NEW s \in Nat, NEW k \in Nat, s <= k, NEW S, NEW names \in Seq(S), NEW tag,
         Len(es) \in Nat, Len(names) < Len(es), NEW f, Stands(cs, s, es, k - 1, names, tag, f),
         names = <<>> \/ cs[k].tag = tag,
         Matches(cs[k].rec, es[Len(names) + 1]) \/ (cs[k].rec.warn /\ es[Len(names) + 1].dummy),
         NEW more, more = Append(names, cs[k].rec.name)
  PROVE  \E g : Stands(cs, s, es, k, more, cs[k].tag, g)
<1> DEFINE n == Len(names)
           g == [j \in 1 .. n + 1 |-> IF j = n + 1 THEN k ELSE f[j]]
<1>1. n \in Nat /\ DOMAIN names = 1 .. n /\ DOMAIN more = 1 .. n + 1 /\ Len(more) = n + 1
      /\ more[n + 1] = cs[k].rec.name /\ \A j \in 1 .. n : more[j] = names[j]
  OBVIOUS
<1>2. \A j \in 1 .. n : f[j] \in s .. k - 1 /\ g[j] = f[j] /\ j \in DOMAIN names
  BY <1>1 DEF Stands
<1>3. g[n + 1] = k /\ g \in [1 .. n + 1 -> s .. k]
  <2>1. ASSUME NEW j \in 1 .. n + 1
        PROVE  (IF j = n + 1 THEN k ELSE f[j]) \in s .. k
    <3>1. CASE j = n + 1
      BY <3>1
    <3>2. CASE j # n + 1
      <4>1. j \in 1 .. n
        BY <1>1, <3>2
      <4>2. f[j] \in s .. k - 1
        BY <1>2, <4>1
      <4> QED
        BY <3>2, <4>2
    <3> QED
      BY <3>1, <3>2
  <2> QED
    BY <1>1, <2>1
<1> HIDE DEF g
<1>4. ASSUME NEW j \in 1 .. n + 1
      PROVE  /\ cs[g[j]].rec.name = more[j] /\ cs[g[j]].tag = cs[k].tag
             /\ Matches(cs[g[j]].rec, es[j]) \/ (cs[g[j]].rec.warn /\ es[j].dummy)
  <2>1. CASE j = n + 1
    BY <1>1, <1>3, <2>1
  <2>2. CASE j \in 1 .. n
    BY <1>1, <1>2, <2>2 DEF Stands
  <2> QED
    BY <1>1, <2>1, <2>2
<1>5. ASSUME NEW i \in 1 .. n + 1, NEW j \in 1 .. n + 1, i < j
      PROVE  g[i] < g[j]
  <2>1. i \in 1 .. n
    BY <1>1, <1>5
  <2>2. CASE j = n + 1
    BY <1>2, <1>3, <2>1, <2>2
  <2>3. CASE j \in 1 .. n
    BY <1>1, <1>2, <1>5, <2>1, <2>3 DEF Stands
  <2> QED
    BY <1>1, <2>2, <2>3
<1>6. ASSUME NEW i \in s .. k, g[1] <= i, cs[i].tag = cs[k].tag
      PROVE  cs[i].rec.warn \/ \E j \in 1 .. n + 1 : g[j] = i
  <2>1. CASE i = k
    BY <1>1, <1>3, <2>1
  <2>2. CASE i # k /\ n = 0
    BY <1>1, <1>3, <1>6, <2>2
  <2>3. CASE i # k /\ n # 0
    <3>1. i \in s .. k - 1 /\ f[1] <= i /\ names # <<>> /\ cs[i].tag = tag
      BY <1>1, <1>2, <1>6, <2>3
    <3>2. cs[i].rec.warn \/ \E j \in DOMAIN names : f[j] = i
      BY <1>1, <3>1 DEF Stands
    <3> QED
      BY <1>1, <1>2, <3>2
  <2> QED
    BY <2>1, <2>2, <2>3
<1>7. Stands(cs, s, es, k, more, cs[k].tag, g)
  <2>1. g \in [DOMAIN more -> s .. k]
    BY <1>1, <1>3
  <2>2. \A j \in DOMAIN more : /\ cs[g[j]].rec.name = more[j] /\ cs[g[j]].tag = cs[k].tag
                               /\ Matches(cs[g[j]].rec, es[j]) \/ (cs[g[j]].rec.warn /\ es[j].dummy)
    BY <1>1, <1>4
  <2>3. \A i, j \in DOMAIN more : i < j => g[i] < g[j]
    BY <1>1, <1>5
  <2>4. \A i \in s .. k : g[1] <= i /\ cs[i].tag = cs[k].tag => cs[i].rec.warn \/ \E j \in DOMAIN more : g[j] = i
    BY <1>1, <1>6
  <2> QED
    BY <2>1, <2>2, <2>3, <2>4 DEF Stands
<1> QED
  BY <1>7

LEMMA PassedOver ==
  ASSUME NEW cs, NEW es, NEW s \in Nat, NEW k \in Nat, s <= k, NEW S, NEW names \in Seq(S), NEW tag, NEW new,
         Len(es) \in Nat, NEW f, Stands(cs, s, es, k - 1, names, tag, f),
         names = <<>> \/ new = tag,
         Len(names) = Len(es) \/ cs[k].tag # new \/ cs[k].rec.warn
  PROVE  Stands(cs, s, es, k, names, new, f)
<1>1. Len(names) \in Nat /\ DOMAIN names = 1 .. Len(names) /\ (names = <<>> <=> Len(names) = 0)
  OBVIOUS
<1>2. f \in [DOMAIN names -> s .. k] /\ \A j \in DOMAIN names : f[j] < k
  <2>1. f \in [DOMAIN names -> s .. k - 1]
    BY DEF Stands
  <2> QED
    BY <2>1
<1>3. ASSUME NEW i \in s .. k, names # <<>>, f[1] <= i, cs[i].tag = new, Len(names) = Len(es) => i <= f[Len(names)]
      PROVE  cs[i].rec.warn \/ \E j \in DOMAIN names : f[j] = i
  <2>1. CASE i = k
    <3>1. Len(names) # Len(es)
      BY <1>1, <1>2, <1>3, <2>1
    <3> QED
      BY <1>3, <2>1, <3>1
  <2>2. CASE i # k
    <3>1. i \in s .. k - 1
      BY <2>2
    <3> QED
      BY <1>3, <3>1 DEF Stands
  <2> QED
    BY <2>1, <2>2
<1>4. \A j \in DOMAIN names :
       /\ cs[f[j]].rec.name = names[j] /\ cs[f[j]].tag = new
       /\ Matches(cs[f[j]].rec, es[j]) \/ (cs[f[j]].rec.warn /\ es[j].dummy)
  BY <1>1 DEF Stands
<1>5. \A i, j \in DOMAIN names : i < j => f[i] < f[j]
  BY DEF Stands
<1> QED
  BY <1>2, <1>3, <1>4, <1>5 DEF Stands

LEMMA WalkStep ==
  ASSUME NEW S, NEW cs \in Seq(S), NEW T, NEW es \in Seq(T), NEW s \in 1 .. Len(cs), NEW k \in s .. Len(cs),
         cs[k].tag # "none", NEW w, WalkInv(cs, s, es, k - 1, w)
  PROVE  WalkInv(cs, s, es, k, WalkChunk(w, cs[k], es))
<1>1. s \in Nat /\ k \in Nat /\ s <= k /\ k \in DOMAIN cs /\ Len(es) \in Nat
  OBVIOUS
<1>2. PICK names, tag, unknown, ok : w = [names |-> names, tag |-> tag, unknown |-> unknown, ok |-> ok]
  BY DEF WalkInv
<1>3. /\ names \in Seq(NamesOf(cs)) /\ Len(names) <= Len(es) /\ (tag = "none" => names = <<>>)
      /\ ok => \E f : Stands(cs, s, es, k - 1, names, tag, f)
  BY <1>2 DEF WalkInv
<1>4. Len(names) \in Nat /\ cs[k].rec.name \in NamesOf(cs)
  BY <1>1, <1>3 DEF NamesOf
<1> DEFINE more == Append(names, cs[k].rec.name)
<1>5. more \in Seq(NamesOf(cs)) /\ Len(more) = Len(names) + 1
  BY <1>3, <1>4
<1>6. CASE ~ok \/ Len(names) = Len(es)
  <2>1. WalkChunk(w, cs[k], es) = w
    BY <1>2, <1>6 DEF WalkChunk
  <2>2. ok => \E f : Stands(cs, s, es, k, names, tag, f)
    BY <1>1, <1>3, <1>6, PassedOver
  <2> QED
    BY <1>2, <1>3, <2>1, <2>2 DEF WalkInv
<1>7. CASE ok /\ Len(names) # Len(es)
  <2>1. PICK f : Stands(cs, s, es, k - 1, names, tag, f)
    BY <1>3, <1>7
  <2>2. Len(names) < Len(es)
    BY <1>1, <1>3, <1>4, <1>7
  <2> DEFINE fits == cs[k].rec # NoRec /\ tag \in {"none", cs[k].tag}
             next == es[Len(names) + 1]
  <2>3. fits => names = <<>> \/ cs[k].tag = tag
    BY <1>3
  <2>4. CASE fits /\ ((Matches(cs[k].rec, next) /\ ~cs[k].rec.warn) \/ (cs[k].rec.warn /\ next.dummy))
    <3>1. \E g : Stands(cs, s, es, k, more, cs[k].tag, g)
      <4>1. names = <<>> \/ cs[k].tag = tag
        BY <2>3, <2>4
      <4>2. Matches(cs[k].rec, es[Len(names) + 1]) \/ (cs[k].rec.warn /\ es[Len(names) + 1].dummy)
        BY <2>4
      <4> QED
        BY <1>1, <1>3, <2>1, <2>2, <4>1, <4>2, Taken
    <3>2. WalkChunk(w, cs[k], es) = [names |-> more, tag |-> cs[k].tag, unknown |-> unknown, ok |-> ok]
      BY <1>2, <1>7, <2>4 DEF WalkChunk, TakeWarning
    <3> HIDE DEF more
    <3> QED
      BY <1>1, <1>4, <1>5, <2>2, <3>1, <3>2 DEF WalkInv
  <2>5. CASE fits /\ cs[k].rec.warn /\ ~next.dummy
    <3>1. WalkChunk(w, cs[k], es) = [names |-> names, tag |-> cs[k].tag, unknown |-> unknown, ok |-> ok]
      BY <1>2, <1>7, <2>5 DEF WalkChunk, TakeWarning
    <3>2. Stands(cs, s, es, k, names, cs[k].tag, f)
      BY <1>1, <1>3, <2>1, <2>3, <2>5, PassedOver
    <3> QED
      BY <1>3, <3>1, <3>2 DEF WalkInv
  <2>6. CASE ~(fits /\ (cs[k].rec.warn \/ Matches(cs[k].rec, next)))
    <3>1. CASE cs[k].tag = tag
      <4>1. WalkChunk(w, cs[k], es) = [names |-> names, tag |-> tag, unknown |-> unknown, ok |-> FALSE]
        BY <1>2, <1>7, <2>6, <3>1 DEF WalkChunk, Reject
      <4> QED
        BY <1>3, <4>1 DEF WalkInv
    <3>2. CASE cs[k].tag # tag
      <4>1. WalkChunk(w, cs[k], es) = SkipChunk(w)
        BY <1>2, <1>7, <2>6, <3>2 DEF WalkChunk
      <4>2. Stands(cs, s, es, k, names, tag, f)
        BY <1>1, <1>3, <2>1, <3>2, PassedOver
      <4>3. \E u, o : SkipChunk(w) = [names |-> names, tag |-> tag, unknown |-> u, ok |-> o]
        BY <1>2 DEF SkipChunk, Reject
      <4> QED
        BY <1>3, <4>1, <4>2, <4>3 DEF WalkInv
    <3> QED
      BY <3>1, <3>2
  <2>7. CASE fits /\ cs[k].rec.warn
    BY <2>4, <2>5, <2>7, Zenon
  <2>8. CASE fits /\ ~cs[k].rec.warn
    <3>1. CASE Matches(cs[k].rec, next)
      BY <2>4, <2>8, <3>1, Zenon
    <3>2. CASE ~Matches(cs[k].rec, next)
      BY <2>6, <2>8, <3>2, Zenon
    <3> QED
      BY <3>1, <3>2, Zenon
  <2>9. CASE ~fits
    BY <2>6, <2>9, Zenon
  <2> QED
    BY <2>7, <2>8, <2>9, Zenon
<1> QED
  BY <1>6, <1>7

(* w is the walk from chunk s as far as chunk n. *)
Walks(cs, s, es, n, w) ==
  w = [k \in s - 1 .. n |-> IF k = s - 1 THEN WalkStart ELSE WalkChunk(w[k - 1], cs[k], es)]

Walk(cs, s, es) == CHOOSE w : Walks(cs, s, es, Len(cs), w)

LEMMA WalkExists ==
  ASSUME NEW cs, NEW s \in Nat \ {0}, NEW es
  PROVE  \A n \in Nat : \E w : Walks(cs, s, es, n + s - 1, w)
<1> DEFINE Not == {n \in Nat : ~ \E w : Walks(cs, s, es, n + s - 1, w)}
<1> SUFFICES ASSUME Not # {}
             PROVE  FALSE
  OBVIOUS
<1>1. PICK n \in Not : \A m \in Not : n <= m
  BY HasLeast
<1>2. CASE n = 0
  <2>1. Walks(cs, s, es, s - 1, [k \in s - 1 .. s - 1 |-> WalkStart])
    BY DEF Walks
  <2> QED
    BY <1>1, <1>2, <2>1
<1>3. CASE n # 0
  <2>1. n - 1 \in Nat /\ n - 1 \notin Not
    BY <1>1, <1>3
  <2>2. PICK w : Walks(cs, s, es, n - 1 + s - 1, w)
    BY <2>1
  <2> DEFINE e == n + s - 1
             new == IF e = s - 1 THEN WalkStart ELSE WalkChunk(w[e - 1], cs[e], es)
             g == [k \in s - 1 .. e |-> IF k = e THEN new ELSE w[k]]
  <2>3. e \in Nat /\ s - 1 <= e - 1 /\ e - 1 = n - 1 + s - 1
    BY <2>1
  <2> HIDE DEF e
  <2>4. \A k \in s - 1 .. e - 1 : w[k] = IF k = s - 1 THEN WalkStart ELSE WalkChunk(w[k - 1], cs[k], es)
    BY <2>2, <2>3 DEF Walks
  <2>5. (\A k \in s - 1 .. e - 1 : g[k] = w[k]) /\ g[e] = new
    BY <2>3
  <2>6. g = [k \in s - 1 .. e |-> g[k]]
    OBVIOUS
  <2> HIDE DEF g
  <2>7. ASSUME NEW k \in s - 1 .. e
        PROVE  g[k] = IF k = s - 1 THEN WalkStart ELSE WalkChunk(g[k - 1], cs[k], es)
    <3>1. k = s - 1 \/ k - 1 \in s - 1 .. e - 1
      BY <2>3
    <3>2. CASE k = e
      BY <2>3, <2>5, <3>1, <3>2
    <3>3. CASE k # e
      <4>1. k \in s - 1 .. e - 1
        BY <2>3, <3>3
      <4> QED
        BY <2>4, <2>5, <3>1, <4>1
    <3> QED
      BY <3>2, <3>3
  <2>8. Walks(cs, s, es, e, g)
    BY <2>6, <2>7 DEF Walks
  <2> QED
    BY <1>1, <2>8 DEF e
<1> QED
  BY <1>2, <1>3

LEMMA WalkVerifiedWalks ==
  ASSUME NEW cs, NEW s, NEW es
  PROVE  LET w == Walk(cs, s, es)[Len(cs)]
         IN  WalkVerified(cs, s, es) = IF w.ok /\ w.tag # "none" /\ Len(w.names) = Len(es) THEN w.names ELSE <<>>
  BY DEF WalkVerified, Walk, Walks

LEMMA WalkHolds ==
  ASSUME NEW S, NEW cs \in Seq(S), NEW T, NEW es \in Seq(T), NEW s \in DOMAIN cs,
         \A i \in DOMAIN cs : cs[i].tag # "none"
  PROVE  WalkInv(cs, s, es, Len(cs), Walk(cs, s, es)[Len(cs)])
<1>1. s \in 1 .. Len(cs) /\ s \in Nat /\ s - 1 \in Nat /\ Len(cs) \in Nat /\ DOMAIN cs = 1 .. Len(cs)
  OBVIOUS
<1>2. PICK w : w = Walk(cs, s, es)
  OBVIOUS
<1>3. Walks(cs, s, es, Len(cs), w)
  <2>1. Len(cs) - s + 1 \in Nat /\ (Len(cs) - s + 1) + s - 1 = Len(cs) /\ s \in Nat \ {0}
    BY <1>1
  <2>2. \E v : Walks(cs, s, es, Len(cs), v)
    BY <2>1, WalkExists
  <2> QED
    BY <1>2, <2>2 DEF Walk
<1>4. \A k \in s - 1 .. Len(cs) : w[k] = IF k = s - 1 THEN WalkStart ELSE WalkChunk(w[k - 1], cs[k], es)
  BY <1>3 DEF Walks
<1> DEFINE Not == {k \in s - 1 .. Len(cs) : ~ WalkInv(cs, s, es, k, w[k])}
<1>5. Not = {}
  <2> SUFFICES ASSUME Not # {}
               PROVE  FALSE
    OBVIOUS
  <2>1. Not \subseteq Nat
    BY <1>1
  <2>2. PICK k \in Not : \A m \in Not : k <= m
    BY <2>1, HasLeast
  <2>3. CASE k = s - 1
    <3>1. w[k] = WalkStart
      BY <1>1, <1>4, <2>3
    <3>2. Stands(cs, s, es, k, <<>>, "none", <<>>)
      BY <1>1, <2>3 DEF Stands
    <3>3. WalkInv(cs, s, es, k, WalkStart)
      BY <3>2 DEF WalkInv, WalkStart
    <3> QED
      BY <2>2, <3>1, <3>3
  <2>4. CASE k # s - 1
    <3>1. k - 1 \in s - 1 .. Len(cs) /\ k - 1 \notin Not /\ k \in s .. Len(cs)
      BY <1>1, <2>2, <2>4
    <3>2. WalkInv(cs, s, es, k - 1, w[k - 1])
      BY <3>1
    <3>3. WalkInv(cs, s, es, k, WalkChunk(w[k - 1], cs[k], es))
      BY <1>1, <3>1, <3>2, WalkStep
    <3> QED
      BY <1>4, <2>2, <2>4, <3>3
  <2> QED
    BY <2>3, <2>4
<1> QED
  BY <1>1, <1>2, <1>5

LEMMA FirstIsOne ==
  ASSUME NEW r, DOMAIN r \subseteq Nat, FirstNonEmpty(r) # <<>>
  PROVE  \E i \in DOMAIN r : FirstNonEmpty(r) = r[i]
<1> DEFINE hits == {i \in DOMAIN r : r[i] # <<>>}
<1>1. hits # {} /\ FirstNonEmpty(r) = r[Least(hits)]
  BY DEF FirstNonEmpty
<1>2. Least(hits) \in hits
  BY <1>1, HasLeast
<1> QED
  BY <1>1, <1>2

(* What InOrder says of a list of entries: chunks f[1] < f[2] < ... that   *)
(* match them, with nothing but warnings of their tag in between.          *)
Ordered(cs, es, names) ==
  /\ Len(names) = Len(es) /\ DOMAIN names = 1 .. Len(es)
  /\ \E f \in [DOMAIN names -> DOMAIN cs] :
       /\ \A k \in DOMAIN names :
            /\ cs[f[k]].rec.name = names[k]
            /\ Matches(cs[f[k]].rec, es[k]) \/ (cs[f[k]].rec.warn /\ es[k].dummy)
       /\ \A j, k \in DOMAIN names : j < k => f[j] < f[k] /\ cs[f[j]].tag = cs[f[k]].tag
       /\ \A i \in f[1] .. f[Len(names)] : cs[i].tag = cs[f[1]].tag => cs[i].rec.warn \/ i \in Range(f)

LEMMA WalkOrders ==
  ASSUME NEW S, NEW cs \in Seq(S), NEW T, NEW es \in Seq(T), NEW s \in DOMAIN cs,
         \A i \in DOMAIN cs : cs[i].tag # "none", NEW names, names = WalkVerified(cs, s, es), names # <<>>
  PROVE  Ordered(cs, es, names)
<1>1. PICK w : w = Walk(cs, s, es)[Len(cs)]
  OBVIOUS
<1>2. names = w.names /\ w.ok /\ Len(names) = Len(es) /\ WalkInv(cs, s, es, Len(cs), w)
  BY <1>1, WalkVerifiedWalks, WalkHolds, Zenon
<1>3. PICK f : Stands(cs, s, es, Len(cs), names, w.tag, f)
  BY <1>2 DEF WalkInv
<1>4. names \in Seq(NamesOf(cs)) /\ Len(names) \in Nat \ {0} /\ DOMAIN names = 1 .. Len(names)
  BY <1>2 DEF WalkInv
<1>5. s \in Nat /\ s .. Len(cs) \subseteq DOMAIN cs
  OBVIOUS
<1>6. f \in [DOMAIN names -> s .. Len(cs)] /\ f \in [DOMAIN names -> DOMAIN cs]
  BY <1>3, <1>5 DEF Stands
<1>7. 1 \in DOMAIN names /\ Len(names) \in DOMAIN names
  BY <1>4
<1>8. ASSUME NEW i \in f[1] .. f[Len(names)], cs[i].tag = cs[f[1]].tag
      PROVE  cs[i].rec.warn \/ i \in Range(f)
  <2>1. i \in s .. Len(cs) /\ f[1] <= i /\ i <= f[Len(names)]
    BY <1>5, <1>6, <1>7
  <2>2. cs[i].tag = w.tag
    BY <1>3, <1>7, <1>8 DEF Stands
  <2>3. cs[i].rec.warn \/ \E j \in DOMAIN names : f[j] = i
    BY <1>2, <1>3, <2>1, <2>2 DEF Stands
  <2> QED
    BY <1>6, <2>3 DEF Range
<1>9. \A k \in DOMAIN names : /\ cs[f[k]].rec.name = names[k] /\ cs[f[k]].tag = w.tag
                              /\ Matches(cs[f[k]].rec, es[k]) \/ (cs[f[k]].rec.warn /\ es[k].dummy)
  BY <1>3 DEF Stands
<1>10. \A j, k \in DOMAIN names : j < k => f[j] < f[k]
  BY <1>3 DEF Stands
<1>11. \A j, k \in DOMAIN names : j < k => f[j] < f[k] /\ cs[f[j]].tag = cs[f[k]].tag
  BY <1>9, <1>10
<1>12. Len(names) = Len(es) /\ DOMAIN names = 1 .. Len(es)
  BY <1>2, <1>4
<1> QED
  BY <1>6, <1>8, <1>9, <1>11, <1>12, Zenon DEF Ordered

LEMMA ScanOrders ==
  ASSUME NEW S, NEW p, p.chunks \in Seq(S), NEW T, NEW es \in Seq(T),
         \A i \in DOMAIN p.chunks : p.chunks[i].tag # "none", ScanVerified(p, es) # <<>>
  PROVE  Ordered(p.chunks, es, ScanVerified(p, es))
<1> DEFINE located == [i \in Located(p, es) |-> WalkVerified(p.chunks, i, es)]
           first == [i \in DOMAIN p.chunks |-> WalkVerified(p.chunks, i, es)]
<1>1. DOMAIN p.chunks \subseteq Nat /\ Located(p, es) \subseteq DOMAIN p.chunks
  BY DEF Located
<1>2. \/ ScanVerified(p, es) = FirstNonEmpty(located)
      \/ ScanVerified(p, es) = FirstNonEmpty(first)
  BY DEF ScanVerified
<1>3. \/ \E i \in DOMAIN located : ScanVerified(p, es) = located[i]
      \/ \E i \in DOMAIN first : ScanVerified(p, es) = first[i]
  <2>1. DOMAIN located \subseteq Nat /\ DOMAIN first \subseteq Nat
    BY <1>1
  <2> HIDE DEF located, first
  <2> QED
    BY <1>2, <2>1, FirstIsOne
<1>4. PICK i \in DOMAIN p.chunks : ScanVerified(p, es) = WalkVerified(p.chunks, i, es)
  BY <1>1, <1>3
<1> QED
  BY <1>4, WalkOrders

----------------------------------------------------------------------------
(* The recovery of the ordered names.  What is believed fully is the       *)
(* verified walk over a root of the archive; what is returned is that, or  *)
(* what the records of a root bind.                                        *)

Scanned(names, r) ==
  /\ r \in DOMAIN game.roots
  /\ names # <<>> /\ names = ScanVerified(game.roots[r].plain, Entries)

Bound(names, r) ==
  /\ r \in DOMAIN game.roots
  /\ names # <<>> /\ names = BindStructural(game.roots[r].plain, game.roots[r].tag, Entries)

Shown(names, r) ==
  /\ r \in DOMAIN game.roots /\ Unnamed \notin Range(names)
  /\ \E t \in Tags(game.roots[r].plain) :
       names = [k \in DOMAIN Entries |->
                  EarlyName(Group(game.roots[r].plain, t), Entries[k], game.roots[r].product)]

ResultInv ==
  /\ result.by = "order" => Scanned(result.names, result.root)
  /\ result.by = "records" => Bound(result.names, result.root)
  /\ result.by = "early" => Shown(result.names, result.root)

NamesInv ==
  /\ game \in UNION Cases
  /\ stage \notin {"names", "over"} => root \in DOMAIN game.roots
  /\ best.confidence = 100 => Scanned(best.names, best.root)
  /\ ResultInv

LEMMA GameLists ==
  ASSUME game \in UNION Cases
  PROVE  /\ IsList(game.entries) /\ IsList(game.roots)
         /\ \A i \in DOMAIN game.roots : /\ IsList(game.roots[i].plain.chunks)
                                         /\ \A c \in DOMAIN game.roots[i].plain.chunks : game.roots[i].plain.chunks[c].tag # "none"
  BY CasesAssumption

LEMMA ParseVerified ==
  ASSUME NEW p, NEW es, Parse(p, es).confidence = 100
  PROVE  Parse(p, es).root = root /\ Parse(p, es).names = ScanVerified(p, es) /\ ScanVerified(p, es) # <<>>
<1> DEFINE n == Len(es)
           Reading(names, c) == [names |-> names, confidence |-> c, len |-> p.len, root |-> root]
           readings == <<Reading(ScanVerified(p, es), 100), Reading(ScanFiles(p, n), 99), Reading(ScanStructural(p, n), 96),
                         Reading(ScanLengths(p, "u16", n), 90), Reading(ScanLengths(p, "u32", n), 89)>>
           hits == {i \in DOMAIN readings : readings[i].names # <<>>}
<1>1. Parse(p, es) = IF hits = {} THEN NoBest ELSE readings[Least(hits)]
  BY DEF Parse
<1>2. DOMAIN readings = 1 .. 5 /\ hits \subseteq Nat
  OBVIOUS
<1>3. /\ readings[1] = Reading(ScanVerified(p, es), 100)
      /\ \A i \in 2 .. 5 : readings[i].confidence # 100
  OBVIOUS
<1>4. hits # {}
  BY <1>1 DEF NoBest
<1>5. PICK i \in hits : i = Least(hits)
  BY <1>2, <1>4, HasLeast
<1>6. i \in 1 .. 5 /\ readings[i].names # <<>> /\ Parse(p, es) = readings[i]
  BY <1>1, <1>2, <1>4, <1>5
<1>7. i = 1
  BY <1>3, <1>6
<1> QED
  BY <1>3, <1>6, <1>7

LEMMA ReadingsVerified ==
  ASSUME root \in DOMAIN game.roots, NEW x \in Readings(Root), x.confidence = 100
  PROVE  Scanned(x.names, x.root)
<1>1. x = Parse(Root.plain, Entries)
  BY DEF Readings
<1>2. x.root = root /\ x.names = ScanVerified(Root.plain, Entries) /\ x.names # <<>>
  BY <1>1, ParseVerified
<1> QED
  BY <1>2 DEF Scanned, Root

LEMMA ScannedStays ==
  ASSUME game' = game, NEW names, NEW r
  PROVE  /\ Scanned(names, r)' = Scanned(names, r)
         /\ Bound(names, r)' = Bound(names, r)
         /\ Shown(names, r)' = Shown(names, r)
  BY DEF Scanned, Bound, Shown, Entries

LEMMA SearchStarts ==
  ASSUME NamesInv, NEW l, NEW k, StartSearch(l, k), game' = game
  PROVE  /\ stage' \notin {"names", "over"} => root' \in DOMAIN game'.roots
         /\ best'.confidence # 100
<1>1. IsList(game.roots)
  BY GameLists DEF NamesInv
<1>2. game.roots # <<>> => 1 \in DOMAIN game.roots
  BY <1>1 DEF IsList
<1> QED
  BY <1>2 DEF StartSearch, NoBest

LEMMA SearchInv ==
  ASSUME NamesInv, SearchStep, stage # "over"
  PROVE  /\ game' = game
         /\ stage' \notin {"names", "over"} => root' \in DOMAIN game.roots
         /\ best'.confidence = 100 => Scanned(best'.names, best'.root)
<1>1. game' = game /\ stage # "names"
  BY DEF SearchStep, SkipRoot, TryDirect, TryExplicit, TryZeroMode, TryStructured, TryBrute
<1>2. root \in DOMAIN game.roots
  BY <1>1 DEF NamesInv
<1>3. stage' \notin {"names", "over"} => root' \in DOMAIN game.roots
  <2>1. IsList(game.roots)
    BY GameLists DEF NamesInv
  <2>2. root + 1 \in DOMAIN game.roots \/ ~(root < Len(game.roots))
    BY <1>2, <2>1 DEF IsList
  <2>3. NextRoot => (stage' \notin {"names", "over"} => root' \in DOMAIN game.roots)
    BY <2>2 DEF NextRoot
  <2> QED
    BY <1>2, <2>3 DEF SearchStep, SkipRoot, TryDirect, TryExplicit, TryZeroMode, TryStructured, TryBrute
<1>4. \/ best' = best
      \/ best' \in Readings(Root)
  <2>1. /\ Direct(Root) \subseteq Readings(Root) /\ Explicit(Root) \subseteq Readings(Root)
        /\ ZeroMode(Root) \subseteq Readings(Root) /\ Structured(Root) \subseteq Readings(Root)
        /\ Brute(Root) \subseteq Readings(Root)
    BY DEF Direct, Explicit, ZeroMode, Structured, Brute
  <2>2. \A R : R \subseteq Readings(Root) => Consider(R) = best \/ Consider(R) \in Readings(Root)
    BY DEF Consider
  <2> QED
    BY <2>1, <2>2 DEF SearchStep, SkipRoot, TryDirect, TryExplicit, TryZeroMode, TryStructured, TryBrute
<1>5. best'.confidence = 100 => Scanned(best'.names, best'.root)
  BY <1>2, <1>4, ReadingsVerified DEF NamesInv
<1> QED
  BY <1>1, <1>3, <1>5

LEMMA NamesInit == RouteInit => NamesInv
  BY DEF RouteInit, Init, NamesInv, ResultInv, NoBest, NoResult

LEMMA NamesStays ==
  ASSUME NamesInv, game' = game, root' = root, stage' = stage, best' = best, result' = result
  PROVE  NamesInv'
<1>1. /\ \A n, r : Scanned(n, r)' = Scanned(n, r)
      /\ \A n, r : Bound(n, r)' = Bound(n, r)
      /\ \A n, r : Shown(n, r)' = Shown(n, r)
  BY ScannedStays
<1>2. PICK b, r : b = best /\ r = result
  OBVIOUS
<1>3. /\ Scanned(b.names, b.root)' = Scanned(b.names, b.root)
      /\ Scanned(r.names, r.root)' = Scanned(r.names, r.root)
      /\ Bound(r.names, r.root)' = Bound(r.names, r.root)
      /\ Shown(r.names, r.root)' = Shown(r.names, r.root)
  BY <1>1
<1> QED
  BY <1>2, <1>3 DEF NamesInv, ResultInv

(* Where the search is over the result may be what it ended with. *)
LEMMA FoundHolds ==
  ASSUME NamesInv, Found.by # "table"
  PROVE  Found.by = "order" /\ Scanned(Found.names, Found.root)
  BY DEF NamesInv, Found

LEMMA ResultSet ==
  ASSUME NamesInv, game' = game, root' = root, stage' = stage, best' = best,
         NEW r, result' = r,
         r.by = "order" => Scanned(r.names, r.root),
         r.by = "records" => Bound(r.names, r.root),
         r.by = "early" => Shown(r.names, r.root)
  PROVE  NamesInv'
<1>1. PICK b : b = best
  OBVIOUS
<1>2. /\ Scanned(b.names, b.root)' = Scanned(b.names, b.root)
      /\ Scanned(r.names, r.root)' = Scanned(r.names, r.root)
      /\ Bound(r.names, r.root)' = Bound(r.names, r.root)
      /\ Shown(r.names, r.root)' = Shown(r.names, r.root)
  BY ScannedStays
<1> QED
  BY <1>1, <1>2 DEF NamesInv, ResultInv

LEMMA ValidatedBinds ==
  ASSUME game \in UNION Cases, NEW params, Validated(params) # NoResult
  PROVE  /\ Validated(params).by = "records"
         /\ Bound(Validated(params).names, Validated(params).root)
<1> DEFINE good == {i \in Stored : LET r == game.roots[i]
                                   IN  /\ r.cipher.scope = "native" /\ r.cipher.key = params
                                       /\ r.wrap = "zlib" /\ r.size # "wrong"
                                       /\ BindStructural(r.plain, r.tag, Entries) # <<>>}
           i == Least(good)
<1>1. good # {} /\ Validated(params) = [names |-> BindStructural(game.roots[i].plain, game.roots[i].tag, Entries),
                                        by |-> "records", root |-> i]
  BY DEF Validated
<1>2. good \subseteq DOMAIN game.roots /\ DOMAIN game.roots \subseteq Nat
  BY GameLists DEF Stored, IsList
<1>3. i \in good
  BY <1>1, <1>2, HasLeast
<1>4. i \in DOMAIN game.roots /\ BindStructural(game.roots[i].plain, game.roots[i].tag, Entries) # <<>>
  BY <1>2, <1>3
<1> HIDE DEF i
<1> QED
  BY <1>1, <1>4 DEF Bound

LEMMA EarlyStep ==
  ASSUME NamesInv, Early
  PROVE  NamesInv'
<1> DEFINE readable == {i \in Stored : EarlyReadable(game.roots[i])}
           i == Least(readable)
           p == game.roots[i].plain
           salt == game.roots[i].product
           t == CHOOSE t \in Selected(p, salt) : TRUE
           names == [k \in DOMAIN Entries |-> EarlyName(Group(p, t), Entries[k], salt)]
<1>1. game' = game
  BY DEF Early
<1>2. CASE ~game.early \/ readable = {}
  <2>1. result' = result /\ StartSearch(0, FALSE)
    BY <1>2 DEF Early
  <2>2. PICK r : r = result
    OBVIOUS
  <2>3. /\ Scanned(r.names, r.root)' = Scanned(r.names, r.root)
        /\ Bound(r.names, r.root)' = Bound(r.names, r.root)
        /\ Shown(r.names, r.root)' = Shown(r.names, r.root)
    BY <1>1, ScannedStays
  <2> QED
    BY <1>1, <2>1, <2>2, <2>3, SearchStarts DEF NamesInv, ResultInv
<1>3. CASE game.early /\ readable # {}
  <2>1. root' = root /\ stage' = stage /\ best' = best
    BY <1>3 DEF Early, searchVars
  <2>2. CASE result' = NoResult
    BY <1>1, <2>1, <2>2, ResultSet DEF NoResult
  <2>3. CASE Selected(p, salt) # {} /\ Unnamed \notin Range(names) /\ result' = [names |-> names, by |-> "early", root |-> i]
    <3>1. readable \subseteq DOMAIN game.roots /\ DOMAIN game.roots \subseteq Nat
      BY GameLists DEF Stored, IsList, NamesInv
    <3>2. i \in DOMAIN game.roots
      BY <1>3, <3>1, HasLeast
    <3>3. t \in Tags(p)
      BY <2>3 DEF Selected
    <3>4. Shown(names, i)
      BY <2>3, <3>2, <3>3 DEF Shown
    <3> HIDE DEF names, i
    <3>5. PICK r : r = [names |-> names, by |-> "early", root |-> i]
      OBVIOUS
    <3>6. r.by = "early" /\ Shown(r.names, r.root)
      BY <3>4, <3>5
    <3>7. result' = r
      BY <2>3, <3>5
    <3> QED
      BY <1>1, <2>1, <3>6, <3>7, ResultSet
  <2> QED
    BY <1>3, <2>2, <2>3 DEF Early, Fail, Finish
<1> QED
  BY <1>2, <1>3

LEMMA NamesStep ==
  ASSUME NamesInv, [RouteNext]_routeVars
  PROVE  NamesInv'
<1>1. CASE UNCHANGED vars
  BY <1>1, NamesStays DEF vars
<1>2. CASE Begin
  <2>1. game' = game
    BY <1>2 DEF Begin
  <2>2. CASE UNCHANGED searchVars /\ result' = NoResult
    BY <2>1, <2>2, ResultSet DEF NoResult, searchVars
  <2>3. CASE UNCHANGED searchVars /\ result' = result
    BY <2>1, <2>3, NamesStays DEF searchVars
  <2>4. CASE StartSearch(game.period, game.key # NoKey) /\ result' = result
    <3>1. PICK r : r = result
      OBVIOUS
    <3>2. /\ Scanned(r.names, r.root)' = Scanned(r.names, r.root)
          /\ Bound(r.names, r.root)' = Bound(r.names, r.root)
          /\ Shown(r.names, r.root)' = Shown(r.names, r.root)
      BY <2>1, ScannedStays
    <3> QED
      BY <2>1, <2>4, <3>1, <3>2, SearchStarts DEF NamesInv, ResultInv
  <2> QED
    BY <1>2, <2>2, <2>3, <2>4 DEF Begin, Finish
<1>3. CASE Search
  <2>1. /\ game' = game /\ result' = result
        /\ stage' \notin {"names", "over"} => root' \in DOMAIN game.roots
        /\ best'.confidence = 100 => Scanned(best'.names, best'.root)
    BY <1>3, SearchInv DEF Search
  <2>2. PICK r, b : r = result /\ b = best'
    OBVIOUS
  <2>3. /\ Scanned(r.names, r.root)' = Scanned(r.names, r.root)
        /\ Bound(r.names, r.root)' = Bound(r.names, r.root)
        /\ Shown(r.names, r.root)' = Shown(r.names, r.root)
        /\ Scanned(b.names, b.root)' = Scanned(b.names, b.root)
    BY <2>1, ScannedStays
  <2> QED
    BY <2>1, <2>2, <2>3 DEF NamesInv, ResultInv
<1>4. CASE SearchOver \/ PlainOver
  <2>1. game' = game /\ root' = root /\ stage' = stage /\ best' = best
    BY <1>4 DEF SearchOver, PlainOver
  <2>2. result' \in {NoResult, Found, result}
    BY <1>4 DEF SearchOver, PlainOver, Finish
  <2>3. CASE result' = NoResult
    BY <2>1, <2>3, ResultSet DEF NoResult
  <2>4. CASE result' = Found
    <3>1. PICK r : r = Found
      OBVIOUS
    <3>2. r.by \in {"order", "table"} /\ (r.by = "order" => Scanned(r.names, r.root))
      BY <3>1 DEF Found, NamesInv
    <3> QED
      BY <2>1, <2>4, <3>1, <3>2, ResultSet
  <2>5. CASE result' = result
    BY <2>1, <2>5, NamesStays
  <2> QED
    BY <2>2, <2>3, <2>4, <2>5
<1>5. CASE Early
  BY <1>5, EarlyStep
<1>6. CASE ScanScript \/ ScanOver
  BY <1>6, NamesStays DEF ScanScript, ScanOver
<1>7. CASE TryValue \/ TryParams
  <2>1. game' = game /\ root' = root /\ stage' = stage /\ best' = best
    BY <1>7 DEF TryValue, TryParams
  <2>2. \/ result' \in {result, NoResult}
        \/ \E v : Validated(v) # NoResult /\ result' = Validated(v)
    BY <1>7 DEF TryValue, TryParams, Finish, Fail
  <2>3. CASE result' = result
    BY <2>1, <2>3, NamesStays
  <2>4. CASE result' = NoResult
    BY <2>1, <2>4, ResultSet DEF NoResult
  <2>5. CASE \E v : Validated(v) # NoResult /\ result' = Validated(v)
    <3>1. PICK v : Validated(v) # NoResult /\ result' = Validated(v)
      BY <2>5
    <3>2. PICK r : r = Validated(v)
      OBVIOUS
    <3>3. r.by = "records" /\ Bound(r.names, r.root)
      BY <3>1, <3>2, ValidatedBinds DEF NamesInv
    <3> QED
      BY <2>1, <3>1, <3>2, <3>3, ResultSet
  <2> QED
    BY <2>2, <2>3, <2>4, <2>5
<1> QED
  <2>1. UNCHANGED vars \/ Next
    BY DEF RouteNext, OrderedNames, ToContent, IndexLocked, StartBootstrap, Bootstrap, BootstrapOver, routeVars
  <2> QED
    BY <1>1, <1>2, <1>3, <1>4, <1>5, <1>6, <1>7, <2>1 DEF Next

(* What any strategy ends with: the verified walk over a root of the       *)
(* archive, or what the records of one root bind.                          *)
THEOREM RecoveryInductive == RouteSpec => []NamesInv
  BY NamesInit, NamesStep, PTL DEF RouteSpec

(* Names given by order are those of records that match the entries, in    *)
(* their order, and no record of theirs is left out in between: the walk   *)
(* of walk_verified_chunk_stream, whichever hypothesis led to it.          *)
THEOREM OrderCorrect == RouteSpec => []OrderIsVerified
<1>1. NamesInv => OrderIsVerified
  <2> SUFFICES ASSUME NamesInv, result.by = "order"
               PROVE  Len(result.names) = Len(Entries) /\ InOrder(game.roots[result.root].plain.chunks, result.names)
    BY DEF OrderIsVerified
  <2>1. PICK i \in DOMAIN game.roots : i = result.root
    BY DEF NamesInv, ResultInv, Scanned
  <2>2. result.names = ScanVerified(game.roots[i].plain, Entries) /\ result.names # <<>>
    BY <2>1 DEF NamesInv, ResultInv, Scanned
  <2>3. /\ Entries \in Seq(Range(Entries))
        /\ game.roots[i].plain.chunks \in Seq(Range(game.roots[i].plain.chunks))
        /\ \A c \in DOMAIN game.roots[i].plain.chunks : game.roots[i].plain.chunks[c].tag # "none"
    BY GameLists DEF NamesInv, IsList, Entries
  <2>4. Ordered(game.roots[i].plain.chunks, Entries, result.names)
    BY <2>2, <2>3, ScanOrders
  <2>5. PICK cs, names : cs = game.roots[i].plain.chunks /\ names = result.names
    OBVIOUS
  <2>6. Ordered(cs, Entries, names)
    BY <2>4, <2>5
  <2>7. Len(names) = Len(Entries) /\ InOrder(cs, names)
    BY <2>6, Zenon DEF Ordered, InOrder
  <2> QED
    BY <2>1, <2>5, <2>7
<1> QED
  BY RecoveryInductive, <1>1, PTL

----------------------------------------------------------------------------
(* Names bound by their records.  Entry j took record g[j], or none (0);   *)
(* no record was taken twice.  From a full table, where what an entry      *)
(* shows is its own name or nobody's, the record has one of its two names. *)

Distinct(es) ==
  \A j, k \in DOMAIN es : es[k].name \in {es[j].name, es[j].vis.of} => j = k

Full(recs, es) ==
  /\ \A i \in DOMAIN recs : \E k \in DOMAIN es : recs[i].name = es[k].name
  /\ \A k \in DOMAIN es : \E i \in DOMAIN recs : recs[i].name = es[k].name /\ recs[i].hash = es[k].hash

Takes(es, recs, k, names, used, g) ==
  /\ g \in [1 .. k -> DOMAIN recs \cup {0}]
  /\ used = {g[j] : j \in 1 .. k} \ {0}
  /\ \A i, j \in 1 .. k : i # j /\ g[i] = g[j] => g[i] = 0
  /\ \A j \in 1 .. k : IF g[j] = 0 THEN names[j] \in {Kept(es[j]), Startup} ELSE names[j] = recs[g[j]].name
  /\ Full(recs, es) => \A j \in 1 .. k : /\ names[j] \in {es[j].name, Kept(es[j]), Startup}
                                         /\ g[j] # 0 => names[j] \in {es[j].name, es[j].vis.of}

BindInv(es, recs, k, b) ==
  /\ b = [used |-> b.used, names |-> b.names]
  /\ \E N : b.names \in Seq(N)
  /\ Len(b.names) = k
  /\ \E g : Takes(es, recs, k, b.names, b.used, g)

(* What BindEntry may do with an entry: leave it, or take a free record    *)
(* that shows its name, or the only free one with its hash.                *)
MayBind(new, e, recs, salt, used, names) ==
  \/ \E n \in {Kept(e), Startup} : new = [used |-> used, names |-> Append(names, n)]
  \/ \E i \in DOMAIN recs \ used :
       /\ new = [used |-> used \cup {i}, names |-> Append(names, recs[i].name)]
       /\ \/ Plain(recs[i].name) = e.vis
          \/ Token(recs[i].name, salt) = e.vis
          \/ /\ e.hash # 0 /\ recs[i].hash = e.hash
             /\ \A l \in DOMAIN recs \ used : recs[l].hash = e.hash => l = i

LEMMA BindCases ==
  ASSUME NEW b, NEW e, NEW recs, DOMAIN recs \subseteq Nat, NEW salt, NEW used, NEW names,
         b = [used |-> used, names |-> names]
  PROVE  MayBind(BindEntry(b, e, recs, salt), e, recs, salt, used, names)
<1> DEFINE routes == Routes(b, e, recs, salt)
           one == {r \in DOMAIN routes : OnlyOne(routes[r])}
           i == Least(routes[Least(one)])
<1>0. Free(b, recs) = DOMAIN recs \ used
  BY DEF Free
<1>1. /\ DOMAIN routes = 1 .. 3
      /\ routes[1] = {x \in Free(b, recs) : Plain(recs[x].name) = e.vis}
      /\ routes[2] = {x \in Free(b, recs) : Token(recs[x].name, salt) = e.vis}
      /\ routes[3] = {x \in Free(b, recs) : e.hash # 0 /\ recs[x].hash = e.hash}
  BY DEF Routes
<1>2. CASE e.vis.kind = "shortcut"
  <2>1. BindEntry(b, e, recs, salt) = [used |-> used, names |-> Append(names, Startup)]
    BY <1>2 DEF BindEntry
  <2> QED
    BY <2>1 DEF MayBind
<1>3. CASE e.vis.kind # "shortcut" /\ one = {}
  <2>1. BindEntry(b, e, recs, salt) = [used |-> used, names |-> Append(names, Kept(e))]
    BY <1>3 DEF BindEntry
  <2> QED
    BY <2>1 DEF MayBind
<1>4. CASE e.vis.kind # "shortcut" /\ one # {}
  <2>1. BindEntry(b, e, recs, salt) = [used |-> used \cup {i}, names |-> Append(names, recs[i].name)]
    BY <1>4 DEF BindEntry
  <2>2. one \subseteq 1 .. 3 /\ Least(one) \in one
    <3>1. one \subseteq 1 .. 3
      BY <1>1
    <3> QED
      BY <1>4, <3>1, HasLeast
  <2>3. PICK r \in 1 .. 3 : r = Least(one) /\ OnlyOne(routes[r])
    BY <2>2
  <2>4. PICK x \in routes[r] : routes[r] = {x}
    BY <2>3 DEF OnlyOne
  <2>5. x \in DOMAIN recs \ used
    <3>1. r = 1 \/ r = 2 \/ r = 3
      BY <2>3
    <3> QED
      BY <1>0, <1>1, <2>4, <3>1
  <2>6. i = x
    <3>1. routes[r] \subseteq Nat
      BY <2>4, <2>5
    <3>2. Least(routes[r]) \in routes[r]
      BY <2>4, <3>1, HasLeast
    <3> QED
      BY <2>3, <2>4, <3>2
  <2> HIDE DEF i, one
  <2>7. \/ Plain(recs[x].name) = e.vis
        \/ Token(recs[x].name, salt) = e.vis
        \/ /\ e.hash # 0 /\ recs[x].hash = e.hash
           /\ \A l \in DOMAIN recs \ used : recs[l].hash = e.hash => l = x
    <3>1. CASE r = 1
      BY <1>1, <2>4, <3>1
    <3>2. CASE r = 2
      BY <1>1, <2>4, <3>2
    <3>3. CASE r = 3
      BY <1>0, <1>1, <2>4, <3>3
    <3> QED
      BY <2>3, <3>1, <3>2, <3>3
  <2> QED
    BY <2>1, <2>5, <2>6, <2>7 DEF MayBind
<1> QED
  BY <1>2, <1>3, <1>4

LongerBy(names, more, x, k) ==
  /\ \E M : more \in Seq(M)
  /\ Len(more) = k /\ more[k] = x
  /\ \A j \in 1 .. k - 1 : more[j] = names[j]

LEMMA Appended ==
  ASSUME NEW N, NEW names \in Seq(N), NEW x, NEW more, more = Append(names, x),
         NEW k \in Nat, Len(names) = k - 1
  PROVE  LongerBy(names, more, x, k)
<1>1. names \in Seq(N \cup {x})
  OBVIOUS
<1>2. Append(names, x) \in Seq(N \cup {x})
  BY <1>1
<1> QED
  BY <1>1, <1>2 DEF LongerBy

LEMMA EntryLeft ==
  ASSUME NEW es, NEW recs, DOMAIN recs \subseteq Nat \ {0}, NEW k \in Nat \ {0}, NEW names, NEW more, NEW used,
         NEW g, Takes(es, recs, k - 1, names, used, g),
         \A j \in 1 .. k - 1 : more[j] = names[j], more[k] \in {Kept(es[k]), Startup}
  PROVE  \E h : Takes(es, recs, k, more, used, h)
<1> DEFINE h == [j \in 1 .. k |-> IF j = k THEN 0 ELSE g[j]]
<1>1. h[k] = 0 /\ \A j \in 1 .. k - 1 : h[j] = g[j] /\ g[j] \in DOMAIN recs \cup {0}
  BY DEF Takes
<1>2. \A j \in 1 .. k : j = k \/ j \in 1 .. k - 1
  OBVIOUS
<1>3. h = [j \in 1 .. k |-> h[j]]
  OBVIOUS
<1> HIDE DEF h
<1>4. h \in [1 .. k -> DOMAIN recs \cup {0}]
  BY <1>1, <1>2, <1>3
<1>5. used = {h[j] : j \in 1 .. k} \ {0}
  <2>1. used = {g[j] : j \in 1 .. k - 1} \ {0}
    BY DEF Takes
  <2> QED
    BY <1>1, <1>2, <2>1
<1>6. \A i, j \in 1 .. k : i # j /\ h[i] = h[j] => h[i] = 0
  BY <1>1, <1>2 DEF Takes
<1>7. \A j \in 1 .. k : IF h[j] = 0 THEN more[j] \in {Kept(es[j]), Startup} ELSE more[j] = recs[h[j]].name
  BY <1>1, <1>2 DEF Takes
<1>8. Full(recs, es) => \A j \in 1 .. k : /\ more[j] \in {es[j].name, Kept(es[j]), Startup}
                                          /\ h[j] # 0 => more[j] \in {es[j].name, es[j].vis.of}
  BY <1>1, <1>2 DEF Takes
<1> QED
  BY <1>4, <1>5, <1>6, <1>7, <1>8 DEF Takes

LEMMA EntryTook ==
  ASSUME NEW es, NEW recs, DOMAIN recs \subseteq Nat \ {0}, NEW k \in Nat \ {0}, NEW names, NEW more, NEW used,
         NEW g, Takes(es, recs, k - 1, names, used, g),
         \A j \in 1 .. k - 1 : more[j] = names[j],
         NEW x \in DOMAIN recs \ used, more[k] = recs[x].name,
         Full(recs, es) => more[k] \in {es[k].name, Kept(es[k])} /\ more[k] \in {es[k].name, es[k].vis.of}
  PROVE  \E h : Takes(es, recs, k, more, used \cup {x}, h)
<1> DEFINE h == [j \in 1 .. k |-> IF j = k THEN x ELSE g[j]]
<1>1. h[k] = x /\ x # 0 /\ \A j \in 1 .. k - 1 : h[j] = g[j] /\ g[j] \in DOMAIN recs \cup {0}
  BY DEF Takes
<1>2. \A j \in 1 .. k : j = k \/ j \in 1 .. k - 1
  OBVIOUS
<1>3. h = [j \in 1 .. k |-> h[j]]
  OBVIOUS
<1> HIDE DEF h
<1>4. h \in [1 .. k -> DOMAIN recs \cup {0}]
  BY <1>1, <1>2, <1>3
<1>5. used = {g[j] : j \in 1 .. k - 1} \ {0}
  BY DEF Takes
<1>6. used \cup {x} = {h[j] : j \in 1 .. k} \ {0}
  BY <1>1, <1>2, <1>5
<1>7. \A j \in 1 .. k - 1 : g[j] # x
  BY <1>1, <1>5
<1>8. \A i, j \in 1 .. k : i # j /\ h[i] = h[j] => h[i] = 0
  BY <1>1, <1>2, <1>7 DEF Takes
<1>9. \A j \in 1 .. k : IF h[j] = 0 THEN more[j] \in {Kept(es[j]), Startup} ELSE more[j] = recs[h[j]].name
  BY <1>1, <1>2 DEF Takes
<1>10. Full(recs, es) => \A j \in 1 .. k : /\ more[j] \in {es[j].name, Kept(es[j]), Startup}
                                           /\ h[j] # 0 => more[j] \in {es[j].name, es[j].vis.of}
  BY <1>1, <1>2 DEF Takes
<1> QED
  BY <1>4, <1>6, <1>8, <1>9, <1>10 DEF Takes

LEMMA BindStep ==
  ASSUME NEW R, NEW recs \in Seq(R), NEW E, NEW es \in Seq(E), Distinct(es), NEW salt, NEW k \in 1 .. Len(es),
         NEW b, BindInv(es, recs, k - 1, b)
  PROVE  BindInv(es, recs, k, BindEntry(b, es[k], recs, salt))
<1>0. PICK e : e = es[k]
  OBVIOUS
<1>1. PICK used, names : b = [used |-> used, names |-> names]
  BY DEF BindInv
<1>2. PICK N : names \in Seq(N)
  BY <1>1 DEF BindInv
<1>3. Len(names) = k - 1 /\ k \in Nat /\ k \in Nat \ {0} /\ k \in DOMAIN es /\ DOMAIN es = 1 .. Len(es)
  BY <1>1 DEF BindInv
<1>4. DOMAIN recs \subseteq Nat \ {0} /\ DOMAIN recs \subseteq Nat
  OBVIOUS
<1>5. PICK g : Takes(es, recs, k - 1, names, used, g)
  BY <1>1 DEF BindInv
<1>6. CASE \E n \in {Kept(es[k]), Startup} : BindEntry(b, es[k], recs, salt) = [used |-> used, names |-> Append(names, n)]
  <2>1. PICK n \in {Kept(es[k]), Startup} : BindEntry(b, es[k], recs, salt) = [used |-> used, names |-> Append(names, n)]
    BY <1>6
  <2>2. PICK more : more = Append(names, n)
    OBVIOUS
  <2>3. (\E M : more \in Seq(M)) /\ Len(more) = k /\ more[k] = n /\ \A j \in 1 .. k - 1 : more[j] = names[j]
    <3>1. LongerBy(names, more, n, k)
      BY <1>2, <1>3, <2>2, Appended
    <3> QED
      BY <3>1 DEF LongerBy
  <2>4. \E h : Takes(es, recs, k, more, used, h)
    BY <1>3, <1>4, <1>5, <2>3, EntryLeft
  <2> QED
    BY <2>1, <2>2, <2>3, <2>4 DEF BindInv
<1>7. CASE \E i \in DOMAIN recs \ used :
              /\ BindEntry(b, es[k], recs, salt) = [used |-> used \cup {i}, names |-> Append(names, recs[i].name)]
              /\ \/ Plain(recs[i].name) = es[k].vis
                 \/ Token(recs[i].name, salt) = es[k].vis
                 \/ /\ es[k].hash # 0 /\ recs[i].hash = es[k].hash
                    /\ \A l \in DOMAIN recs \ used : recs[l].hash = es[k].hash => l = i
  <2>1. PICK i \in DOMAIN recs \ used :
              /\ BindEntry(b, es[k], recs, salt) = [used |-> used \cup {i}, names |-> Append(names, recs[i].name)]
              /\ \/ Plain(recs[i].name) = es[k].vis
                 \/ Token(recs[i].name, salt) = es[k].vis
                 \/ /\ es[k].hash # 0 /\ recs[i].hash = es[k].hash
                    /\ \A l \in DOMAIN recs \ used : recs[l].hash = es[k].hash => l = i
    BY <1>7
  <2>2. PICK more : more = Append(names, recs[i].name)
    OBVIOUS
  <2>3. (\E M : more \in Seq(M)) /\ Len(more) = k /\ more[k] = recs[i].name /\ \A j \in 1 .. k - 1 : more[j] = names[j]
    <3>1. LongerBy(names, more, recs[i].name, k)
      BY <1>2, <1>3, <2>2, Appended
    <3> QED
      BY <3>1 DEF LongerBy
  <2>4. ASSUME Full(recs, es)
        PROVE  more[k] \in {es[k].name, Kept(es[k])} /\ more[k] \in {es[k].name, es[k].vis.of}
    <3>1. CASE Plain(recs[i].name) = es[k].vis
      BY <2>3, <3>1 DEF Plain, Kept
    <3>2. CASE Token(recs[i].name, salt) = es[k].vis
      <4>1. recs[i].name = es[k].vis.of
        BY <3>2 DEF Token
      <4>2. PICK j \in DOMAIN es : recs[i].name = es[j].name
        BY <2>4 DEF Full
      <4>3. j = k
        BY <1>3, <4>1, <4>2 DEF Distinct
      <4> QED
        BY <2>3, <4>2, <4>3
    <3>3. CASE /\ es[k].hash # 0 /\ recs[i].hash = es[k].hash
               /\ \A l \in DOMAIN recs \ used : recs[l].hash = es[k].hash => l = i
      <4>1. PICK l \in DOMAIN recs : recs[l].name = es[k].name /\ recs[l].hash = es[k].hash
        BY <1>3, <2>4 DEF Full
      <4>2. l \notin used
        <5>1. SUFFICES ASSUME l \in used
                       PROVE  FALSE
          OBVIOUS
        <5>2. PICK j \in 1 .. k - 1 : g[j] = l /\ l # 0
          BY <1>5, <5>1 DEF Takes
        <5>3. names[j] = recs[l].name /\ names[j] \in {es[j].name, es[j].vis.of}
          BY <1>5, <2>4, <5>2 DEF Takes
        <5>4. j \in DOMAIN es /\ j # k
          BY <1>3, <5>2
        <5> QED
          BY <1>3, <4>1, <5>3, <5>4 DEF Distinct
      <4>3. l = i
        BY <3>3, <4>1, <4>2
      <4> QED
        BY <2>3, <4>1, <4>3
    <3> QED
      BY <2>1, <3>1, <3>2, <3>3
  <2>5. \E h : Takes(es, recs, k, more, used \cup {i}, h)
    BY <1>3, <1>4, <1>5, <2>3, <2>4, EntryTook
  <2> QED
    BY <2>1, <2>2, <2>3, <2>5 DEF BindInv
<1> QED
  <2>1. MayBind(BindEntry(b, e, recs, salt), e, recs, salt, used, names)
    BY <1>1, <1>4, BindCases
  <2>2. PICK new : new = BindEntry(b, e, recs, salt)
    OBVIOUS
  <2>3. MayBind(new, e, recs, salt, used, names)
    BY <2>1, <2>2
  <2> QED
    BY <1>0, <1>6, <1>7, <2>2, <2>3 DEF MayBind

(* b is the binding of the first n entries. *)
Binds(recs, salt, es, n, b) ==
  b = [k \in 0 .. n |-> IF k = 0 THEN [used |-> {}, names |-> <<>>] ELSE BindEntry(b[k - 1], es[k], recs, salt)]

Binding(recs, salt, es) == CHOOSE b : Binds(recs, salt, es, Len(es), b)

LEMMA BindExists ==
  ASSUME NEW recs, NEW salt, NEW es
  PROVE  \A n \in Nat : \E b : Binds(recs, salt, es, n, b)
<1> DEFINE Not == {n \in Nat : ~ \E b : Binds(recs, salt, es, n, b)}
<1> SUFFICES ASSUME Not # {}
             PROVE  FALSE
  OBVIOUS
<1>1. PICK n \in Not : \A m \in Not : n <= m
  BY HasLeast
<1>2. CASE n = 0
  <2>1. Binds(recs, salt, es, 0, [k \in 0 .. 0 |-> [used |-> {}, names |-> <<>>]])
    BY DEF Binds
  <2> QED
    BY <1>1, <1>2, <2>1
<1>3. CASE n # 0
  <2>1. n - 1 \in Nat /\ n - 1 \notin Not
    BY <1>1, <1>3
  <2>2. PICK b : Binds(recs, salt, es, n - 1, b)
    BY <2>1
  <2> DEFINE new == BindEntry(b[n - 1], es[n], recs, salt)
             g == [k \in 0 .. n |-> IF k = n THEN new ELSE b[k]]
  <2>3. \A k \in 0 .. n - 1 : b[k] = IF k = 0 THEN [used |-> {}, names |-> <<>>] ELSE BindEntry(b[k - 1], es[k], recs, salt)
    BY <2>2 DEF Binds
  <2>4. (\A k \in 0 .. n - 1 : g[k] = b[k]) /\ g[n] = new
    BY <2>1
  <2>5. g = [k \in 0 .. n |-> g[k]]
    OBVIOUS
  <2> HIDE DEF g
  <2>6. ASSUME NEW k \in 0 .. n
        PROVE  g[k] = IF k = 0 THEN [used |-> {}, names |-> <<>>] ELSE BindEntry(g[k - 1], es[k], recs, salt)
    <3>1. k = 0 \/ k - 1 \in 0 .. n - 1
      BY <2>1
    <3>2. CASE k = n
      BY <1>3, <2>4, <3>1, <3>2
    <3>3. CASE k # n
      <4>1. k \in 0 .. n - 1
        BY <2>1, <3>3
      <4> QED
        BY <2>3, <2>4, <3>1, <4>1
    <3> QED
      BY <3>2, <3>3
  <2>7. Binds(recs, salt, es, n, g)
    BY <2>5, <2>6 DEF Binds
  <2> QED
    BY <1>1, <2>7
<1> QED
  BY <1>2, <1>3

LEMMA StructuralBinds ==
  ASSUME NEW p, NEW salt, NEW es
  PROVE  LET b == Binding(Records(p), salt, es)
         IN  BindStructural(p, salt, es) =
               IF IsNameTable(p) /\ b[Len(es)].used = DOMAIN Records(p) THEN b[Len(es)].names ELSE <<>>
  BY DEF BindStructural, Binding, Binds

LEMMA BindingHolds ==
  ASSUME NEW R, NEW recs \in Seq(R), NEW E, NEW es \in Seq(E), Distinct(es), NEW salt
  PROVE  BindInv(es, recs, Len(es), Binding(recs, salt, es)[Len(es)])
<1>1. Len(es) \in Nat
  OBVIOUS
<1>2. PICK b : b = Binding(recs, salt, es)
  OBVIOUS
<1>3. Binds(recs, salt, es, Len(es), b)
  <2>1. \E c : Binds(recs, salt, es, Len(es), c)
    BY <1>1, BindExists
  <2> QED
    BY <1>2, <2>1 DEF Binding
<1> DEFINE start == [used |-> {}, names |-> <<>>]
<1>4. \A k \in 0 .. Len(es) : b[k] = IF k = 0 THEN start ELSE BindEntry(b[k - 1], es[k], recs, salt)
  BY <1>3 DEF Binds
<1> DEFINE Not == {k \in 0 .. Len(es) : ~ BindInv(es, recs, k, b[k])}
<1>5. Not = {}
  <2> SUFFICES ASSUME Not # {}
               PROVE  FALSE
    OBVIOUS
  <2>1. Not \subseteq Nat
    OBVIOUS
  <2>2. PICK k \in Not : \A m \in Not : k <= m
    BY <2>1, HasLeast
  <2>3. CASE k = 0
    <3>1. b[k] = start
      BY <1>1, <1>4, <2>3
    <3>2. Takes(es, recs, 0, <<>>, {}, [j \in 1 .. 0 |-> 0])
      BY DEF Takes
    <3>3. <<>> \in Seq({}) /\ Len(<<>>) = 0
      OBVIOUS
    <3>4. BindInv(es, recs, 0, start)
      BY <3>2, <3>3 DEF BindInv
    <3> QED
      BY <2>2, <2>3, <3>1, <3>4
  <2>4. CASE k # 0
    <3>1. k - 1 \in 0 .. Len(es) /\ k - 1 \notin Not /\ k \in 1 .. Len(es)
      BY <1>1, <2>2, <2>4
    <3>2. BindInv(es, recs, k - 1, b[k - 1])
      BY <3>1
    <3>3. BindInv(es, recs, k, BindEntry(b[k - 1], es[k], recs, salt))
      BY <3>1, <3>2, BindStep
    <3>4. b[k] = BindEntry(b[k - 1], es[k], recs, salt)
      BY <1>4, <2>2, <2>4
    <3> QED
      BY <2>2, <3>3, <3>4
  <2> QED
    BY <2>3, <2>4
<1> QED
  BY <1>1, <1>2, <1>5

(* What a table of records binds: the names of an accepted binding. *)
LEMMA StructuralTakes ==
  ASSUME NEW p, IsList(p.chunks), NEW E, NEW es \in Seq(E), Distinct(es), NEW salt,
         NEW names, names = BindStructural(p, salt, es), names # <<>>
  PROVE  \E used, g : Takes(es, Records(p), Len(es), names, used, g)
<1>1. PICK b : b = Binding(Records(p), salt, es)[Len(es)]
  OBVIOUS
<1>2. names = b.names
  BY <1>1, StructuralBinds, Zenon
<1>3. Records(p) \in Seq({p.chunks[i].rec : i \in DOMAIN p.chunks})
  BY DEF IsList, Records
<1>4. BindInv(es, Records(p), Len(es), b)
  BY <1>1, <1>3, BindingHolds
<1> QED
  BY <1>2, <1>4 DEF BindInv

LEMMA EntriesDistinct ==
  ASSUME game \in UNION Cases
  PROVE  Distinct(Entries)
  BY NamesAssumption DEF Distinct, Entries

LEMMA CompleteIsFull ==
  ASSUME NEW p, Complete(p)
  PROVE  Full(Records(p), Entries)
<1>1. Range(Records(p)) = {Own(k) : k \in DOMAIN Entries}
  BY DEF Complete
<1>2. ASSUME NEW i \in DOMAIN Records(p)
      PROVE  \E k \in DOMAIN Entries : Records(p)[i].name = Entries[k].name
  <2>1. Records(p)[i] \in Range(Records(p))
    BY DEF Range
  <2>2. PICK k \in DOMAIN Entries : Records(p)[i] = Own(k)
    BY <1>1, <2>1
  <2> QED
    BY <2>2 DEF Own
<1>3. ASSUME NEW k \in DOMAIN Entries
      PROVE  \E i \in DOMAIN Records(p) : Records(p)[i].name = Entries[k].name /\ Records(p)[i].hash = Entries[k].hash
  <2>1. PICK i \in DOMAIN Records(p) : Records(p)[i] = Own(k)
    BY <1>1 DEF Range
  <2> QED
    BY <2>1 DEF Own
<1> QED
  BY <1>2, <1>3 DEF Full

(* In an early archive every record of the only tag is in the group. *)
LEMMA EarlyOwn ==
  ASSUME game \in UNION Cases, NEW p, Complete(p), NEW t \in Tags(p), NEW salt, NEW k \in DOMAIN Entries,
         NEW name, name = EarlyName(Group(p, t), Entries[k], salt), name # Unnamed
  PROVE  name \in {Entries[k].name, Kept(Entries[k]), Startup}
<1>0. PICK G, e : G = Group(p, t) /\ e = Entries[k]
  OBVIOUS
<1> SUFFICES name \in {e.name, Kept(e), Startup}
  BY <1>0
<1>9. name = EarlyName(G, e, salt)
  BY <1>0
<1> DEFINE routes == <<ExactFor(G, e), TokenFor(G, e, salt), HashFor(G, e)>>
           one == {r \in DOMAIN routes : OnlyOne(routes[r])}
<1>1. Tags(p) = {t}
  BY DEF Complete, OnlyOne
<1>2. ASSUME NEW r \in G
      PROVE  \E j \in DOMAIN Entries : r = Own(j)
  <2>1. PICK i \in DOMAIN p.chunks : r = p.chunks[i].rec
    BY <1>0 DEF Group
  <2>2. r \in Range(Records(p))
    BY <2>1 DEF Records, Range
  <2> QED
    BY <2>2 DEF Complete
<1>10. Own(k).name = e.name /\ Own(k).hash = e.hash
  BY <1>0 DEF Own
<1>3. e.hash # 0 => Own(k) \in G
  <2>1. PICK i \in DOMAIN Records(p) : Records(p)[i] = Own(k)
    BY DEF Complete, Range
  <2>2. i \in DOMAIN p.chunks /\ p.chunks[i].rec = Own(k)
    BY <2>1 DEF Records
  <2>3. e.hash # 0 => p.chunks[i].rec # NoRec
    BY <1>10, <2>2 DEF NoRec
  <2>4. e.hash # 0 => p.chunks[i].tag \in Tags(p)
    BY <2>2, <2>3 DEF Tags
  <2> QED
    BY <1>0, <1>1, <2>2, <2>3, <2>4 DEF Group
<1>4. CASE e.dummy \/ e.vis.kind = "shortcut"
  BY <1>4, <1>9 DEF EarlyName
<1>5. CASE ~e.dummy /\ e.vis.kind # "shortcut" /\ one = {}
  BY <1>5, <1>9 DEF EarlyName
<1>6. CASE ~e.dummy /\ e.vis.kind # "shortcut" /\ one # {}
  <2>1. name = CHOOSE n \in routes[Least(one)] : TRUE
    BY <1>6, <1>9 DEF EarlyName
  <2>2. /\ DOMAIN routes = 1 .. 3
        /\ routes[1] = ExactFor(G, e) /\ routes[2] = TokenFor(G, e, salt) /\ routes[3] = HashFor(G, e)
    OBVIOUS
  <2>3. one \subseteq Nat
    BY <2>2
  <2>4. PICK r \in 1 .. 3 : r = Least(one) /\ OnlyOne(routes[r])
    BY <1>6, <2>2, <2>3, HasLeast
  <2> HIDE DEF routes, one
  <2>5. name \in routes[r] /\ routes[r] = {name}
    BY <2>1, <2>4 DEF OnlyOne
  <2>6. CASE r = 1
    <3>1. Plain(name) = e.vis
      BY <2>2, <2>5, <2>6 DEF ExactFor
    <3> QED
      BY <3>1 DEF Plain, Kept
  <2>7. CASE r = 2
    <3>1. PICK q \in G : name = q.name /\ Token(q.name, salt) = e.vis
      BY <2>2, <2>5, <2>7 DEF TokenFor
    <3>2. PICK j \in DOMAIN Entries : q = Own(j)
      BY <1>2
    <3>3. name = e.vis.of
      BY <3>1 DEF Token
    <3>5. name = Entries[j].name
      BY <3>1, <3>2 DEF Own
    <3>4. j = k
      BY <1>0, <3>3, <3>5, EntriesDistinct DEF Distinct
    <3> QED
      BY <1>0, <3>4, <3>5
  <2>8. CASE r = 3
    <3>1. e.hash # 0
      BY <2>2, <2>5, <2>8 DEF HashFor
    <3>2. e.name \in HashFor(G, e)
      <4>1. Own(k) \in {q \in G : e.hash # 0 /\ q.hash = e.hash}
        BY <1>3, <1>10, <3>1
      <4> QED
        BY <1>10, <4>1 DEF HashFor
    <3> QED
      BY <2>2, <2>5, <2>8, <3>2
  <2> QED
    BY <2>4, <2>6, <2>7, <2>8
<1> QED
  BY <1>4, <1>5, <1>6

(* However names hide behind tokens and hashes, also of equal files: no    *)
(* entry gets the name of another from a complete table, and no record     *)
(* names two entries (recover_cxdec_names_from_decoded and the early       *)
(* records).                                                               *)
THEOREM NamesCorrect == RouteSpec => []NobodysName
<1>1. NamesInv => NobodysName
  <2> SUFFICES ASSUME NamesInv
               PROVE  NobodysName
    OBVIOUS
  <2>1. Entries \in Seq(Range(Entries)) /\ Distinct(Entries) /\ DOMAIN Entries = 1 .. Len(Entries)
    BY GameLists, EntriesDistinct DEF NamesInv, IsList, Entries
  <2>2. ASSUME result.by = "records"
        PROVE  \E used, g : Takes(Entries, Records(game.roots[result.root].plain), Len(Entries), result.names, used, g)
    <3>1. Bound(result.names, result.root)
      BY <2>2 DEF NamesInv, ResultInv
    <3>2. IsList(game.roots[result.root].plain.chunks)
      BY <3>1, GameLists DEF NamesInv, Bound
    <3> QED
      BY <2>1, <3>1, <3>2, StructuralTakes DEF Bound
  <2>3. ASSUME result.by = "records", Complete(game.roots[result.root].plain), NEW k \in DOMAIN Entries
        PROVE  result.names[k] \in {Entries[k].name, Kept(Entries[k]), Startup}
    <3>1. Full(Records(game.roots[result.root].plain), Entries)
      BY <2>3, CompleteIsFull
    <3> QED
      BY <2>1, <2>2, <2>3, <3>1 DEF Takes
  <2>4. ASSUME result.by = "early", Complete(game.roots[result.root].plain), NEW k \in DOMAIN Entries
        PROVE  result.names[k] \in {Entries[k].name, Kept(Entries[k]), Startup}
    <3>1. Shown(result.names, result.root)
      BY <2>4 DEF NamesInv, ResultInv
    <3>2. PICK t \in Tags(game.roots[result.root].plain) :
            result.names = [j \in DOMAIN Entries |->
              EarlyName(Group(game.roots[result.root].plain, t), Entries[j], game.roots[result.root].product)]
      BY <3>1 DEF Shown
    <3>3. result.names[k] # Unnamed
      BY <3>1, <3>2 DEF Shown, Range
    <3>4. PICK p, name, salt : p = game.roots[result.root].plain /\ name = result.names[k] /\ salt = game.roots[result.root].product
      OBVIOUS
    <3>5. t \in Tags(p) /\ name = EarlyName(Group(p, t), Entries[k], salt) /\ Complete(p) /\ name # Unnamed
      BY <2>4, <3>2, <3>3, <3>4
    <3>6. game \in UNION Cases
      BY DEF NamesInv
    <3> QED
      BY <2>4, <3>4, <3>5, <3>6, EarlyOwn
  <2>5. ASSUME result.by = "records", NEW j \in DOMAIN Entries, NEW k \in DOMAIN Entries, j # k,
               result.names[j] = result.names[k],
               result.names[j] \notin {Kept(Entries[j]), Kept(Entries[k]), Startup}
        PROVE  LET recs == Records(game.roots[result.root].plain)
               IN  \E i, l \in DOMAIN recs : i # l /\ recs[i].name = result.names[j] /\ recs[l].name = result.names[j]
    <3> DEFINE recs == Records(game.roots[result.root].plain)
    <3>1. PICK used, g : Takes(Entries, recs, Len(Entries), result.names, used, g)
      BY <2>2, <2>5
    <3>2. j \in 1 .. Len(Entries) /\ k \in 1 .. Len(Entries)
      BY <2>1
    <3> HIDE DEF recs
    <3>3. g[j] # 0 /\ g[k] # 0 /\ result.names[j] = recs[g[j]].name /\ result.names[k] = recs[g[k]].name
      BY <2>5, <3>1, <3>2 DEF Takes
    <3>4. g[j] \in DOMAIN recs /\ g[k] \in DOMAIN recs /\ g[j] # g[k]
      BY <2>5, <3>1, <3>2, <3>3 DEF Takes
    <3>5. \E i, l \in DOMAIN recs : i # l /\ recs[i].name = result.names[j] /\ recs[l].name = result.names[j]
      BY <2>5, <3>3, <3>4
    <3> QED
      BY <3>5 DEF recs
  <2> QED
    BY <2>3, <2>4, <2>5, Zenon DEF NobodysName
<1> QED
  BY RecoveryInductive, <1>1, PTL
=============================================================================
