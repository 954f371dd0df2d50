------------------------------ MODULE NameRoute ------------------------------
(***************************************************************************)
(* Names before content: how unpack (main.rs unpack, up to the recovery of *)
(* contents) puts the two recoveries of names together.  An archive with   *)
(* an indirect special index goes through NameRecovery; for an HXV4        *)
(* archive that recovery gives nothing, its authenticated index is opened  *)
(* instead and HxBootstrap looks for the names behind the hashes.          *)
(* Content is recovered only when the layer of names the archive has was   *)
(* read; unpack stops without an error when an HXV4 name stays a hash.     *)
(***************************************************************************)
EXTENDS NameRecovery

CONSTANTS
  HxGames,   \* what HxBootstrap is started on: see MCHxGames
  MaxRounds, \* HXV4_BOOTSTRAP_MAX_ROUNDS
  Exts       \* HXV4_COMMON_EXTENSIONS

ASSUME RouteAssumption == MaxRounds \in Nat \ {0}

(* A game has the current archive, and maybe siblings after it; archives   *)
(* and their entries are lists.                                            *)
ASSUME HxAssumption ==
  \A g \in HxGames : IsList(g.arch) /\ g.arch # <<>> /\ \A a \in DOMAIN g.arch : IsList(g.arch[a].entries)

VARIABLES
  gate, \* "names", "hx", "content", "stopped", "failed"
  hxGame, phase, round, active, map, known, snap, at, tried, probed, got, written, before, why

hxVars == <<hxGame, phase, round, active, map, known, snap, at, tried, probed, got, written, before, why>>
routeVars == <<vars, gate, hxVars>>

Hx == INSTANCE HxBootstrap WITH game <- hxGame, Games <- HxGames

NoGame == [arch |-> <<>>]

RouteInit ==
  /\ Init /\ gate = "names"
  /\ hxGame = NoGame /\ phase = "idle" /\ round = 0 /\ active = FALSE
  /\ map = Hx!NoNames /\ known = <<>> /\ snap = Hx!NoNames /\ at = Hx!Nobody
  /\ tried = {} /\ probed = {} /\ got = {} /\ written = {} /\ before = NoGame /\ why = "none"

HasSpecial == \E i \in DOMAIN game.roots : game.roots[i].special

(* recover_ordered_names_with_hx_options *)
OrderedNames ==
  /\ gate = "names" /\ Next
  /\ UNCHANGED <<gate, hxVars>>

(* The ordered recovery is over; require_special_before_content_recovery.  *)
ToContent ==
  /\ gate = "names" /\ ~game.hxv4 /\ route \in {"done", "error"}
  /\ gate' = IF route = "error" \/ (HasSpecial /\ result = NoResult) THEN "failed" ELSE "content"
  /\ UNCHANGED <<vars, hxVars>>

(* load_hx_index gives an index, or there is no key or descriptor for one. *)
IndexLocked ==
  /\ gate = "names" /\ game.hxv4 /\ route = "done"
  /\ gate' = "failed"
  /\ UNCHANGED <<vars, hxVars>>

StartBootstrap ==
  /\ gate = "names" /\ game.hxv4 /\ route = "done" /\ HasSpecial
  /\ \E g \in HxGames :
       /\ hxGame' = g
       /\ known' = [a \in DOMAIN g.arch |-> Hx!NoNames]
       /\ before' = [map |-> Hx!NoNames, known |-> known']
  /\ gate' = "hx" /\ phase' = "seed"
  /\ UNCHANGED <<vars, round, active, map, snap, at, tried, probed, got, written, why>>

Bootstrap ==
  /\ gate = "hx" /\ Hx!Next
  /\ UNCHANGED <<vars, gate>>

(* hxv4_names_complete, for the records of the current archive. *)
NamesComplete == Hx!Resolved(known[1], 1) = Hx!Current(1)

BootstrapOver ==
  /\ gate = "hx" /\ phase \in {"done", "failed"}
  /\ gate' = IF phase = "failed" THEN "failed" ELSE IF NamesComplete THEN "content" ELSE "stopped"
  /\ UNCHANGED <<vars, hxVars>>

RouteNext == OrderedNames \/ ToContent \/ IndexLocked \/ StartBootstrap \/ Bootstrap \/ BootstrapOver

RouteSpec == RouteInit /\ [][RouteNext]_routeVars

----------------------------------------------------------------------------
(* Properties *)

(* Where the loop of the HXV4 bootstrap ends by itself nothing is left to  *)
(* learn: see HxBootstrap.                                                 *)
FixedPointIsComplete == gate # "names" => Hx!FixedPointIsComplete

=============================================================================
