---------------------------- MODULE MCXp3Unpack ----------------------------
(* Small archives for Xp3Unpack. *)
EXTENDS Xp3Unpack

MCPaths == {"a", "a.png", "b"}

Entry ==
  [kind |-> "file", readable |-> TRUE, adlr |-> TRUE, hash |-> TRUE, named |-> TRUE, bound |-> TRUE,
   cipher |-> "native", strong |-> {"native"}, size |-> 2, path |-> "a", image |-> "a"]

NoSum == [Entry EXCEPT !.adlr = FALSE]

MCShapes ==
  { [Entry EXCEPT !.image = "a.png"],                                \* an image under the native filter
    [Entry EXCEPT !.path = "a.png", !.image = "a.png", !.bound = FALSE],
    [Entry EXCEPT !.cipher = "common", !.strong = {"common"}, !.path = "b", !.image = "b"],
    [NoSum EXCEPT !.cipher = "own", !.strong = {"own", "native"}, !.size = 1],
    [NoSum EXCEPT !.cipher = "unknown", !.strong = {"common"}, !.hash = FALSE, !.path = "b", !.image = "b"],
    [Entry EXCEPT !.cipher = "raw", !.strong = {"raw"}, !.size = 5],
    [NoSum EXCEPT !.cipher = "raw", !.named = FALSE, !.strong = {}, !.kind = "lookup"],
    [Entry EXCEPT !.kind = "dummy", !.readable = FALSE, !.cipher = "raw", !.size = 1],
    [Entry EXCEPT !.readable = FALSE, !.path = "b", !.image = "b"] }
=============================================================================
