---- MODULE MCKeyRecovery ----
EXTENDS KeyRecovery

MCTags == {<<1, 2>>, <<3, 1>>, <<0, 3>>}
MCCommon == {1, 7}

KeyOf(bytes) == [s \in 0..(Len(bytes) - 1) |-> bytes[s + 1]]
Keys == {KeyOf(k) : k \in {<<1, 2>>, <<0, 3, 1>>, <<1, 2, 3, 0>>, <<2, 1, 0, 3, 1>>}}
LongKey == KeyOf(<<1, 2, 3, 0, 2, 1, 3>>)
ChainA == <<3, 0, 1, 1, 2, 3, 0, 1, 1, 2>>
ChainB == <<3, 0, 1, 3, 2, 2, 2, 3, 0, 1, 0>>
Chains == {ChainA, ChainB,
           <<3, 0, 1, 2, 3, 1, 3, 0, 1, 1, 2>>}
\* Streams whose second page only a guessed length byte leads to.
GuessRight == <<3, 0, 1, 0, 3, 0, 1, 3, 2, 0, 0, 3, 0, 1, 0>>
GuessWrong == <<3, 0, 1, 0, 3, 0, 1, 1, 1, 3, 0, 1, 0>>
\* One known byte of the pattern in front of three unknown key slots.
NearMiss   == <<3, 0, 1, 0, 3, 0, 1, 1, 2, 3, 0, 1, 0>>
ChunkA == <<2, 1, 1, 2, 1, 0, 0, 3>>
Chunks == {ChunkA,
           <<2, 0, 1, 2, 1, 3, 1, 2, 0, 0, 3>>,
           <<2, 1, 1, 0, 3, 0, 0, 3>>}
\* The guess swaps the letters of these: only a search finds the key.
Swapped    == {<<a, 0, b, 0, 3 - a, 0, 3 - b, 0>> \o t : a, b \in {1, 2}, t \in {<<>>, <<1>>, <<1, 0>>}}
SwapKey    == KeyOf(<<3, 1, 2, 2>>)
Texts  == {<<1, 0, 2, 0, 1, 0>>, <<1, 0, 2, 0, 1, 0, 1, 0, 1>>}

Entry(h, plain, key, adler) ==
  [stream |-> Decrypted(plain, key), format |-> h,
   adler |-> IF adler THEN Adler(plain) ELSE None]

Single(h, plain, key, adler, gpu) ==
  [entries |-> <<Entry(h, plain, key, adler)>>, special |-> None,
   hyps |-> <<h>>, gpu |-> gpu, key |-> key]

\* Without a checksum the accelerator has nothing to do.
Alone(h, plain, key) ==
  {Single(h, plain, key, TRUE, g) : g \in {"off", "auto", "only"}}
  \union {Single(h, plain, key, FALSE, "off")}

Damaged == [stream |-> None, format |-> "chain", adler |-> None]
Plain(h, plain) == Entry(h, plain, KeyOf(<<0>>), TRUE)

\* Archives of several entries under one key; the last entry may be stored
\* without it, be unreadable, or lack a name or a checksum.
Archives(k, special) ==
  {[entries |-> <<Entry("chain", ChainA, k, a), Entry("chunk", ChunkA, k, TRUE), last>>,
    special |-> special, hyps |-> <<"chain">>, gpu |-> "off", key |-> k] :
     a \in BOOLEAN,
     last \in {Entry("chunk", ChunkA, k, TRUE), Entry("chunk", ChunkA, k, FALSE),
               Plain("chunk", ChunkA), Damaged, [Plain("chunk", ChunkA) EXCEPT !.adler = None],
               [Entry("chain", ChainA, k, TRUE) EXCEPT !.format = NoFormat]}}

\* Four entries, the longest of which is no sample any more.
Crowded(k) ==
  {[entries |-> <<last, Entry("chain", ChainA, k, TRUE), Entry("chunk", ChunkA, k, TRUE),
                  Entry("chunk", ChunkA, k, TRUE)>>,
    special |-> None, hyps |-> <<"chain">>, gpu |-> "off", key |-> k] :
     last \in {Entry("chain", ChainB, k, TRUE), Entry("chain", ChainB, KeyOf(<<3, 3>>), TRUE)}}

MCProblems ==
  UNION {Alone("chain", p, k) : p \in Chains, k \in Keys}
  \union Alone("chain", GuessRight, LongKey) \union Alone("chain", GuessWrong, LongKey)
  \union Alone("chain", NearMiss, LongKey)
  \union UNION {Alone("chunk", p, k) : p \in Chunks, k \in Keys}
  \union UNION {Alone("text", p, k) : p \in Texts, k \in Keys}
  \union UNION {Alone("text", p, SwapKey) : p \in Swapped}
  \union UNION {Archives(k, s) : k \in {KeyOf(<<1, 2>>), KeyOf(<<0, 3, 1>>)},
                                 s \in {None, KeyOf(<<3, 3>>), KeyOf(<<1, 2>>)}}
  \union UNION {Crowded(k) : k \in {KeyOf(<<1, 2>>), KeyOf(<<0, 3, 1>>)}}
====
