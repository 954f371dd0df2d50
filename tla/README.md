# A verification project for xp3-brute

xp3-brute opens XP3 archives (the container of KiriKiri visual novels), recovers
entry contents under a range of filters, writes an editable tree, and packs the
edited tree back into an archive that keeps every byte it has no reason to change.
This directory holds TLA+ models of the parts of the program whose correctness
depends on order, interleaving, crashes or arithmetic at a boundary, the TLC
configurations that check them on small instances, and TLAPS proofs of the safety
properties for every value of the constants.

Paths below are relative to the crate (`src/src/...`). `PROJECT.json` maps every
definition to its lines, lists the hazards with the properties that cover them,
the runs, and one mutation of the code per property that the property must catch.

    tlc -workers 2 -config MCXp3Pack.cfg MCXp3Pack.tla     # a run
    tlapm Xp3Pack_proofs.tla                               # a proof

## Inventory of the system

| Component | Code | State it keeps | Operations | Hard behaviour |
|---|---|---|---|---|
| Edit cycle | `main.rs` unpack, `xp3_meta.rs`, `encoder/rebuild.rs`, `encoder/xp3.rs` | extraction tree, `xp3-meta.yaml`, `.xp3-rebuilt` overlay, source and output archive | unpack, user edits, rebuild, pack | stale overlay, interrupted commands, digests that stand for contents |
| Physical layout and writer | `encoder/xp3.rs` | offsets, footprints, index templates, the file being written | assign, measure, patch the index, protect unknown bytes, write, self-check | fix-point between offsets and compressed length, shared segments, growth |
| Archive parser | `xp3.rs` | index chain, roots, entries, one file handle | open, walk chunks, prune the warning, reconstruct, read a blob once | chains into themselves, tolerant mode, readers on several threads |
| Round-trip verification | `roundtrip.rs`, `validate.rs` | report | pack, reopen, compare | what an entry is compared with |
| Unpack batches and recovery cascade | `main.rs`, `solver.rs` | archive-wide key, engine, batch in memory, per-worker emulators | choose filters, solve an entry, write it, record it | which evidence accepts what, nested parallelism in one pool, errors in the middle of a batch, path collisions |
| Special index and names | `special_*.rs`, `script_names.rs`, `cxdec_names.rs`, `main.rs` | hypotheses, name map | scan, validate, bind | acceptance on partial evidence |
| HXV4 | `hxv4.rs`, `hxv4_native.rs`, `main.rs` | index, dictionary, filter | bootstrap, resolve, filter | when the bootstrap may stop, growth across archives |
| CxDec schemes | `legacy_cxdec.rs`, `cxdec_classic.rs` | parameters, lane programs | scan modules, combine, build, filter | silent cut of a product, ambiguity, three forms of one program |
| x86 filter host | `x86_filter.rs`, `win32_host.rs`, `pe_normalize.rs`, `krkr_exe.rs` | an emulated process per worker | attach, link, capture, apply | failed allocations, budgets, lifetime per worker |
| Filter detection | `filter_detection.rs`, `strategy.rs`, `chunk_probe.rs`, `magic_sniff.rs` | scores | probe | heuristics |
| XOR solver, brute force | `solver.rs`, `brute.rs`, `repeating_xor.rs`, `format.rs`, `simd.rs` | evidence, key space, accepted keys | rank, refine, guess, search | false evidence that spreads, boundaries of the enumeration |
| GPU access | `compute.rs` | OnceLock device, mutex, lock-free queue depth | jobs from Rayon workers in modes Auto, Gpu, Hybrid | races on the depth, device that hangs, failed submissions |
| Progress and cancellation | `progress.rs`, `encoder/amv.rs` | sequence counter, task position, finished flag, cancellation token | start, advance, finish, cancel | racing workers, events after the end, prompt cancellation |
| Asset codecs | `decoder/*`, `encoder/*`, `text.rs` | process-wide EMOTE key cache | decode, encode | the cache, pure otherwise |
| TJS symbolic execution | `tjs_symexec.rs` | - | evaluate bytecode | pure |
| Command line, desktop, Python | `main.rs`, `apps/xp3-desktop`, `python.rs` | one job slot (desktop) | start, cancel, report | frontends |

How they interact. `unpack` parses an archive, recovers names (special index, or the HXV4
bootstrap over the archives of the game), chooses a filter once for the archive
(CxDec parameters, x86 callbacks, HXV4 engine, or a shared key), then solves entries in
parallel batches (Rayon; XOR search may go to the GPU), writes files and last the
manifest. `pack` reads the manifest and tree, rebuilds sidecars through the encoders,
decides entry by entry between the stored bytes and a new encoding, lays out and writes,
and opens the result with the parser; `verify-roundtrip` is a pack whose result is
compared with the tree. Encoders report through an `OperationContext`, which the desktop
application shows and cancels.

What makes each correct. Edit cycle: the archive holds what the user sees, untouched
entries are bit-identical, a manifest describes the files beside it. Layout: what is
reported as written reads back, nothing unknown is overwritten, the fix-point ends.
Parser: what is opened is the whole chain with names on the entries they belong to, and a
reader gets its own bytes. Verifier: it passes exactly the right archives. Unpack:
nothing that contradicts a checksum is recorded, guessing comes last, files come in
archive order. Names: only on evidence, and never another entry's. Engines: a selected
one reproduces checksums, an ambiguous search selects none, and its program is the one
the reference has. XOR: evidence taken for exact is true, the search loses no key. GPU: the
queue stays bounded and drains, all calls return. Progress: one end per task.

## Modules

| Module | Models | Run or proof |
|---|---|---|
| `Xp3Pack` | the edit cycle | `pack`; `Xp3Pack_proofs` |
| `RoundTrip` | `verify-roundtrip`, on top of `Xp3Pack` | `pack`, `verify_text`; `Xp3Pack_proofs` |
| `Xp3Layout` | layout, index fix-point, writer, self-check | `layout`; `Xp3Layout_proofs` |
| `Xp3Archive` | opening an archive, reading entries and blobs | `archive`; `Xp3Archive_proofs` |
| `Xp3Template` | the index from unpack through pack to the next opening, on top of `Xp3Archive` | `archive` |
| `Xp3Unpack` | filter selection, recovery cascade, batches, output | `unpack`; `Xp3Unpack_proofs` |
| `UnpackOrder` | abstract: the sequential loop `unpack` promises | refined by `Xp3Unpack` (`InOrder`) |
| `UnpackPool` | the threads of one batch | `unpack_pool`, `unpack_pool_panic`; `UnpackPool_proofs` |
| `SpecialIndex`, `NameRecovery` | ordered names from special roots, scripts and modules | `names`; `NameRoute_proofs` |
| `HxBootstrap` | the HXV4 filename bootstrap | `names`; `NameRoute_proofs` |
| `NameRoute` | names before content: composes the two | `names`; `NameRoute_proofs` |
| `X86Runtime` | the emulated process of a plugin | `engine` |
| `CxdecFacts`, `CxdecParams` | parameters read from PE images and combined | `engine` |
| `EngineSelect` | which engine is selected | `engine`; `EngineSelect_proofs` |
| `ContentProgram`, `ReferenceLanes` | lane programs in all their forms | `engine` |
| `ContentFilter` | building and applying the selected engine | `engine` |
| `RepeatingXor`, `KeySpace`, `ContentFormats` | evidence, key space and formats of the XOR search | `keys`; `KeyRecovery_proofs` |
| `SharedKey`, `KeyRecovery` | keys of an archive and of an entry | `keys`; `KeyRecovery_proofs` |
| `GpuQueue` | GPU queue, device, mutex | `gpu_queue`; `UnpackPool_proofs` |
| `OperationProgress` | task handles, events, cancellation, the AMV frame loop | `progress`; `Xp3Unpack_proofs` |

The `MC*` modules hold the constants of the runs. Definitions under a comment `Bug:` or
`Mutant:` are the mutated forms; no action uses them.

### Xp3Pack: the edit cycle

State: the archive at `source_path`, the manifest (outcome and base digest of each
entry), the editable file and the retained raw asset of each entry, the overlay, the
output archive, and the job in progress (`pc`, `todo`, `memory`, `opts`, `plan`), which a
crash loses. A digest is modelled by the content it is of (SHA-256 has no collisions
here). `touched` is history: what the user changed since the last unpack.

| Action | Code |
|---|---|
| `UnpackStart`, `UnpackEntry`, `UnpackFinish` | `cleanup_legacy_unpack_artifacts`; `write_unpack_asset_output` and `apply_asset_result_to_meta`; `write_manifest` (temporary file, rename) |
| `PackStart` | checks before the first write (`validate_source_template`, `validate_retained_source_assets`), then clears the overlay only if some sidecar is not proven unchanged |
| `RebuildAsset`, `RebuildFinish` | `rebuild_assets_from_manifest`: skip, rebuild, or (no step) fail |
| `PackPlan` | the entry loop: `Reuses`, `Packable`, `PackEntry` |
| `PackWrite`, `PackFinish` | `write_container`: truncate or copy, then fill |
| `Abort` | error return, kill or power failure at any step |
| `EditFile`, `EditRaw`, `InstallOutput`, `LoseSource` | the user (external) |

An entry's outcome is any record of `OutcomeType`: how it was recovered is not this
module's business, only whether the recorded status has an inverse (`Reversible`).
The user does not edit while a command runs, and a raw copy that two transforms would
share is not modelled: each entry has its own path.

Properties. `PackedAsEdited`: with the genuine source, what is packed is what the tree
shows. `UntouchedIsReused`: entries nobody touched keep their stored bytes.
`ManifestDescribesTree`, `OverlayCurrent`: no stale manifest or overlay file is believed.
The first two leave out entries without a transform at whose path an overlay file of an
earlier pack still lies (`Shadowed`): see "Known disagreements".

### RoundTrip: verify-roundtrip

The command is a pack whose last step, `VerifyFinish`, opens what was written and compares
entry by entry: the index record (`IdentityFailures`), the content with its reference
(`ContentPasses`: the rebuilt asset, the file in the tree, or the digest of the manifest),
or the stored bytes with those of the source (`Opaque`). A `Fault` is what may be wrong
with the written archive: other content, content that cannot be read, or a part of an
index record. The source is missing, read, or cannot be read any more (`Access`). Decoding
the formats is one predicate, `FormatPasses`.

Properties. `VerifiedIsIntended`: a report that passes can be trusted. It leaves out an entry
that is `Shadowed` and whose status has no inverse: the content of such an entry cannot be
read back (`Readable`), its stored bytes are the source's, and that alone passes
(`roundtrip.rs:838`), whatever the tree holds. And an entry that neither archive gives
(`Uncompared`) passes, because the two failed reads are compared as equal
(`roundtrip.rs:816-820`); this takes a source that fails after `pack` has read it.
`UntouchedVerifiesButText`: an archive nobody touched passes. `UntouchedVerifies`, the same
with text entries, is finding 1.

### Xp3Layout: placing and writing

`PlaceAlias`/`PlaceOwn` are one iteration of `assign_layout`, `Encode` the patching and encoding
of all index blocks, `Measure` the end of a round of
the fix-point loop of `pack_xp3_from_manifest`, `Build` is `build_index_objects`,
`Open`/`Refuse` are `validate_opaque_source_safety` and the opening of the output,
`WriteObject` the writer's loop, `SelfCheck` the re-parse and, with nothing edited, the
byte comparison. A byte is `<<content, position>>`. The length of a zlib block depends on
the offsets in it in a way the packer cannot predict: any of `lengths` is possible each time
a block is encoded, except that `encoder` keeps the answers given, so that the same offsets give
the same length again. This lets the compact fix-point oscillate and the anchored one
run out of rounds.

Properties. `SuccessReadsBack`: whatever happened in the loop, an archive reported as written
returns every object. `SharedOnlyIfEqual`, `OpaqueKept`, `Terminates`. `AnchoredIndexFits`: an index
block has room enough if the loop was left because a round changed nothing, for the final
assignment then repeats that round's; or if there are no more lengths to grow to than
rounds. The code has 32 rounds and bounds neither the blocks nor their lengths: when the
rounds run out first, a block may be written over what lies behind it, and the re-parse finds it.

### Xp3Archive and Xp3Template: opening, and the index through an edit

`Locate` is `find_xp3` or its windowed form for files, `ReadBlock`, `WalkChunk` and `EndBlock`
the chain of index blocks and the root chunks in them, `Prune` the removal of the
protected-warning entry and the startup anchor. Readers are threads with the archive open:
`BeginEntry` and `BeginBlob` start a read, `Seek` and `ReadExact` are the two steps under the
mutex of the one file handle, `ReadMemory` the same for archives in memory, `FinishEntry` the
comparison of lengths and the optional second zlib layer. A byte of the file is its
offset, so a byte read at the wrong place is seen.

`Xp3Template` adds what `unpack` records of the index and what `pack` makes of it:
`RecordTemplate` (with retained warnings and special blobs, or, as an older program did,
without), `Load`, `Place` (the order and aliases of `assign_layout`), `PatchFile`,
`PatchPreserved`, `PatchSpecial` for one root each, `Reopen`, which gives the written file to
the actions of `Xp3Archive`, and `SelfCheck`. How long a block becomes is left to `Xp3Layout`.

Properties. `OpenedAsRead`: an archive that opens has the signature an in-memory parse would
find, its whole chain, and alternate names on the entries they stand before.
`OpenEnds`. `ReadsOwnRange`: whoever moved the handle, a reader gets its own segments.
`RepackedReadsBack`: a packed archive opens to the same roots and entries at the places
written for them. It leaves out a file with a descriptor that points behind its end
(`Dangling`; a longer result may hold that range) and manifests without root bindings when
some File root makes no entry (`Numbered`; they number entries and roots alike). A
descriptor body has one window in the model: no other bytes of it become a valid range.

### GpuQueue: Rayon workers and one device

One action per atomic step of `try_enter_auto_gpu_queue`, `get_or_init`, `lock_context`,
a job and `leave_auto_gpu_queue`; `mode` is the compute mode of the call. The counter has
the code's width (`Word`), so a place given back twice would wrap. The three kinds of job
differ in data only. `Reset` is `reset_compute_telemetry` at the start of a command.

Properties. `QueueBounded`: the counter is the number of holders, at most the limit.
`HybridEscapesHang`: a Hybrid call returns although the device never
answers. `EveryCallReturns`: if the device finishes its jobs, every call returns.

### OperationProgress: one handle, several workers

`Start`/`Join`: the worker that starts a task and those that get a clone of the handle.
`Draw`, `ReadPosition`, `Emit` are the three unlocked steps of `ProgressTask::emit`.
`Continue`, `Encode`, `FinishTask` are the loop of `encode_amv_frames_with_context`; `Check` and
`Add` are `advance`. In the repository that loop runs on one thread; the model gives the
handle to several, which is what its documentation allows ("Thread-safe handle", "Calls
from racing workers after the first are ignored"). `message` and `set_position` have no
caller and are left out.

Properties. `FinishedOnce`; `LateIsBounded` (an advance reported after the end had begun
before it); `EveryTaskEnds`. That cancelling is prompt (`CancelIsPrompt`) is proved.

### Xp3Unpack and UnpackOrder: from archive to tree

An entry is a `Shape`: how its bytes are really encrypted (`cipher`), whether it has an
adlr, a name with format hypotheses, an HXV4 record, and which decryptions a format
validator takes for genuine (`strong`; validators may be wrong). A content is named by the
entry and the method that was undone, so a wrong key is a state of its own. Two
streams with one Adler-32 are taken to be equal. The selection runs in the order of
the code: `SpecialGate`, `NamesMissing`, `SpecialKey`, `NativeEngine`, `SharedProbe`; then
either `StreamEntry` applies an archive-wide key, or batches are formed (`FormBatch`), solved in
any order (`SolveEntry`, one disjunct per stage of `solve_one`), collected and recorded in
order (`RecordResult`). `Fail` is an error of an entry or of a write, which may leave the file
cut short. Free choices: whether an engine is found, and whether a search that could
succeed does. Left out: files the HXV4 name bootstrap writes, and sidecars of assets
other than images.

`UnpackOrder` is what a caller sees: entries taken one after the other, each touching
only its own paths, the manifest after all of them (or before any, when HXV4 names
are missing), nothing after an end. `InOrder` maps `own` to the raw and converted path of
each entry and `ended` to the two final values of `pc`.

Properties. `AcceptedIsVerified`: whichever way an entry was recovered, a plaintext that
contradicts its adlr is not recorded. `GuessIsLast`, `InOrder`, `Terminates`.

### UnpackPool: one batch on the emulator pool

Rayon is external: each worker has a deque, takes its own jobs from the back and steals
from the front of another's; a worker waiting for a stolen half of a join runs other jobs.
`Split` halves the batch; an entry is `Borrow` (the thread-local emulator's `RefCell`),
`OpenRuntime`, `Filter`, then either an end or `Fork` (the parallel search for a key), `SearchHalf`,
`Join`, `Return`. A second `Borrow` on one thread is `Panic`; the model ends there, as the
command does. Each worker is a stack of entries, since an entry may be begun while
another one waits.

Properties. `EmulatorExclusive`: an emulator serves one entry at a time. `NoEntryLost`: an
entry of the batch is in one queue, in one running frame, or has its result. `BatchEnds`.
`MismatchFallsBack` is finding 2.

### SpecialIndex, NameRecovery, HxBootstrap, NameRoute: names

A special root is a table of names behind a wrapper and maybe a repeating XOR.
`SpecialIndex` tries one hypothesis after another (`search_special_index` and the parsers of
`special_index.rs`) and believes the bytes when a parser finds one name for each entry.
`NameRecovery` is `recover_ordered_names_with_hx_options`: early records, a plain ordered table,
the parameters the bootstrap scripts pass to `setupArchiveData` (scripts load scripts), and
parameters found in modules. A key search inside a hypothesis, and what a script
evaluates to, are inputs.

`HxBootstrap` is `bootstrap_hxv4_names`: rounds over the archives of a game (`EnterArchive`,
`ProbeEntry`, `NameEntry`), the end of a round with its numeric neighbours (`EndRound`). A hash
is modelled by the name it is the hash of, and what the plaintext of an entry mentions is
given by the entry. The dictionary, the index of each archive and the snapshot a round
starts from are separate, as in the code. `NameRoute` joins the two at the gate of `unpack`:
content is recovered only after the layer of names the archive has was read. The walks over a
table and the binding of its records are recursive functions rather than folds, so that
they can be reasoned about.

Properties. `OrderIsVerified`: an ordered table is believed with one matching record of one
tag for each entry, in order, and nothing but warnings skipped between. `NobodysName`:
from a complete table no entry gets the name of another, also where contents are equal, and
from any table two entries share a name only if they showed it or two records have it.
`FixedPointIsComplete`: when the bootstrap ends by itself, nothing is left to learn.

### X86Runtime, CxdecFacts, CxdecParams, EngineSelect: which engine

`X86Runtime` runs the host calls of a plugin (its machine code is external and given as the
sequence of calls it makes): arena, heaps, attach, link, capture of the callback, and
`Apply` in chunks under a step budget. `CxdecFacts` scans an image for callback descriptors,
boundaries, control blocks, dispatch orders and seeds, with bytes abstracted to the shapes
the scanners match; `CxdecParams` combines the facts of all modules, coherent ones first,
else the product up to `MaxCombinations`. `EngineSelect` is the selection of `unpack`: CxDec
parameters, the registered callback, then hypotheses (`TryNext`, `CheckEntry`, `EndCandidate`,
`Conclude*`), each judged on sampled entries and then on more. `SamplesIn` takes the entries
smallest first, for x86 those with a checksum before the others, as far as count and bytes
allow. Candidates keep their place in `todo`, so a hypothesis that gets through a stage returns
to its own. A job's candidate is `Running`: with the callback its runtime has captured.

Properties. `SelectedFits`: what is selected reproduces the checksums it was judged on;
`OnlyOneFits`: parameters are never chosen among several that fit. `RightParamsAreFound`: they
are found when the modules show them.

### ContentProgram, ReferenceLanes, ContentFilter: the engine at work

The same lane program exists as expression trees, as flat code of the HXV4 manager, as the
reference generator's micro operations, and as code a game's builder emits. `BuildLane` draws
one lane from the pseudo-random stream in each form; `CaptureSample` studies a builder to
recover its dispatch orders; `StartFile` and `ApplyPiece` filter a file piece by piece. Words
have 28 bits instead of 32, one stream stands for the two generators.

Properties. `LanesAgree`: all forms take the same numbers and compute the same word.
`DispatchIsRecovered`: the orders of the builder or nothing. `PiecesAreTheWhole`: each byte
gets the masks of its place in the file once, however the file is cut.

### RepeatingXor to KeyRecovery: the XOR search

`RepeatingXor` is the evidence of cribs for a period, `KeySpace` what it leaves open and the
three searches through it (CPU, GPU, meet-in-the-middle over Adler-32), `ContentFormats` three
miniature formats for the families of the code (page chain, chunk list, text). `SharedKey`
has the keys of an archive: one a special entry delivered, and one that several entries
determine together. `KeyRecovery` composes them into `recover_complete_stream`: `RankHypothesis`,
`RefineRound`, `HistogramRound`, `Guess`, `SearchCpu`, `SearchGpu`, `SearchGpuOnly`, `Finish`; and
into the reporting commands `probe` and `shared-probe`. Hypotheses run in parallel in the code
and share only the accelerator, whose answer is a choice here, so they are taken in turn.
The shared key of an archive is ranked on the `MaxSamples` shortest entries that show fragments
(512 in the code; the cap on their bytes is left out) and checked on all; a ranking is a set of candidates,
each with the number of those before it.

Properties. `EvidenceIsSound`: refinement at the true period never learns a wrong key byte.
`SearchIsExact`: each search that runs finds the keys of its space that fit, and no other.
`ContentKeyFitsAll`: an archive-wide key contradicts no checksum. The first and the third are proved.

## Runs, bounds, and why they are enough

| Run | Shows | Bounds |
|---|---|---|
| `pack` | the properties of the edit cycle and of its verification over any sequence of commands | 2 entries, 2 contents, six outcomes, one of each class; an edit changes the stored length; entries are symmetric |
| `verify_text` (violation) | finding 1 | as `pack` |
| `layout` | the five properties of the layout | 3 objects, 1 or 2 index blocks in any place, gaps of 0 or 1, shared segments, edits of length 0, 1, 2; blocks that always measure 2, or 1 or 3, or 2 to 5; 2 rounds |
| `archive` | the properties of `Xp3Archive` and `Xp3Template` | chains over 3 places and at most 4 blocks, three free chunks in a block, files of 2 to 24 bytes with windows of 8, 2 readers; index templates of 3 roots from 19 shapes in one or two blocks |
| `unpack` | the four properties of `Xp3Unpack` | 3 entries of 9 shapes, 3 paths, batches of 2 entries and 4 bytes |
| `unpack_pool` | exclusive emulators, no lost entry, the batch ends | 3 entries, 3 workers, one search per entry, split once |
| `unpack_pool_panic` (violation) | finding 2 | as `unpack_pool` |
| `names` | the three properties of name recovery | streams of 2 to 4 chunks from 6, 2 roots, lists of 2 or 3 entries, 1 unknown chunk skipped; scripts that load scripts; games of 2 archives with 3 and 1 entries, or a sibling that is empty, 3 rounds |
| `engine` | the six properties of selection and filtering | games of up to 2 modules, 7 archives of 2 to 4 entries, 3 samples, product cut at 8; lanes of every stage; files of 10 bytes in pieces of 1, 3, 10 |
| `keys` | the three properties of the XOR search | bytes of 2 bits, key periods 1 to 7, Adler modulus 5, 2 solutions, 2 refinement rounds |
| `gpu_queue` | queue, both liveness properties | 3 workers, 1 call each, limit 2, counter modulo 8 |
| `progress` | the three properties of a task | 2 workers, 2 frames, 1 task |

*pack.* Entries interact only through decisions over all of them (is anything to
rebuild, may the whole command fail), so one entry and one other suffice; two contents
give original, edit and revert; the outcomes are one of each class the packer tells
apart (raw and reversible, irreversible, converted, text, not extracted, always rebuilt
without digests). The faults are one of each class the verifier tells apart. There is no
bound on the number of commands: the state space is finite.
*layout.* Three objects give every pattern of alias, gap, index before, between or after
data, and two blocks chained. `MaxAddr` is never reached (a write past it would stop the
run short of `done`, and `Terminates` would fail). Two rounds stand for 32: blocks of two lengths
settle or just have rounds enough, one of four lengths may still be growing when they run out, and
a block that alternates between two lengths leaves the loop unsettled.
*archive.* Three places give a chain into its own first, middle and last block, and one into
nowhere; with four blocks allowed every such chain is cut by the limit and none that is
genuine is. The limit is 1,000,001 in the code: only its being finite matters. Windows of
two paragraphs put a signature in the first window, across a border, and in the last.
Three chunks give an alternate name, something between, and a file. The shapes of File
roots have a list split in two, a list missing, an info missing or doubled, chunks cut off,
and warnings of each kind; two free roots and one plain one give every order of patches.
*unpack_pool.* A worker that waits, one that holds the stolen half, and one to steal an
entry from are what a second borrow takes; a third entry gives work to steal.
*unpack.* Two entries are what an archive-wide key is accepted on, the third is the one that
contradicts it; a batch of two is followed by another, and a size above the limit, at it
and below it occur. The shapes have one entry for each method and kind of evidence.
*names.* A table needs two names to have an order and a third record to be skipped or to
shift it; a name shown only in the other archive, in the other archive's second round, or
as a numeric neighbour takes two archives and the rounds `MaxRounds` allows, and a game
that is not done by then ends at the limit.
*engine.* One module can be incomplete or ambiguous by itself; a second one completes it,
contradicts it, or offers the same. The archives have entries that depend on all
parameters and on one, within the samples and beyond them, so a candidate that is right
in part passes some stage and must fail a later one. A lane is as deep as the budget allows.
*keys.* Two bits give a byte that is known, wrong or free; a period of 7 is longer than
every anchor, so evidence must be joined over repetitions; modulus 5 makes checksums
collide, which the search must survive. An archive has up to one entry more than `MaxSamples`, so
a key can fit all samples and contradict the entry that is none.
*gpu_queue.* Three workers are one more than the queue admits; one call each already
gives every mix of modes; `Word` only has to exceed the limit.
*progress.* Two workers give every race on one flag, counter or sink.

`CHECK_DEADLOCK FALSE` stands where the program ends or may stop: all but `pack`,
`verify_text` and `progress`, where no state is without a successor.

## Fairness

- `GpuQueue`: each caller's `CallStep` is weakly fair: Rayon threads keep running, and a waiter on
  a free mutex is woken. `Dispatch`, the device working, is not in it, so the device may
  hang; `EveryCallReturns` assumes it as a premise. Creating the device (`EndInit`) is
  assumed to end: all modes wait for it in `OnceLock::get_or_init`.
  With weak fairness a waiter could starve only if others took the mutex for ever; calls
  are bounded, as the number of jobs of a command is.
- `OperationProgress`: each worker is a running thread. `Cancel` is never forced.
- `Xp3Layout`: one sequential loop, `WF(Next)`.
- `Xp3Unpack`: `WF(Next)`; the command and the pool keep running, and a step that ends the
  command by an error also satisfies `Terminates`.
- `UnpackPool`: each pool thread is weakly fair, as a running thread with work in its deque,
  or in that of another, is.
- `Xp3Archive`: `WF(Parse)`; parsing is a loop of one thread. Reads are not forced.
- All others: none; what is said of them is safety. The user of `Xp3Pack` may stop at any time.

## What is proved

Each `_proofs` module proves `Spec => []IInv` with one lemma per group of actions and
derives the theorems from it. The assumptions are the named ASSUMEs of the component
module: the typing of the constants, and that limits and sizes are positive; no upper bound.

- **Xp3Pack_proofs**. `PackedAsEdited` is not inductive: it speaks of `plan`, whose entries were
  computed from the overlay, which was computed from the files. `IInv` carries
  `OverlayCurrent` through the rebuild, ties `plan` to the manifest and the source while
  the job is planned, and says that nothing is planned without a manifest. From it:
  `TypeCorrect`, `ManifestCorrect`, `OverlayCorrect`, `PackCorrect`, `ReuseCorrect`, for any number of
  entries, contents and outcomes. The verifier runs on top of it: `VerifyInductive` adds what
  a report was computed from and that it goes when anything it speaks of is changed;
  `VerifiedCorrect` and `UntouchedVerifyCorrect` then follow from comparing, class by class,
  the `Reference` of an entry with its `Intended` content. They need `DecodedAssumption`: the
  decoded form of a text is never a wrapped text itself. `VerifiedPackCorrect` says that
  `PackedAsEdited` holds under `verify-roundtrip` too.
- **Xp3Layout_proofs**. `IInv` adds to the types the discipline of the placement loop (placed
  objects end at or before the cursor; an object of its own starts at or after it; an
  alias equals the object before it) for `SharedOnlyIfEqual`, and, for `SuccessReadsBack`,
  what the writer's loop has put into the image. From it: `LayoutTypeCorrect`,
  `LayoutReadsBack`, `LayoutShares`, for any templates. `SettleInductive` is the fix-point:
  a block's room only grows, so `Short`, the lengths it has no room for yet, only shrinks, from
  `Growth` at the start; a round that changes something takes at least one out of it. After
  a round that changed nothing the sweep gives the same offsets, and the encoders, asked
  again, the same lengths (`EncodeSettle`). `LayoutFits` (`AnchoredIndexFits`) follows for any
  encoders; of their lengths only finiteness is assumed.
  `LayoutKeepsOpaque` (`OpaqueKept`) follows from what each write touches.
- **Xp3Unpack_proofs**. `AcceptedIsVerified` and `GuessIsLast` speak of what is recorded; `IInv`
  carries them back to the results in memory (`HeldSound`) and to the selection (`Chosen`: a
  key and an engine exclude each other, and a key agrees with every adlr). `OrderCorrect` is
  the refinement: each step is a step of `UnpackOrder` or a stutter, from `BatchComplete` (what
  is recorded next has a result) and the frame of `Put`. From it: `UnpackTypeCorrect`,
  `AcceptanceCorrect`, `GuessCorrect`, `OrderCorrect`, for any archive and limits. The module also has the proofs of
  `OperationProgress`, the report of a running command (its definitions have names of their
  own, `ProgressSpec`, `ProgressInv`). `FinishedOnce` needs events in flight: every number, in
  the sink or in a worker's hand, is below the counter and in one place only; a task whose
  flag is set has its one end in flight or in the sink. From it: `ProgressTypeCorrect`,
  `FinishCorrect`, `CancelCorrect`, for any workers, tasks and frames. `LateCorrect`
  (`LateIsBounded`) counts: the advances reported late and those begun and not yet reported
  are together fewer than the task's handles, since the handle that reported the end
  begins no more (`LateInv`).
- **KeyRecovery_proofs**. `EvidenceIsSound` speaks of the key bytes known at the true period or a
  multiple of it, and is not inductive: a round learns from the fragments the rounds before
  it believed, and the candidates of a hypothesis wait in `todo` with the evidence their
  ranking gave them. `IInv` says that those fragments stand in the plaintext and that those
  candidates agree with the key. The step rests on one lemma per format: from true evidence
  the page walk with its resynchronisation (`ChainTrue`) and the chunk walk with the one tag
  that fits (`ChunkTrue`) find only what is there; and on the votes, which at a multiple of the
  true period are all for one byte (`EvaluateTrue`). From it: `EvidenceInvariant`, `EvidenceSound`.
  `ContentKeyFitsAll` (`ContentKeyInvariant`, `ContentKeySound`): `unpack` compares a key with every
  checksum, not only with those of the samples, and takes the accepted key of least rank,
  which exists. `shared-probe` counts over a copy of the entry on which the keys before
  were laid and taken off again, which leaves it as it was (`Undone`, `CheckedIs`); and it reports
  the leading candidates, for which the ranks of a finite set under a strict order must
  count from 0 without a gap (`RanksCount`). For any archives, tags, periods and limits; words
  are of the two bits the model has. Assumed: the typing of the problems, and that the
  least period is positive (`ProblemAssumption`, `TagAssumption`, `PeriodAssumption`).
- **UnpackPool_proofs**. `EmulatorExclusive` follows from the state of the `RefCell`: the inductive
  form ties a worker's cell to the one frame of its stack that is past `Borrow`. `NoEntryLost`
  needs that a frame past its split is about one entry (`SingleFrames`) and that the ranges
  in deques and frames do not meet; it is stated pointwise (where is entry e), so that a
  step moves one entry from one place to one other. From it: `PoolTypeCorrect`,
  `EmulatorCorrect`, `PlaceCorrect`, for any number of workers and entries. A second borrow
  ends the run of the command (`panicked`), it does not break exclusiveness. The module also
  has the proofs of `GpuQueue`, the device that the workers of a pool share (its definitions
  have names of their own, `GpuSpec`, `Callers`).
  `QueueBounded` needs that only Auto calls are at the queue's steps and that the worker at
  `dispatch` holds the mutex (`QueueInductive`). Cardinalities change by one at `Enter` and `Leave`;
  `NoWrap` shows that the modular decrement of a non-empty queue is the plain one. From it:
  `GpuTypeCorrect`, `QueueCorrect`, `MutexCorrect`, for any number of workers, limit and word
  size above it.
- **EngineSelect_proofs**. `SelectedFits` speaks of a candidate judged several times, on lists of
  entries long forgotten. `SInv` says what each judgement is worth: the counters of the job going
  on are those of the entries behind it (`Tally`, by `JudgeStep`), and what has passed has no
  mismatch over the list of its phase (`Survived`). `SelectedCorrect` follows because the list
  of the last phase is the whole archive for parameters and holds all samples for a callback
  (a job of a lower stage never concludes). `OnlyOneCorrect` needs the other direction, that
  nothing right is lost: parameters that fit the archive pass any list on which one
  candidate has passed (`FitPasses`: they match wherever it does), so they are still to be
  tried, being tried, or among the survivors (`Kept`), and the one survivor that is selected is
  they. What the scans of the modules report is left open; of entries only the types of
  `EngineAssumption` are assumed.
- **Xp3Archive_proofs**. `IInv` has the links of the chain read so far (`ChainLinked`), the room for
  one more block (`ChainRoom`), the owner of the handle and its position (`HandleOwned`), and the
  one thread that fills the cell of the blob (`CellFilledByOne`). `ChainCorrect`: what is open has
  its whole chain and no block twice; the last repeated block would be followed by a
  repeated one (a least counterexample, from the well-foundedness of the naturals). Also
  `ArchiveTypeCorrect`, `HandleCorrect`, `CellCorrect`, for any file and number of readers.
  `OpeningCorrect` (`OpenedAsRead`) joins `ScansAgree`, that a scan in overlapping windows finds the
  signature a scan of the whole file finds, with `NamesInductive`, which carries the alternate
  name between the chunk that brings it and the entry it is for. `ReadingCorrect`
  (`ReadsOwnRange`) follows the bytes of a job from seek to seek, and shows by a least
  counterexample what the concatenation of its segments is. Segments, chunks and blocks
  have the shapes of `FileAssumption`. The theorems are about the specification of `Xp3Archive`; the
  run checks it under `Xp3Template`, whose pack starts when no thread reads.
- **NameRoute_proofs**. Three invariants of one specification. `HxInv`: index and dictionary only
  grow; an entry the round has passed was tried if it had a name when the round began,
  probed if it has none now; what was got is in the dictionary. `FixedPointIsComplete` follows
  because a round that ends with neither grown has seen the state it leaves behind
  (`BootstrapCorrect`, for any archives, extensions and limit). `NamesInv` ties `best` and `result` to
  the operators that computed them. `OrderCorrect` is then about the walk: `Stands`
  gives the chunks behind the names so far and says that whatever else has their tag is a
  warning (`WalkStep`). `NamesCorrect` is about the binding: `Takes` gives the record of each entry,
  none twice, and, for a full table, that it is the entry's own; an equal hash decides
  only when the entry's own record is the one that is left. Assumed of the inputs: lists are
  lists, no chunk has the tag "none" (`CasesAssumption`, `HxAssumption`), names of entries are
  distinct and what an entry shows is its own name or no entry's (`NamesAssumption`; where one
  entry shows the name of another, the code gives it that name).

A recursive function is given to the prover by its least argument without a value
(`WalkExists`, also of the page and chunk walks in `KeyRecovery_proofs`,
`BindExists`, `TakesExists`), and what it computes is proved along its arguments in the same way:
that is the one form of induction used.

Only model-checked. Liveness, since the prover has no ENABLED: `Terminates` of two modules,
`OpenEnds`, `HybridEscapesHang`, `EveryCallReturns`, `EveryTaskEnds`, `BatchEnds`. `RepackedReadsBack`,
whose proof would go from the recorded template to the reopened file, root by root.
`RightParamsAreFound`, which is about what the scanners of `CxdecFacts` make of an image, through
folds and sorting, whose definitions the prover does not see through. `LanesAgree`,
`DispatchIsRecovered` and `PiecesAreTheWhole`: `ContentFilter` and what it extends use RECURSIVE
operators (the programs of lanes), which cost the prover its arithmetic. `SearchIsExact`,
whose searches are folds over words and key spaces with arithmetic modulo the Adler prime.

## Findings

1. `UntouchedVerifies`. For a text entry `unpack` puts the decoded text into the tree in place
   of the wrapped file; `verify-roundtrip` compares that file with the plaintext of the
   reused stored bytes, so the report fails though nothing was edited
   (`roundtrip.rs:805`; ADR-0001, line 112, asks that no-edit round-trip checks hold).
2. `MismatchFallsBack`. `solve_one` runs with the worker's emulator borrowed, and its last
   stage is a parallel search on the same pool; while the worker waits for the stolen
   half it may execute another entry of the batch, borrow again and panic
   (`main.rs:9246`; the comment at 9234-9239 says a mismatch falls back to the normal path).

## Known disagreements without a run

The properties are stated around these; each is visible in the model.

- A file in `.xp3-rebuilt` left by an earlier pack shadows the edited file of an entry that
  the last unpack recorded without a transform (`encoder/xp3.rs:922`; the doc comment at
  `encoder/rebuild.rs:149-152` says such entries fall back to the tree): `Shadowed`. If the entry's
  status has no inverse, `verify-roundtrip` passes the result by its stored bytes.
- Once a rebuilt archive with the same index stands at `source_path`, reverting the edit in
  the tree has no effect: the digest recorded at unpack makes `pack` reuse the stored bytes
  of the new source, which hold the edit (`encoder/xp3.rs:274`): `SourceGenuine`.
- Growing footprints only is said to guarantee convergence (`encoder/xp3.rs:343`); the loop ends
  after 32 rounds without looking whether it did. Encoders with more lengths than that would
  leave a block without room: the premise of `AnchoredIndexFits`.
- With nothing edited, an index block whose re-encoding is longer than the stored one moves
  the objects behind it, though the retained bytes would be written
  (`encoder/xp3.rs:375`). The byte comparison then rejects the result.
- A converted image takes the path of another entry (`a` converted to `a.png`, beside an entry
  `a.png`; `main.rs:10208`), whose file then is not its own: `Target`.
- Older manifests bind entries to roots by number, which is wrong when a File root makes no
  entry (`encoder/xp3.rs:763`): `Numbered`.

## Not modelled, and the plan

- *Asset codecs*: pure conversions. What pack and verification need of them, whether an inverse
  exists and whether it reproduces the bytes, are inputs of `Xp3Pack`. The EMOTE key cache
  (`decoder/psb.rs:36-45`, `397-460`) is a process-wide list of recovered keys with a second mutex
  that admits one brute force at a time and looks again after waiting; its protocol is
  left open here.
- *TJS symbolic execution*: a pure evaluator; what it yields is an input of `NameRecovery`.
- *Heuristics* of `filter_detection.rs` and `strategy.rs`: scores that order attempts; the order is
  free in `EngineSelect` and `KeyRecovery`, whose properties do not depend on it.
- *Native code* of plugins, AEAD and hash functions, compression: external or abstract.
- *Command line, desktop job slot, Python*: frontends of one job.
- Left open: `Xp3Unpack` and `Xp3Pack` joined at the tree, so that colliding output paths reach
  `pack`; damaged digests in a manifest; the sidecars of assets other than images in
  `Xp3Unpack`; several tasks of one operation in `OperationProgress`.
- Open as a proof: `RepackedReadsBack`, in steps (what a template records, what patching keeps,
  what the reopened file gives).
