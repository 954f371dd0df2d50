----------------------------- MODULE X86Runtime -----------------------------
(***************************************************************************)
(* The constrained PE32 runner (x86_filter.rs over win32_host.rs): builds  *)
(* an emulated process around one module, runs DLL_PROCESS_ATTACH and      *)
(* V2Link, captures the XP3 filter callback and applies it.                *)
(*                                                                         *)
(* The module's machine code is external: a script is the sequence of the  *)
(* host calls it makes, each a record [api, ...]; what a callback does to  *)
(* a buffer is given by cbs[cb].  Host memory counts in units of which     *)
(* `Align` are 16 bytes.  A pointer is what the n-th allocating call of    *)
(* the script returned (0 when it failed).                                 *)
(*                                                                         *)
(* Everything is a function of the module and the calls made: the state    *)
(* `h` of an emulator lives as long as its runtime and is never shared.    *)
(***************************************************************************)
EXTENDS Naturals, Sequences, SequencesExt, FiniteSets, FiniteSetsExt, Folds

CONSTANTS
  DynSize,          \* DYN_SIZE: the arena of VirtualAlloc and the heaps
  Align,            \* 16 bytes
  ChunkSize,        \* INPUT_RESERVE: bytes of one call of the callback
  MaxSteps,         \* MAX_STEPS: budget of DLL_PROCESS_ATTACH and of V2Link
  CallbackMaxSteps  \* CALLBACK_MAX_STEPS: budget of one candidate's chunk

ASSUME RuntimeAssumption ==
  /\ Align \in Nat \ {0}
  /\ DynSize \in Nat /\ DynSize % Align = 0
  /\ ChunkSize \in Nat \ {0} /\ MaxSteps \in Nat /\ CallbackMaxSteps \in Nat

NoCallback == 0

(* F of the value of x, which is computed once.                            *)
With(x, F(_)) == CHOOSE y \in {F(v) : v \in {x}} : TRUE

----------------------------------------------------------------------------
(* Win32HostState: the arena *)

AlignUp(n) == ((n + Align - 1) \div Align) * Align
AtLeast1(n) == IF n = 0 THEN 1 ELSE n
EndOf(a) == a.base + a.size
Overlaps(a, base, end) == base < EndOf(a) /\ a.base < end

(* Where the search of allocate stops: at a free place or at one that does *)
(* not fit any more.  Each allocation in the way moves the cursor behind   *)
(* its end.                                                                *)
Search(allocs, room) ==
  LET f[c \in 0..DynSize] ==
        LET hit == {a \in allocs : Overlaps(a, c, c + room)}
        IN IF c + room > DynSize \/ hit = {} THEN c
           ELSE f[AlignUp(EndOf(CHOOSE a \in hit : \A b \in hit : a.base <= b.base))]
  IN f

AllocateAt(h, n, room, c) ==
  IF c + room > DynSize
  THEN [h EXCEPT !.cursor = c, !.ptrs = Append(@, 0)]
  ELSE [h EXCEPT !.cursor = c + room, !.ptrs = Append(@, c + 1),
                 !.allocs = @ \cup {[base |-> c, size |-> AtLeast1(n)]}]
Allocate(h, n) ==
  LET room == AlignUp(AtLeast1(n))
  IN With(Search(h.allocs, room)[h.cursor], LAMBDA c : AllocateAt(h, n, room, c))

Reserve(h, at, n) ==
  LET end == at + AtLeast1(n)
      ok == end <= DynSize /\ \A a \in h.allocs : ~Overlaps(a, at, end)
  IN [h EXCEPT !.ptrs = Append(@, IF ok THEN at + 1 ELSE 0),
               !.allocs = IF ok THEN @ \cup {[base |-> at, size |-> AtLeast1(n)]} ELSE @]

(* Pointers are 1 + base, so that 0 stays the null pointer.                *)
At(h, i) == IF i \in DOMAIN h.ptrs THEN h.ptrs[i] ELSE 0
Owned(h, i) == {a \in h.allocs : a.base + 1 = At(h, i)}

Free(h, i) == [h EXCEPT !.allocs = @ \ Owned(h, i), !.last_error = IF Owned(h, i) = {} THEN "parameter" ELSE @]

(* The new block comes first; the old one goes only when there is one.     *)
Realloc(h, i, n) ==
  With(Allocate(h, n), LAMBDA g : IF Last(g.ptrs) = 0 THEN g ELSE [g EXCEPT !.allocs = @ \ Owned(h, i)])

----------------------------------------------------------------------------
(* Host calls *)

Stop(h, how) == [h EXCEPT !.stop = how]
Unsupported(h) == [h EXCEPT !.bad = TRUE, !.stop = "stopped"]

(* Memory, thread-local slots, and the imports the host does not know.     *)
KernelCall(h, op) ==
  CASE op.api = "HeapAlloc" -> Allocate(h, op.n)
    [] op.api = "VirtualAlloc" -> IF op.at \in 0..DynSize-1 THEN Reserve(h, op.at, op.n) ELSE Allocate(h, op.n)
    [] op.api \in {"HeapFree", "VirtualFree"} -> Free(h, op.i)
    [] op.api = "HeapReAlloc" -> Realloc(h, op.i, op.n)
    [] op.api = "TlsAlloc" -> [h EXCEPT !.tls = Append(@, TRUE)]
    [] op.api = "TlsFree" -> IF op.i \in DOMAIN h.tls /\ h.tls[op.i]
                             THEN [h EXCEPT !.tls[op.i] = FALSE] ELSE [h EXCEPT !.last_error = "parameter"]
    [] op.api \in {"UnknownImport", "BadCopy"} -> Unsupported(h)

CompatCall(h, op) ==
  CASE op.api = "CreateFile" -> [h EXCEPT !.file = [open |-> TRUE, cursor |-> 0]]
    [] op.api = "ReadFile" -> IF h.file.open THEN [h EXCEPT !.file.cursor = @ + 1] ELSE h
    [] op.api = "CloseHandle" -> [h EXCEPT !.file.open = FALSE]
    [] op.api = "Exit" -> Unsupported(h)

(* The function exporter of the engine: QueryFunctions gives a working     *)
(* stub for two names only; any other function ends the emulation when it  *)
(* is called.                                                              *)
ExporterCall(h, op) ==
  CASE op.api = "QueryFunctions" -> [h EXCEPT !.resolved = @ \cup op.names]
    [] op.api = "SetFilter" -> IF "filter" \in h.resolved THEN [h EXCEPT !.captured = op.cb] ELSE Unsupported(h)
    [] op.api \in {"Throw", "OtherExport"} -> Unsupported(h)

(* What the module's own code does between two calls: it decodes itself,   *)
(* builds its tables, asks its verifier (which the host authentication     *)
(* has replaced when it was found), or runs into a fault.                  *)
GuestCode(h, op) ==
  CASE op.api = "Unpack" -> [h EXCEPT !.image = "clear"]
    [] op.api = "InitTables" -> [h EXCEPT !.tables = TRUE]
    [] op.api = "Verify" -> IF h.patched THEN h ELSE Stop(h, "returned")
    [] op.api = "Fault" -> Stop(h, "fault")

CompatApis == {"CreateFile", "ReadFile", "CloseHandle", "Exit"}
ExporterApis == {"QueryFunctions", "SetFilter", "Throw", "OtherExport"}
GuestSteps == {"Unpack", "InitTables", "Verify", "Fault"}

HostCall(h, op) ==
  CASE op.api \in CompatApis -> CompatCall(h, op)
    [] op.api \in ExporterApis -> ExporterCall(h, op)
    [] op.api \in GuestSteps -> GuestCode(h, op)
    [] OTHER -> KernelCall(h, op)

Cost(op) == IF "cost" \in DOMAIN op THEN op.cost ELSE 1

(* emu_start: until the return sentinel, a stop, a fault, or the budget.   *)
(* Only a fault is an error of emu_start itself.                           *)
Run(h, script, budget) ==
  LET step(op, s) ==
        IF s.stop # "running" THEN s
        ELSE IF s.steps + Cost(op) > budget THEN Stop(s, "budget")
        ELSE With([s EXCEPT !.steps = @ + Cost(op)], LAMBDA t : HostCall(t, op))
  IN With(FoldLeft(LAMBDA s, op : step(op, s), [h EXCEPT !.stop = "running", !.steps = 0], script),
          LAMBDA end : IF end.stop = "running" THEN Stop(end, "returned") ELSE end)

----------------------------------------------------------------------------
(* Initialisation.  A module m is [pe, clash, dll, v2link, marks, attach,  *)
(* link, proven, hints, cbs].                                              *)

(* build_emulator *)
Fresh ==
  [cursor |-> 0, allocs |-> {}, ptrs |-> <<>>, tls |-> <<>>, last_error |-> "none",
   file |-> [open |-> FALSE, cursor |-> 0], resolved |-> {}, captured |-> NoCallback, bad |-> FALSE,
   image |-> "stored", tables |-> FALSE, patched |-> FALSE, calls |-> 0, steps |-> 0, stop |-> "running"]

Loads(m) == m.pe /\ ~m.clash

(* run_dll_process_attach: an attach that ran out of its budget is         *)
(* accepted like one that returned.                                        *)
Attach(m, h) == Run(h, m.attach, MaxSteps)
AttachOk(h) == h.stop # "fault" /\ ~h.bad

(* run_initialized_v2link_capture: with the markers of an external host    *)
(* authentication the guard and the verifier must be found, and the        *)
(* verifier is replaced.                                                   *)
CanLink(m) == m.marks \in {"none", "guarded"}
Link(m, h) ==
  IF ~CanLink(m) THEN h
  ELSE Run([h EXCEPT !.captured = NoCallback, !.resolved = {}, !.bad = FALSE, !.patched = @ \/ m.marks = "guarded"],
           m.link, MaxSteps)
LinkOk(m, h) == CanLink(m) /\ h.stop # "fault" /\ ~h.bad /\ h.captured # NoCallback

Failed == [ok |-> FALSE, cb |-> NoCallback, h |-> Fresh]
Ready(cb, h) == [ok |-> TRUE, cb |-> cb, h |-> h]

(* A fresh emulator of a module: after attach, and after V2Link, whose     *)
(* side effects stay whatever it returns.                                  *)
Attached(m, attaches) == IF attaches THEN Attach(m, Fresh) ELSE [Fresh EXCEPT !.stop = "returned"]
Initialised(m, a) == IF m.v2link THEN Link(m, a) ELSE a

(* X86Xp3FilterRuntime::open_pe: the registered callback, else the first   *)
(* one whose registration is proven statically.                            *)
OpenPe(m, a, l) ==
  LET cb == IF m.v2link /\ LinkOk(m, l) THEN l.captured
            ELSE IF m.proven # <<>> THEN Head(m.proven) ELSE NoCallback
  IN IF ~Loads(m) \/ ~AttachOk(a) \/ cb = NoCallback THEN Failed ELSE Ready(cb, l)
Open(m) ==
  LET a == Attached(m, TRUE) l == Initialised(m, a) IN OpenPe(m, a, l)

(* X86Xp3FilterRuntime::open_with_callback                                 *)
OpenWithCallback(m, cb) ==
  LET a == Attached(m, m.dll \/ m.v2link)
  IN IF ~Loads(m) \/ ~AttachOk(a) \/ cb \notin DOMAIN m.cbs THEN Failed ELSE Ready(cb, Initialised(m, a))

(* probe_x86_filter_module with dynamic_v2link: what a fresh emulator sees *)
Captured(m) ==
  LET a == Attached(m, TRUE) l == Initialised(m, a)
  IN IF Loads(m) /\ m.v2link /\ AttachOk(a) /\ LinkOk(m, l) THEN l.captured ELSE NoCallback

(* initialize_x86_pe_for_static_analysis: the images after attach and      *)
(* after V2Link; nothing without V2Link or after a failed attach.          *)
Snapshots(m) ==
  LET a == Attached(m, TRUE) l == Initialised(m, a)
  IN IF ~Loads(m) \/ ~m.v2link \/ ~AttachOk(a) THEN <<>> ELSE <<a.image, l.image>>

----------------------------------------------------------------------------
(* Application *)

(* apply_chunk: the callback must come back to the sentinel within the     *)
(* budget without asking for an unsupported function.  What it computes    *)
(* depends on the tables of the initialisation and, for some, on the calls *)
(* made before (`once`).                                                   *)
ChunkStop(m, rt, size) ==
  IF m.cbs[rt.cb].bad THEN "stopped"
  ELSE IF m.cbs[rt.cb].cost * size > CallbackMaxSteps THEN "budget" ELSE "returned"

ChunkRight(m, rt) ==
  LET c == m.cbs[rt.cb]
  IN (c.tables => rt.h.tables) /\ (c.once => rt.h.calls = 0)

(* apply: chunk after chunk in the same emulator; the first failure ends   *)
(* it, and the chunks before it are already written back.                  *)
Chunks(size) ==
  [i \in 1..((size + ChunkSize - 1) \div ChunkSize) |->
     IF i * ChunkSize <= size THEN ChunkSize ELSE size % ChunkSize]

Apply(m, rt, size) ==
  LET chunks == Chunks(size)
      failing == {i \in DOMAIN chunks : ChunkStop(m, rt, chunks[i]) # "returned"}
      calls == IF failing = {} THEN Len(chunks) ELSE Min(failing)
      after(n) == [rt EXCEPT !.h.calls = @ + n]
  IN [rt |-> after(calls), ok |-> failing = {}, plain |-> \A i \in 1..calls : ChunkRight(m, after(i - 1))]

=============================================================================
