--------------------------- MODULE EngineContexts ----------------------------
(***************************************************************************)
(* How several engine handles share one copy of the game's global          *)
(* variables.  The writable globals of the library ("the module") belong   *)
(* to one engine at a time; a call takes a process-wide non-blocking       *)
(* guard, swaps the image of its engine in, validates the handle, runs and *)
(* releases the guard.  The host's callbacks run while the guard is held.  *)
(* A static archive (MultiInstance = FALSE) swaps nothing and accepts one  *)
(* engine per process.                                                     *)
(*                                                                         *)
(* A caller is a thread, either in a call of its own ("host") or in a call *)
(* it makes from inside a callback of that call ("hook").  The guard is    *)
(* tested in one atomic step; what the holder then does is split where the *)
(* code passes from one function to the next, so that every other caller   *)
(* is tried against each intermediate state.                               *)
(***************************************************************************)
EXTENDS Integers

CONSTANTS
  Threads,        \* Threads of the host.
  Engines,        \* Addresses calloc can return for an OoTEngine.
  NoEngine,       \* NULL, as an engine or as a native core.
  NoImage,        \* No context is registered for this engine.
  Absent,         \* No simulation (the abstract specification's value).
  MultiInstance,  \* Built with LIBOOT_MULTI_INSTANCE (a shared library).
  MaxTicks        \* Bound on the ticks one simulation runs.

ASSUME NamesDistinct == NoEngine \notin Engines
ASSUME BuildAssumption == MultiInstance \in BOOLEAN
ASSUME TicksAssumption == MaxTicks \in Nat

VARIABLES
  managerReady,   \* sContextManager has been published.
  guard,          \* manager->guard.
  prepared,       \* manager->prepared: the baseline has been asked for.
  available,      \* manager->available: the baseline was captured.
  baseline,       \* manager->baseline: the globals before any engine.
  active,         \* The engine whose context is manager->active, or NoEngine.
  saved,          \* manager->contexts: the saved image of each engine.
  module,         \* The writable globals themselves.
  live,           \* Engine structs allocated and not freed.
  cores,          \* Native cores (ROM copy, assets, Player) not freed.
  owner,          \* Thread-local engine whose call holds the guard.
  pc,             \* Where each caller is.
  op,             \* The entry point it is in; "none" outside a call.
  arg,            \* The engine it passed (or created).
  hookTo,         \* The engine whose callback it is running.
  returned        \* What the call that this step ended has reported.

managerVars == <<guard, prepared, available, baseline, active, saved>>
heapVars == <<live, cores>>
callVars == <<op, arg, hookTo>>
vars == <<managerReady, managerVars, module, heapVars, owner, pc, callVars,
          returned>>

Callers == Threads \X {"host", "hook"}
Outer(c) == <<c[1], "host">>
Inner(c) == <<c[1], "hook">>

Handles == Engines \cup {NoEngine}
Ops == {"create", "destroy", "use", "limits"}
Waiting == {"idle", "publish", "lock", "done"}
Working == {"prepare", "switch", "check", "alloc", "run", "emit", "hook",
            "quiet", "capture"}
Results == {"none", "OK", "BUSY", "INVALID_ARGUMENT", "NOT_INITIALIZED",
            "NOT_AVAILABLE", "SINGLETON_IN_USE", "OUT_OF_MEMORY",
            "ROM_UNSUPPORTED", "REFUSED"}

(***************************************************************************)
(* The globals, as far as the engines can tell them apart.                 *)
(***************************************************************************)
Image == [engine  : Handles,        \* s_activeEngine
          core    : Handles,        \* s_state: whose native core it points to
          hooks   : BOOLEAN,        \* the wrapper's trampolines are installed
          touched : BOOLEAN,        \* oot_global_init has run over them
          ticks   : 0 .. MaxTicks]  \* the simulation itself

Pristine == [engine |-> NoEngine, core |-> NoEngine, hooks |-> FALSE,
             touched |-> FALSE, ticks |-> 0]

\* A missing context is no image, and a missing simulation has run no ticks.
ASSUME ImagesDistinct == NoImage \notin Image
ASSUME AbsentDistinct == Absent \notin 0 .. MaxTicks

\* The caller holds the guard.
Inside(c) == pc[c] \in Working

Init ==
  /\ managerReady = FALSE
  /\ guard = FALSE /\ prepared = FALSE /\ available = FALSE
  /\ baseline = Pristine /\ active = NoEngine
  /\ saved = [e \in Engines |-> NoImage]
  /\ module = Pristine
  /\ live = {} /\ cores = {}
  /\ owner = [t \in Threads |-> NoEngine]
  /\ pc = [c \in Callers |-> "idle"]
  /\ op = [c \in Callers |-> "none"]
  /\ arg = [c \in Callers |-> NoEngine]
  /\ hookTo = [c \in Callers |-> NoEngine]
  /\ returned = "none"

(***************************************************************************)
(* Pieces shared by the calls.                                             *)
(***************************************************************************)
GoTo(c, label) == /\ pc' = [pc EXCEPT ![c] = label]
                  /\ returned' = "none"

\* The caller leaves the API.  A callback that has made its call only has to
\* return.
Return(c, r) ==
  /\ pc' = [pc EXCEPT ![c] = IF c = Inner(c) THEN "done" ELSE "idle"]
  /\ op' = [op EXCEPT ![c] = "none"]
  /\ arg' = [arg EXCEPT ![c] = NoEngine]
  /\ returned' = r

\* A mistake: the thread still owns the engine after its call.
UnguardOnly(c, r) == guard' = FALSE /\ Return(c, r) /\ UNCHANGED owner

\* engine_unguard, then the return.
Unguard(c, r) ==
  /\ owner' = [owner EXCEPT ![c[1]] = NoEngine]
  /\ guard' = FALSE
  /\ Return(c, r)

\* liboot_core_context_activate: what globals holding m, the saved images
\* and the active context become.  A NULL target restores the baseline even when no
\* context is active.
\* LoadedOnce is a mistake: NULL over NULL leaves the globals as they are.
LoadedOnce(m, e) == IF active = e THEN m
                    ELSE IF e = NoEngine THEN baseline ELSE saved[e]

Loaded(m, e) == IF e = NoEngine THEN baseline
                ELSE IF active = e THEN m ELSE saved[e]

\* A mistake: the engine that is swapped out is not saved.
StoredNever(m, e) == saved

Stored(m, e) == IF active \in {e, NoEngine} THEN saved
                ELSE [saved EXCEPT ![active] = m]

Activate(m, e) == /\ module' = Loaded(m, e)
                  /\ saved' = Stored(m, e)
                  /\ active' = e

\* liboot_core_context_activate_owner finds a context for the pointer.
\* A mistake: the search does not notice that it found none.
RegisteredAlways(e) == TRUE

Registered(e) == saved[e] # NoImage

\* The globals after the wrapper has removed its trampolines, terminated the
\* native core and cleared s_activeEngine.
Terminated == [module EXCEPT !.engine = NoEngine, !.core = NoEngine,
                             !.hooks = FALSE]

\* oot_global_terminate frees the core the globals point to.
CoresLeft == cores \ {module.core}

\* A creation that failed after oot_global_init was tried: terminate, clear
\* the pointer, restore the baseline (shared builds), free the engine,
\* release the guard.
AbandonCreate(c, r) ==
  LET spent == [Terminated EXCEPT !.touched = TRUE]
  IN  /\ cores' = CoresLeft
      /\ live' = live \ {arg[c]}
      /\ IF MultiInstance THEN Activate(spent, NoEngine)
         ELSE module' = spent /\ UNCHANGED <<saved, active>>
      /\ Unguard(c, r)

(***************************************************************************)
(* Entering a call.                                                        *)
(***************************************************************************)
NeedsHandle(o) == o \in {"destroy", "use"}

\* A host thread calls an entry point, or a callback does (at most one call
\* per callback is modelled).  A NULL engine is refused at once.
\* context_manager allocates the manager on first use and may fail.
Begin(c, o, e) ==
  /\ pc[c] = "idle"
  /\ c = Inner(c) => pc[Outer(c)] = "hook"
  /\ o = "limits" => MultiInstance
  /\ ~NeedsHandle(o) => e = NoEngine
  /\ \/ NeedsHandle(o) /\ e = NoEngine /\ Return(c, "INVALID_ARGUMENT")
     \/ /\ NeedsHandle(o) => e # NoEngine
        /\ ~managerReady /\ Return(c, "BUSY")
     \/ /\ NeedsHandle(o) => e # NoEngine
        /\ op' = [op EXCEPT ![c] = o]
        /\ arg' = [arg EXCEPT ![c] = e]
        /\ GoTo(c, IF managerReady THEN "lock" ELSE "publish")
  /\ UNCHANGED <<managerReady, managerVars, module, heapVars, owner, hookTo>>

\* The compare-and-swap that publishes a fresh manager.  The loser of the
\* race frees its own and uses the winner's.  A mistake: a plain store.
PublishesAlways == TRUE
PublishesFirst == ~managerReady

PublishManager(c) ==
  /\ pc[c] = "publish"
  /\ IF ~PublishesFirst
     THEN UNCHANGED <<managerReady, managerVars>>
     ELSE /\ managerReady' = TRUE
          /\ guard' = FALSE /\ prepared' = FALSE /\ available' = FALSE
          /\ baseline' = Pristine /\ active' = NoEngine
          /\ saved' = [e \in Engines |-> NoImage]
  /\ GoTo(c, "lock")
  /\ UNCHANGED <<module, heapVars, owner, callVars>>

\* liboot_core_context_lock: test-and-set, never waiting.
TestAndSet(c) == ~guard

TakeGuard(c) ==
  /\ pc[c] = "lock"
  /\ \/ ~TestAndSet(c) /\ Return(c, "BUSY") /\ UNCHANGED guard
     \/ /\ TestAndSet(c)
        /\ guard' = TRUE
        /\ GoTo(c, IF MultiInstance THEN "prepare" ELSE "switch")
        /\ UNCHANGED <<op, arg>>
  /\ UNCHANGED <<managerReady, prepared, available, baseline, active, saved,
                 module, heapVars, owner, hookTo>>

\* context_prepare: capture the baseline once.  Discovering the writable
\* regions or allocating the copy can fail, and is never tried again.
PrepareBaseline(c) ==
  /\ pc[c] = "prepare"
  /\ prepared' = TRUE
  /\ \/ prepared /\ UNCHANGED <<available, baseline>>
     \/ ~prepared /\ available' = TRUE /\ baseline' = module
     \/ ~prepared /\ UNCHANGED <<available, baseline>>
  /\ GoTo(c, "switch")
  /\ UNCHANGED <<managerReady, guard, active, saved, module, heapVars, owner,
                 callVars>>

\* oot_engine_get_limits only asks whether images are available; it never
\* owned the thread.
ReportLimits(c) ==
  /\ pc[c] = "switch" /\ op[c] = "limits"
  /\ guard' = FALSE /\ Return(c, "OK")
  /\ UNCHANGED <<managerReady, prepared, available, baseline, active, saved,
                 module, heapVars, owner, hookTo>>

(***************************************************************************)
(* Calls on an existing engine.                                            *)
(***************************************************************************)
\* engine_lock: find the context registered for the handle, without looking
\* behind the handle, and swap it in.
SwitchToOwner(c) ==
  /\ pc[c] = "switch" /\ op[c] \in {"destroy", "use"}
  /\ \/ /\ MultiInstance /\ ~(available /\ Registered(arg[c]))
        /\ Unguard(c, "NOT_INITIALIZED")
        /\ UNCHANGED <<module, saved, active>>
     \/ /\ MultiInstance => available /\ Registered(arg[c])
        /\ IF MultiInstance THEN Activate(module, arg[c])
           ELSE UNCHANGED <<module, saved, active>>
        /\ GoTo(c, "check")
        /\ UNCHANGED <<guard, owner, op, arg>>
  /\ UNCHANGED <<managerReady, prepared, available, baseline, heapVars,
                 hookTo>>

\* engine_lock: the globals must name this engine, and the engine must be
\* alive; then the thread becomes its owner.  Where thread-local storage can
\* fail, only the guard is released.
\* Two mistakes: trust the handle; fail without releasing the guard.
HandleTrusted(c) == TRUE
HandleValid(c) == module.engine = arg[c] /\ arg[c] \in live

FailLocked(c) == Return(c, "OUT_OF_MEMORY") /\ UNCHANGED guard
ReleaseWithoutOwner(c) == guard' = FALSE /\ Return(c, "OUT_OF_MEMORY")

CheckHandle(c) ==
  /\ pc[c] = "check"
  /\ \/ ~HandleValid(c) /\ Unguard(c, "NOT_INITIALIZED")
     \/ HandleValid(c) /\ ReleaseWithoutOwner(c) /\ UNCHANGED owner
     \/ /\ HandleValid(c)
        /\ owner' = [owner EXCEPT ![c[1]] = arg[c]]
        /\ GoTo(c, IF op[c] = "use" THEN "run" ELSE "emit")
        /\ UNCHANGED <<guard, op, arg>>
  /\ UNCHANGED <<managerReady, prepared, available, baseline, active, saved,
                 module, heapVars, hookTo>>

\* The body of any other call on the engine: it is refused, or it moves the
\* simulation on.
RunCore(c) ==
  /\ pc[c] = "run"
  /\ \/ Unguard(c, "REFUSED") /\ UNCHANGED module
     \/ /\ module.ticks < MaxTicks
        /\ module' = [module EXCEPT !.ticks = @ + 1]
        /\ GoTo(c, "emit")
        /\ UNCHANGED <<guard, owner, op, arg>>
  /\ UNCHANGED <<managerReady, prepared, available, baseline, active, saved,
                 heapVars, hookTo>>

FinishUse(c) ==
  /\ pc[c] \in {"emit", "quiet"} /\ op[c] = "use"
  /\ Unguard(c, "OK")
  /\ UNCHANGED <<managerReady, prepared, available, baseline, active, saved,
                 module, heapVars, hookTo>>

\* oot_engine_destroy after the Link is gone: terminate the core, clear the
\* pointer, discard the context and free.  liboot_core_context_discard
\* restores the baseline if the context is the active one.  Two mistakes: the
\* globals stay, or the context stays active.
DiscardedQuietly(e) == module
Discarded(e) == IF active = e THEN baseline ELSE Terminated

StillActive(e) == active
ActiveAfter(e) == IF active = e THEN NoEngine ELSE active

Teardown(c) ==
  /\ pc[c] \in {"emit", "quiet"} /\ op[c] = "destroy"
  /\ cores' = CoresLeft
  /\ live' = live \ {arg[c]}
  /\ IF MultiInstance
     THEN /\ module' = Discarded(arg[c])
          /\ active' = ActiveAfter(arg[c])
          /\ saved' = [saved EXCEPT ![arg[c]] = NoImage]
     ELSE module' = Terminated /\ UNCHANGED <<active, saved>>
  /\ Unguard(c, "OK")
  /\ UNCHANGED <<managerReady, prepared, available, baseline, hookTo>>

(***************************************************************************)
(* oot_engine_create.                                                      *)
(***************************************************************************)
\* Park the running engine and load the baseline, or insist on being the
\* only engine of a static archive.
SwitchToBaseline(c) ==
  /\ pc[c] = "switch" /\ op[c] = "create"
  /\ \/ /\ MultiInstance /\ ~available
        /\ Unguard(c, "NOT_AVAILABLE")
        /\ UNCHANGED <<module, saved, active>>
     \/ /\ ~MultiInstance /\ module.engine # NoEngine
        /\ Unguard(c, "SINGLETON_IN_USE")
        /\ UNCHANGED <<module, saved, active>>
     \/ /\ IF MultiInstance
           THEN available /\ Activate(module, NoEngine)
           ELSE module.engine = NoEngine /\ UNCHANGED <<module, saved, active>>
        /\ GoTo(c, "alloc")
        /\ UNCHANGED <<guard, owner, op, arg>>
  /\ UNCHANGED <<managerReady, prepared, available, baseline, heapVars,
                 hookTo>>

\* Allocate the engine, its buffers and its thread ownership, then install
\* the trampolines.  calloc failing leaves the globals alone; a later failure
\* clears s_activeEngine and restores the baseline.
AllocateEngine(c) ==
  /\ pc[c] = "alloc"
  /\ \/ /\ Unguard(c, "OUT_OF_MEMORY")
        /\ UNCHANGED <<module, live>>
     \/ /\ Unguard(c, "OUT_OF_MEMORY")
        /\ module' = LET cleared == [module EXCEPT !.engine = NoEngine]
                     IN  IF MultiInstance THEN Loaded(cleared, NoEngine)
                         ELSE cleared
        /\ UNCHANGED live
     \/ \E e \in Engines \ live :
          /\ live' = live \cup {e}
          /\ module' = [module EXCEPT !.engine = e, !.hooks = TRUE]
          /\ arg' = [arg EXCEPT ![c] = e]
          /\ owner' = [owner EXCEPT ![c[1]] = e]
          /\ GoTo(c, "emit")
          /\ UNCHANGED <<guard, op>>
  /\ UNCHANGED <<managerReady, prepared, available, baseline, active, saved,
                 cores, hookTo>>

\* The globals after a successful oot_global_init.
Booted(e) == [module EXCEPT !.core = e, !.touched = TRUE, !.ticks = 0]

\* oot_global_init: terminates a core the globals still point to, then loads
\* the ROM into a new one that starts at tick zero, or reports why it cannot.
InitCore(c) ==
  /\ pc[c] \in {"emit", "quiet"} /\ op[c] = "create"
  /\ \/ AbandonCreate(c, "ROM_UNSUPPORTED")
     \/ /\ cores' = CoresLeft \cup {arg[c]}
        /\ module' = Booted(arg[c])
        /\ GoTo(c, "capture")
        /\ UNCHANGED <<guard, owner, live, op, arg, saved, active>>
  /\ UNCHANGED <<managerReady, prepared, available, baseline, hookTo>>

\* Capture the initialised globals as the engine's image and adopt it, or
\* undo everything (the image cannot be allocated, the capacity is refused).
CaptureImage(c) ==
  /\ pc[c] = "capture"
  /\ \/ \E r \in {"OUT_OF_MEMORY", "NOT_AVAILABLE"} : AbandonCreate(c, r)
     \/ /\ IF MultiInstance
           THEN /\ active = NoEngine /\ saved[arg[c]] = NoImage
                /\ saved' = [saved EXCEPT ![arg[c]] = module]
                /\ active' = arg[c]
           ELSE UNCHANGED <<saved, active>>
        /\ Unguard(c, "OK")
        /\ UNCHANGED <<module, live, cores>>
  /\ UNCHANGED <<managerReady, prepared, available, baseline, hookTo>>

(***************************************************************************)
(* Callbacks: the trampoline asks the thread for the engine it serves.     *)
(***************************************************************************)
RaiseHook(c) ==
  /\ pc[c] = "emit" /\ c = Outer(c)
  /\ module.hooks /\ owner[c[1]] # NoEngine
  /\ hookTo' = [hookTo EXCEPT ![c] = owner[c[1]]]
  /\ GoTo(c, "hook")
  /\ UNCHANGED <<managerReady, managerVars, module, heapVars, owner, op, arg>>

ReturnHook(c) ==
  /\ pc[c] = "hook" /\ pc[Inner(c)] \in {"idle", "done"}
  /\ hookTo' = [hookTo EXCEPT ![c] = NoEngine]
  /\ pc' = [pc EXCEPT ![c] = "quiet", ![Inner(c)] = "idle"]
  /\ returned' = "none"
  /\ UNCHANGED <<managerReady, managerVars, module, heapVars, owner, op, arg>>

-----------------------------------------------------------------------------
\* What a thread does once its call has begun.
Proceed(c) ==
  \/ PublishManager(c) \/ TakeGuard(c) \/ PrepareBaseline(c)
  \/ ReportLimits(c)
  \/ SwitchToOwner(c) \/ CheckHandle(c) \/ RunCore(c) \/ FinishUse(c)
  \/ Teardown(c)
  \/ SwitchToBaseline(c) \/ AllocateEngine(c) \/ InitCore(c)
  \/ CaptureImage(c)
  \/ RaiseHook(c) \/ ReturnHook(c)

Next ==
  \E c \in Callers :
    \/ \E o \in Ops, e \in Handles : Begin(c, o, e)
    \/ Proceed(c)

\* A thread that is inside a call keeps running, and a callback returns.
Fairness == \A c \in Callers : WF_vars(Proceed(c))

Spec == Init /\ [][Next]_vars
FairSpec == Spec /\ Fairness

-----------------------------------------------------------------------------
(***************************************************************************)
(* Properties.                                                             *)
(***************************************************************************)
\* The type of every variable.  A context's image is never missing from the
\* globals: swapping always loads something.
TypeOK ==
  /\ managerReady \in BOOLEAN /\ guard \in BOOLEAN
  /\ prepared \in BOOLEAN /\ available \in BOOLEAN
  /\ baseline \in Image /\ module \in Image
  /\ active \in Handles
  /\ saved \in [Engines -> Image \cup {NoImage}]
  /\ live \subseteq Engines /\ cores \subseteq Engines
  /\ owner \in [Threads -> Handles]
  /\ pc \in [Callers -> Waiting \cup Working]
  /\ op \in [Callers -> Ops \cup {"none"}]
  /\ arg \in [Callers -> Handles] /\ hookTo \in [Callers -> Handles]
  /\ returned \in Results

\* The guard is held exactly while one caller is between engine_lock and
\* engine_unguard: no two callers ever run the shared core, and no return
\* path keeps the guard or gives back a guard it does not hold.
\* In particular a callback never gets past the guard of its own thread.
GuardExclusion ==
  /\ \A c, d \in Callers : Inside(c) /\ Inside(d) => c = d
  /\ guard <=> \E c \in Callers : Inside(c)

\* Every saved image carries the handle it is registered under, and the
\* globals carry the handle of the active context: the swap never mixes up
\* two engines, and an active context is always a registered one.
ImagesMatchHandles ==
  /\ \A e \in Engines : saved[e] # NoImage => saved[e].engine = e
  /\ active # NoEngine => saved[active] # NoImage /\ module.engine = active

\* The engine struct and the native core behind an image are still allocated.
Sound(image) == /\ image.engine \in live \cup {NoEngine}
                /\ image.core \in cores \cup {NoEngine}

\* No image that a later call can load points to freed memory, at any
\* intermediate step of a call; and between calls every allocated engine is
\* one a host can still destroy, and every native core belongs to it: a
\* creation that failed half way, or a destruction, leaves nothing behind.
NothingDanglesOrLeaks ==
  /\ \A e \in Engines : saved[e] # NoImage => Sound(saved[e])
  /\ Sound(baseline) /\ Sound(module)
  /\ ~guard => /\ live = {e \in Engines : IF MultiInstance THEN saved[e] # NoImage
                                          ELSE module.engine = e}
               /\ cores = live

\* In a shared build a new core is initialised over globals no engine and no
\* earlier, failed creation has touched.
CleanBoot ==
  \A c \in Callers :
    MultiInstance /\ op[c] = "create" /\ pc[c] \in {"emit", "hook", "quiet"}
      => ~module.touched /\ module.core = NoEngine

\* A callback reaches the engine whose call is running and whose globals are
\* loaded, and a thread outside every call owns no engine that a stray
\* callback could reach.
HookReachesCaller ==
  /\ \A c \in Callers : pc[c] = "hook" => /\ hookTo[c] = arg[c]
                                         /\ module.engine = arg[c]
  /\ \A t \in Threads : owner[t] # NoEngine
       => Inside(<<t, "host">>) /\ arg[<<t, "host">>] = owner[t]

-----------------------------------------------------------------------------
\* The simulation behind a handle, wherever its state currently lives.
Store(e) ==
  IF MultiInstance
  THEN IF saved[e] = NoImage THEN Absent
       ELSE IF active = e THEN module.ticks ELSE saved[e].ticks
  ELSE IF module.engine = e /\ module.core = e THEN module.ticks ELSE Absent

Isolated == INSTANCE IsolatedEngines WITH store <- [e \in Engines |-> Store(e)]

\* Refinement: swapping one set of globals behaves as one private simulation
\* per handle.
EnginesAreIsolated == Isolated!Spec

\* A call reports success only when the handle had a simulation behind it
\* while the call ran (use, destroy) or has a fresh one now (create).
OkIsTruthful ==
  [][\A c \in Callers, e \in Engines :
       (Inside(c) /\ ~Inside(c)' /\ returned' = "OK" /\ arg[c] = e) =>
         CASE op[c] = "use"     -> Store(e) # Absent
           [] op[c] = "destroy" -> Store(e) # Absent /\ Store(e)' = Absent
           [] op[c] = "create"  -> Store(e)' = 0]_vars

\* The guard is never kept: whoever holds it runs to the end of the call,
\* through the callback and the call that callback may make, and releases it
\* on every path.
GuardIsReleased == guard ~> ~guard
=============================================================================
