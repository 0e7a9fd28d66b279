# A TLA+ verification of liboot

liboot is a C library that runs the player code of a decompiled console game
("Link") inside a host program: the host loads collision worlds or scenes from
its own ROM, creates a Link, feeds him input and gets back his pose and mesh.
The vendored game code (`src/decomp`) is a single-instance program full of
global variables; what liboot adds is the machinery that makes it usable as a
library.  That machinery (handles, guards, context switching, a fixed-step
clock, queues, tables with generations, replacement of worlds under live
objects) is the subject of this project.

    tlc -workers 2 -config EngineSession.cfg MCEngineSession.tla   # one run
    tlapm EngineContexts_proofs.tla                                # the proofs

`PROJECT.json` lists the components, runs, the mutant that each property
catches, the source lines of every definition, the findings, the hazards and
the theorems.  Paths below are relative to the root of the repository
(`src/...`, so the library's C files are `src/src/*.c`).

## Contents

| module | what it is | lines of code it stands for |
| --- | --- | --- |
| `IsolatedEngines` | abstract: one private simulation per handle | the promise of `liboot_engine.h` |
| `EngineContexts` | guard, context images, creation, destruction, callbacks | `core_context.c`, `liboot_engine.c` |
| `EngineSession` | worlds, Link, age, clock, frame of one engine | `liboot_engine.c`, `liboot.c`, `scene.c` |
| `HostedActors` | abstract: handles that are good once, and the contacts a host is still to be told | what `liboot_engine.h` tells a host of its actors |
| `HostActors` | targets and host actors, extends `EngineSession` | `targets.c`, `liboot_engine.c`, `load_assets.c` |
| `Picking` | some elements of a sequence, in their order | the loop of `purge_contacts` |
| `WorldEvents` | exits and voids reported to the host | `scene.c`, `liboot.c` |
| `DynamicCollision` | moving collision objects | `dynamic_collision.c`, `liboot_engine.c`, `z_bgcheck.c`, `z_bg_collect.c` |
| `AudioPlayers` | abstract: a player is idle, plays or fades | what `liboot.h` tells a host of the players |
| `SequencePlayer` | players, channels, layers and the voices they share | `audio_sequence.c` |
| `EnemyBgm` | the battle music's driver over `AudioPlayers` | `audio_sequence.c`, `liboot.c` |
| `HeldItems` | Link's hands, and the bombs, hookshot and arrows that come from them | `equip.c`, `liboot.c`, `z_player.c`, `z_actor.c`, `z_en_bom.c`, `z_arms_hook.c`, `z_en_arrow.c` |
| `TextureCache` | the cache of decoded textures, the walks that fill it, the host's copies | `gfx_adapter.c`, `scene.c`, `core_context.c` |
| `*_proofs` | theorems about `EngineContexts`, `EngineSession`, `HostActors`, `WorldEvents`, `DynamicCollision`, `SequencePlayer`, `EnemyBgm`, `TextureCache`, `HeldItems` | |
| `MC*` | symmetry sets and instances for TLC | |

## 1. Inventory

**Engine contexts and guard** (`core_context.c`, `liboot_engine.c:51-196`,
`:815-1040`).
*State:* the context manager, published once per process with a
compare-and-swap; its guard; the baseline image of the library's writable
globals; a list of contexts, each an image of those globals registered for an
engine; the active context; a thread-local "active engine".
*Operations:* `liboot_core_context_lock/unlock`, `prepare`, `activate`,
`activate_owner`, `capture`, `adopt`, `discard`; `oot_engine_create`,
`oot_engine_destroy`, and `engine_lock`/`engine_unguard` around every other
entry point.
*Interaction:* every other component runs with the guard held; the debug and
sound callbacks run there too, and may call back into the API.
*Hard:* concurrent first calls, the non-blocking guard, re-entrance, creation
that fails after the native core is up, handles of destroyed engines,
addresses that `calloc` hands out again, a static build in which nothing is
swapped.
*Correct when:* the guard is exclusive and never kept; engines never see each
other's state; nothing leaks or dangles; a stale handle is refused.

**Engine session** (`liboot_engine.c:401-548`, `:1060-1727`, `liboot.c`).
*State:* `worldLoaded`, the copied scene geometry, `linkActive`, `currentAge`
beside the native `linkAge`, `frame` and `frameValid`, `accumulator`,
`pendingButtons`.
*Operations:* static world, scene and room loads, creation, deletion and age of
Link, items, `step`, `advance`, `get_frame`, `reset_clock`.
*Hard:* the wrapper's copies drifting from the native state; frames outliving
what they show; float time that is not a whole number of steps; presses between
two ticks; loads that half succeed.
*Correct when:* the frame, its interpolation fraction and the geometry always
describe the present; `advance` runs the ticks a division would; no press is
lost; the age rule of items holds.

**Targets and host actors** (`targets.c`, `liboot_engine.c:281-347`,
`:2075-2345`).
*State:* two handle tables of the wrapper, one native pool, a ring of contacts,
and the game's own pointers to an actor (lock-on).
*Operations:* create, update, remove, clear, poll a contact; each tick collects
contacts; Link's deletion, creation and ageing destroy actors.
*Hard:* slots that are reused while something still refers to them, a ring that
overflows, two layers that must agree on what has been destroyed.

**World transition events** (`scene.c:120-197`, `:1095-1158`, `:1447-1470`).
*State:* a queue of 8 events, the note of the contact in progress, a 64-bit
sequence number.
*Operations:* the intercept in Link's tick, poll, `set_pose`, every load.
*Hard:* a full queue, polling in mid-contact, a counter that wraps through a
reserved value, events of a world that is gone.

**Dynamic collision** (`dynamic_collision.c`, `liboot_engine.c:1457-1608`, the
background actors of the game's `z_bgcheck.c`).
*State:* the wrapper's table, the core's slots with 24-bit generations, the
game's background actors with a current and a previous pose and a triangle
lookup, Link's `floorBgId`.
*Operations:* create, set transform, enable, delete; rebinding after a world
has been replaced; the tick that carries Link.
*Hard:* three tables that must agree, a fixed budget the game does not check,
a cache made for a loop that runs once per frame and now runs at every call,
counters that wrap or run out.

**Scenes and rooms** (`scene.c`, `scene_header.c`, `scene_room_image.c`) and
**static worlds** (`liboot.c`).  Loading is parsing, relocating and decoding;
what other parts see of it is when it commits and what it discards.

**Sequenced audio** (`audio_sequence.c:486-2208`).
*State:* four players with 16 channels of four layers each, all running scripts
from the ROM; a fade per player; a pool of voices and a serial number.
*Operations:* play, stop (at once or fading), pause, sound effects, rendering,
and the commands of the scripts, which also start sequences on other players.
*Hard:* layers refer to voices by number, and voices are stolen; a player,
channel or layer may be ended or started over by somebody else at any time;
fades meet pauses, loads and other fades.
*Correct when:* every note that sounds has somebody who will end it; nobody
touches a voice that is no longer his; a stopped player is silent; a fade-out
ends.

**Battle music** (`audio_sequence.c:2210-2293`).
*State:* the configuration and `active`, the driver's own note that its theme
plays.
*Operations:* the tick at the end of `oot_link_tick`, and the configuration.
*Hard:* the players also belong to the host and are reset by a restart.

**Equipment and hands** (`equip.c`, `liboot.c:700-790`, the hands of the game's
`z_player.c`, and the actors that it spawns).
*State:* the item in hand and the one it is to become, the upper body's action,
the carrying flag, four pointers from Link to actors (held, child, in range,
pulling him), a pointer back from each of these, the item on C-left.
*Operations:* `oot_link_use_item`, which calls the game's `Player_UseItem`
whatever Link is doing; `oot_actor_spawn` of a bomb; the tick, which runs Link
and then each actor.
*Hard:* an actor is killed by its fuse, by water, by a wall or by Link in any of
his actions, and freed a tick later; an item is changed in two steps, and a lift
made in three, that a hit or a fall may separate; the limit on bombs counts those that have gone off but not gone.
*Correct when:* pointers are mutual and never dangle, what is put away is put
away, every bomb goes off, the hookshot comes back if Link and it come together.

**Texture cache** (`gfx_adapter.c`).
*State:* slots with their keys (texture, age, room number), the files behind the
segments, a revision counter of the process.
*Operations:* the interpretation of a display list of a room or of Link, which
hits, misses or fails at each texture; eviction with every world; the host's
polling by revision.
*Hard:* a segment names another file after every load, room and change of age;
slots are handed out again under geometry that still refers to them; revisions
outlive a restart that empties the cache.
*Correct when:* what has been drawn keeps the pixels its display list meant, and a
host that goes by revisions never shows those of another texture.

**Assets, ROM, the rest of the geometry adapter, shims, bindings, tools**: see
section 7.

The **hazards** of all these parts are in `PROJECT.json`, each at its line, with
the properties that would notice, or the reason why there is none yet.

## 2. The modules and the code

### EngineContexts

A *caller* is a thread in a call of its own (`<<t, "host">>`) or in the call it
makes from inside a callback (`<<t, "hook">>`).  The test-and-set of the guard
is one step, because the code's is one atomic operation; everything the holder
then does is split where the code goes from one function to the next, so that
the others are tried against each intermediate state.

| actions | code |
| --- | --- |
| `PublishManager` | `context_manager`: allocate, compare-and-swap, the loser frees |
| `TakeGuard` | `liboot_core_context_lock`; `BUSY` when it is taken |
| `PrepareBaseline` | `context_discover_regions`, `context_prepare`: succeeds or fails once and for all |
| `SwitchToOwner`, `CheckHandle` | `engine_lock`: look the engine up, swap it in, check `s_activeEngine` |
| `RunCore`, `FinishUse` | any call that runs the game (`oot_engine_step` stands for them) |
| `SwitchToBaseline`, `AllocateEngine`, `InitCore`, `RaiseHook`, `CaptureImage` | `oot_engine_create`, with each failure exit |
| `Teardown` | `oot_engine_destroy`: terminate, discard, free |
| `ReturnHook`, `HookReachesCaller` | the trampolines and the thread-local engine |

An image of the globals is abstracted to what can be told apart: whose
`s_activeEngine` it holds, whose native core it points to, whether trampolines
are installed, whether an init has dirtied it, and the ticks the simulation has
run.  `saved[e]` is the image registered for the address `e`; an engine may be
freed and its address allocated again.

`IsolatedEngines` is what a host believes: `store[e]` is a simulation with a
number of ticks, or `Absent`.  `EngineContexts` implements it with
`store[e]` = the image that currently holds the state of `e` (the globals
themselves when `e` is active).  The mapping is `Store` and the run
`contexts_shared` checks it for swapped images.  In a static archive, where
nothing is swapped and the second engine is refused, `contexts_static` asks
that a success is true.

### EngineSession

A call is one step, since it runs under the guard (shown by `EngineContexts`),
except `oot_engine_advance`, whose loop is `Advance`, `Substep`* and
`AdvanceReturn`.  Time is an integer: `Step` units make a fixed step and
`Tolerance` stands for the code's `fixedStepSeconds * 1e-6`, made large
enough (1 of 3) that a clock that is short of a step by the tolerance really
occurs, as it does in floating point.  `world`, `geometry` and `frame.world` are
the world itself, not flags, so that a frame or a geometry of *another* world is
visible.  `layout` is how dynamic objects stand, changed by `MoveCollision`.
`pad` is the buttons of the last tick.

### HostActors

Extends `EngineSession` with the two tables, the pool and the contacts, and
wraps the actions that disturb them (`CreateLink`, `DeleteLink`, `ChangeAge`).
`held` and `retired` are what the host has been told about its handles; `who`
in the pool and in contacts is the token of the handle an actor was made for.
These exist only in the model; the properties compare the code's state with
them.  An actor keeps one bit per class of weapon in the code, so that a sword and
an arrow in the same tick are two contacts; the model keeps one bit for all of them.

`HostedActors` is what a host may believe: a set of good handles, a set of those
that were, and the contacts not yet polled, each known by the handle it is about.
`HostActors` implements it with `live` = `held`, `gone` = `retired` and `mail` = the
tokens of the contacts in the ring.  `Abandon` is the change of age of finding 1: the
actors stay, and what happens to them is skipped by the polls that follow.

### WorldEvents

A place is a surface under Link: a safe one, an exit or a void of a ROM scene,
or the region below y = -4000, which exists in every world.  The action `Tick(p)`
moves Link to `p` and runs the intercept.  `settled`, `announced` and `refused`
record what happened in this stay.

### DynamicCollision

`table` (wrapper), `objects` (core) and `bgActors` (game) are the three tables.
A bg actor's `laid` is the pose at which its triangles have been laid out;
`Refreshed` is the game's decision whether to lay them out again.  `history` is
what the host knows: whose object is where, what each looked like in the last
tick, which have been moved between two ticks.

### AudioPlayers and SequencePlayer

A command of a script is one action, since a script may put a delay between any
two of its commands; which command comes next is open, as scripts are data of
the ROM.  A frame of `oot_audio_render_s16` is `Frame(p)` for the fade of each
player and `VoiceEnds(v)` for a voice whose sample or envelope has run out.
A layer keeps the number and serial of its voice after it has been disabled, as
in the code; `place` in a voice is its `player`, `channel` and `layer`.
A channel that disables itself (0xCD) runs on to its next delay and is
"leaving" until then.  Fade lengths are frames, and the gain is silent or
not.  `silenced` is what the host knows of the players it has stopped.

`SequencePlayer` implements `AudioPlayers` by forgetting everything but
`playing`, `pendingStop` and `sequenceId`; `EnemyBgm` is built on that
abstraction.

### EnemyBgm

`Tick(near, found)` is `liboot_enemy_bgm_tick`, with the signal of the update
before it as `near` and the ROM's having the theme as `found`.  The host plays
and stops sequences on `HostPlayers`, hands `BgmPlayers` to the driver, and
restarts the library.  `trusted` is true when a tick without an enemy (or of a
disabled driver) has followed the last interference with the driver's player.

### HeldItems

One tick is `PlayerUpdate`, then one `ActorUpdate` step for each spawned actor, the
explosives first, as `Actor_UpdateAll` goes through its lists; then `EndTick`.
The host's requests come between two ticks.  Each function of `z_player.c` is an
operator from a world to a world, composed as the calls are nested, because
these functions call each other before any of them returns: `UseItem` may put
the held item away, which may free the hands, which resets the upper body's
action, which may finish a change of item.

| operators and actions | code |
| --- | --- |
| `UseItem`, `InitItemAction`, `DetachHeldActor`, `DestroyHookshot` | `Player_UseItem` and the functions it calls |
| `UpperAction` and its cases | the upper body's action, one function each |
| `ActionFunc` and its cases | Link's own action, one function each |
| `DropDead`, `EndOfUpdate` | the start of `Player_Update` and its end |
| `Disturb`, `Fallen` | `func_80837C0C` (a hit), `func_8083AA10` (the floor ends, and Link stops carrying) |
| `BombBurns`, `BombExplodes` | `EnBom_Update` |
| `HookWaits`, `HookIsOnItsWay` | `ArmsHook_Wait`, `ArmsHook_Shoot` |
| `ArrowNocked`, `ArrowFlies` | `EnArrow_Shoot`, `EnArrow_Fly` and the states of an arrow that stuck |
| `Reap` | `Actor_Delete` of what has been killed |

What the hands do not decide (buttons, the floor, the frame of an animation) is
a record chosen afresh in every tick.  A hit or the end of the floor is among it in
every action but the flight on the hookshot (which `Player_UpdateCommon` leaves
alone), in the waiting for a put-away, the lift and the throw as well: `Inputs` joins
what each such event (`Events`) lets the rest of the tick see.  A Link in the air does
not fall once more.  The hookshot's way out has a timer, its way back has none: it takes
as many ticks as the distance takes (`HookReturns`).  Of `Player_UseItem` the table
`sItemChangeTypes` is left out, which chooses animations and for these items never
spares the announcement of a change.  `fault` is set by a use of a NULL pointer
or of an actor that has been freed.

### TextureCache

A display list names a texture by segment and offset.  `segment` says which file
is behind each segment: 6 is Link's object, 4 the common one, 2 the scene, 3 a
room.  Pixels are represented by what they were decoded from, so that a hit on
an entry decoded from another file is visible.  A walk over the rooms or over
Link is split at every texture and every room; `rooms` and `frame` are the
triangles it has emitted, each with the pixels it meant.  `host` is what a host
holds that uploads a slot when, and only when, its revision has changed.

## 3. The runs

| run | instance | distinct states | question |
| --- | --- | --- | --- |
| `contexts_shared` | 2 threads, 2 engines, shared build, fair | 70,272 | guard, images, handles, heap and callbacks agree at every intermediate step; refinement of `IsolatedEngines`; the guard is given back |
| `contexts_static` | 2 threads, 2 engines, static build | 9,431 | stale handles are refused: a success is true |
| `session` | 2 buttons, 2 scenes, 1 static world, 2 substeps, stalls up to 8 units | 86,167 (symmetric) | frame, clock, latch, geometry and item rule |
| `actors` | 1 target slot, 2 actor slots, pool of 2, ring of 2, 4 tokens | 90,645 | handles, contacts and lock-on never pass to a successor; only a change of age orphans; refinement of `HostedActors` |
| `actors_age` | as `actors` | violation | finding 1 |
| `events` | 2 exits, 1 void, queue of 2, counter modulo 4, fair | 1,586 | numbering, one event per stay, full queue |
| `collision` | 2 objects, 2 poses, sizes 1 and 2 of a budget of 3, generations 1..2, 2 tokens | 341,435 (symmetric) | three tables agree, budget, carrying |
| `collision_rewind` | the same | violation | finding 2 |
| `sequences` | 2 players of 1 layer each, 1 voice, 1 sequence, 1 sound, 2 notes, fades of 1 frame, fair | 206,980 | no note hangs, stolen voices are left alone, a stopped player is silent, a fade-out ends; refinement of `AudioPlayers` |
| `battle` | 2 players, 2 sequences, the host on both, restarts | 204 (all there are) | the driver knows whether its theme plays |
| `helditems` | room for 2 actors, limit of 2 explosives, bombs of Link's and of the host's, fuse of 3 ticks, blast of 1, hookshot of 2, arrows of 1, fair | 290,754 | pointers are mutual, what is put away is put away, bombs go off, hands come back |
| `textures` | 2 scenes of 2 rooms, 3 textures, 3 slots, 4 revisions | 1,368,622 (symmetric) | drawings keep their pixels, host copies are honest |

**Bounds.**  Two threads race for the publication of the manager and for the
guard, a holder against a loser, and each of them can also be inside a callback;
that any number of threads exclude each other is proved (section 6).  Two
engines are what it takes to mix up two images; addresses are reused, so two
addresses make any number of engines.  `MaxTicks` = 2 tells a lost tick from a
doubled one.  `MaxElapsed` = 8 is more than `MaxSubsteps` steps (6) plus what may
be left on the clock, so that the cap bites.  The pool, ring, queue and tables
have two entries and are filled and overflown.  `Width` = 4 and `MaxGeneration` =
2 wrap several times in a run; `MaxToken` runs out in the middle of one.  In
`sequences` two layers of different players share one voice, which is what it
takes to steal a voice that is still held; `MaxSerial` = 3 allows the thief's
note after the victim's.  `MaxFade` = 1 still has a frame between the call that
starts a fade and its end, in which everything else can happen.  Symmetry is
used only in runs of safety and step properties, over values that are compared
for equality alone.  In `helditems` two places for actors make the second spawn
fail while one bomb and one hookshot are out, and a fuse of three ticks is long
enough for Link to put an item away, lift the bomb and stand with it before the
blast.  A
patient host (`PatientHost`) asks for an item only when the hands are at rest
(`HandsAtRest`): the one before has been dealt with and the carrying flag means a
load; section 5 says what an impatient one meets.  In `textures` the three
materials are a face in Link's object (which differs with his age), a texture of
the scene, and one of a room with its palette in the scene's file; three slots
are vacated, handed out again and filled up; of four revisions the last two are
given after an eviction or a restart.

**Deadlock** is checked in all runs; none of the systems ever stops.

**Fairness.**  `EngineContexts` assumes weak fairness of the next step of a
caller that is inside a call (`Proceed`): a running thread goes on running, and
a callback returns.  No fairness makes a thread *begin* a call.  `WorldEvents`
assumes that the host keeps stepping and polling (`docs/ENGINE_INTEGRATION.md`
asks it to), and only where Link stays where he is.  `SequencePlayer` assumes
that the host keeps rendering (`Frame`), and `FadeOutEnds` that it does not start
the fade over and over again.  `HeldItems` assumes that the host keeps stepping
(weak fairness of `TickGoesOn`): nothing is assumed of what Link, the buttons or
the actors do in a tick.  A bomb goes off because its timer runs down.  The
hookshot flies out on a timer too, but comes back, or pulls Link, by distance
(`z_arms_hook.c:225`), and it lets go of a moving object only when that has left it by
more than 50 units (`:218`), so that a host that keeps moving the object away can
keep Link in flight.  No scheduling excludes that.  `HandsComeBack` therefore has it as
an assumption of its own, `HookCatchesUp`: again and again no hookshot is on its way
back.  What it then says is that the two files agree: the hookshot that arrives is
handed back, a shot that is cut or whose owner has changed items leaves nobody waiting.  The other modules state no liveness.

## 4. What the properties say

*EngineContexts.*  `GuardExclusion`: the guard is set exactly while one caller
is between lock and unlock.  `ImagesMatchHandles`: a saved image carries the
handle it is registered under, and the globals that of the active context.
`CleanBoot`: a new core is initialised over globals that neither an engine nor
an earlier failed creation has touched.  `NothingDanglesOrLeaks`: no image that
can be loaded points to freed memory, and between calls every allocated engine
can still be destroyed.  `HookReachesCaller`: a callback reaches the engine whose
call is running.  `EnginesAreIsolated`: the refinement of `IsolatedEngines`.
`OkIsTruthful`: `OK` implies there was a simulation.  `GuardIsReleased`: the guard
is never kept.

*EngineSession.*  `PublishedIsCurrent`: a frame (with its interpolation fraction)
and the copied geometry describe the present world, Link and clock.
`StepsAreExact`: the subtracting loop with a tolerance does what a division
would, leaves no tick due and carries no debt.  `LatchedPressSurvives`: a press
between two ticks reaches the game.  `ItemsObeyAgeOnceShown`: the age rule, from
the first frame on.

*HostActors.*  `HandlesAreExact`: of all handles there could be the tables accept
just those the host still holds, and each reaches the actor it was made for; one
that it has given up or lost reaches nothing, also after its slot has been reused.
`SuccessorsInheritNothing`: contacts are delivered for actors that exist, and
the actor the game points to is not replaced by another.  `NoNewOrphans`: no
step but a change of age (finding 1) leaves a native actor that no handle
reaches.  `ActorsAreHosted`: the refinement of `HostedActors`; a live actor's contact
is delivered in its turn or pushed out by a newer one of a full ring, and a removal
takes no contact of another live actor with it.

*WorldEvents.*  `EventsAreInOrder`: queued events are numbered without a gap,
never 0, and are about the loaded world.  `OncePerStay`: a stay makes at most one
event, and walking in from a place where the game has seen Link makes one unless
the queue is full.  `FullQueueIsRetried`: then it comes later.

*DynamicCollision.*  `TablesAgree`: a handle reaches its object in the wrapper and
the core, also over wraps and exhausted tokens, and each object is one
background actor of the present world, and no other is live.  `GeometryFollows`:
it collides where it is, if moved at most once between two ticks.
`CarryIsWhole`: Link is carried all the way or not at all.  `TypeOK` has the
budget of the game's lists.

*SequencePlayer.*  `VoicesAreTended`: a voice that is not being released belongs
to a layer that runs and still knows it, so that something can end it, and a
layer whose voice was stolen takes no voice for its own.  `StoppedIsSilent`: a
player stopped or faded out by the host has no voice until it is loaded again.
`FadeOutEnds`, paused or not.  `PlayersAreSimple`: the refinement of
`AudioPlayers`.

*HeldItems.*  `HoldIsMutual`: between ticks Link's pointers lead to allocated
actors, none that is NULL or freed has been used, and an actor that believes it
is held is the one Link holds, or the hookshot on its way.  `PutAwayIsComplete`:
a carrying flag without a load belongs to a lift under way, or was left over by one
that a fall or a hit interrupted and then meets empty hands whose upper action does
not use a load; and nothing pulls Link without a hookshot in hand.
`NothingStaysOut` has two halves: every bomb is gone in the end (`BombsGoOff`), and a
flight or a shot of the hookshot ends if Link and it come together again and again
(`HandsComeBack`).

*TextureCache.*  `DrawnAsMeant`: a triangle that has been drawn keeps the texels
and the palette its display list meant, whatever has been loaded, evicted and
drawn since.  `HostCopyIsHonest`: equal revisions mean equal pixels, also across
restarts.

*EnemyBgm.*  `ThemeIsKnown`: after any interference, one tick without an enemy
makes `active` and the driver's player agree again.

The restart and the configuration in a battle are where the driver goes wrong for
a while, or for good.  A restart resets the players (`liboot.c:296`) and leaves
`s_enemyBgm` alone, so that it reports an active theme and starts none for an
enemy who is near in the first ticks.  `oot_audio_set_enemy_bgm` takes another
player at once (`audio_sequence.c:2281`), also while the theme plays on the old
one, where nothing stops it then.  `trusted` leaves the first out until the next
tick without an enemy; `BgmPlayers` in the run and the hypothesis of the theorem
leave the second out.  Both concern hosts of the raw API: an engine has
globals of its own and always passes the same player.

Every property of a passing run is broken by a mutant of one mapped definition,
listed in `PROJECT.json`; the mutated forms stand beside the originals in the
modules and are called mistakes in their comments.

## 5. Findings

1. **Actors that survive a change of age** (run `actors_age`,
   `AgeChangeDestroysActors`).  `oot_engine_link_create` (`liboot_engine.c:1086`)
   sets `currentAge` to adult, while the game keeps the `linkAge` of the Link
   before.  After a child has been deleted and created again, `oot_link_set_age`
   to child (`liboot.c:951`) finds the age already as asked and returns early,
   after the wrapper has dropped its handles.  The native actors stay in the
   world and no handle reaches them.
2. **Geometry left behind** (run `collision_rewind`, `GeometryIsTransformed`).  An
   object moved away and back between two ticks ends with equal previous and
   current poses, and the game reuses the triangles laid out in between
   (`dynamic_collision.c:345`).  They stay wrong until something else moves.

### Observations without a run

The properties of the passing runs are stated around the following cases, which
the models contain.  No document of the repository says otherwise of them, or
only in words too general to call it a disagreement.

* In the situation of finding 1, and until the first tick, the item rule goes by
  the wrapper's age: the bow is accepted and the Deku stick refused for a child.
  `ItemsObeyAgeOnceShown` begins with the first frame.
* The note of the last contact outlives a deleted Link and, except for the void
  plane, a change of pose (`scene.c:1459`); entering the same exit or void in the
  first tick after that makes no event.  `OncePerStay` speaks of a Link whom the
  game has seen in a safe place.
* With `PatientHost = FALSE` (`equip.c:197`, a second request finds the first
  announced and carries it out at once, whatever Link is doing):
  asked for a bomb twice while the hookshot has hooked something, Link holds the
  bomb and keeps the hookshot, which kills itself, as what pulls him.  Asked twice while a lift
  waits for his hands, the carrying flag of the lift refuses the bomb and puts
  the hands in the state of carrying, where the pointer to the actor held, NULL, is
  used (`HoldIsMutual`).
* `Player_ActionHandler_2` allows a lift with the hookshot in hand (`z_player.c:7417`),
  asks for it to be put away and sets the carrying flag.  `Player_Action_WaitForPutAway`,
  which is to let the put-away complete, takes flag and hookshot together for an actor
  that is carried (`z_player.c:10154`) and ends the wait at once; `func_8083A0F4` then
  finds the hands full and drops the lift.  Link is free again, with the hookshot in
  hand and about to be put away.
* A fall or a hit between the button that starts a lift and the lift itself meets the
  carrying flag (`player.h:719`) while the hookshot is still in hand, and
  `func_80832440` clears the flag only when nothing is held.  So the flag stays, also
  when the hookshot has been destroyed a few ticks later, until the next fall or
  hit.  The run and the proofs contain this (`Leftover` in section 6).  A bomb
  asked for meanwhile is refused by the flag (`Player_InitExplosiveIA`), the hands go
  into the state of carrying, and NULL is used at `z_player.c:3302`.  That is why
  `HandsAtRest` asks that the flag means a load.  It asks more than a host can
  see: `OoTLinkState` has the flag (`stateFlags1`), but not the actor held.  A host is
  on the safe side if it asks for a bomb only while the flag is clear.
* With a limit of explosives above the room there is (`MaxExplosives = 3`, `Slots = 2`),
  which `BombsFit` of section 6 excludes, a bomb asked for may find no place.  If
  Link starts a lift in the tick in which he draws it, the hands go into the state of carrying with the flag set and nothing
  held, and the next tick uses NULL (`z_player.c:3302`).  It takes a
  full actor list, a loose bomb in reach and a request that a hit has delayed.
* A hookshot for which there is no room in the actor list leaves Link with the
  hookshot as his item and nothing in his hand; `HandsComeBack` asks for one that
  exists.

## 6. Proofs

`EngineContexts_proofs` proves, for every set of threads and engines and both
builds, from the module's assumptions about its constants (that `NoEngine` is no
engine, `NoImage` no image and `Absent` no count of ticks; that a build is
multi-instance or not; and that the bound on ticks is a number):

* `TypeCorrect`, `GuardIsExclusive`: `TypeOK` and `GuardExclusion` always hold
* `ImagesAreTheirHandles`, `BootIsClean`, `HookIsForItsCaller`, `NothingIsLost`:
  so do `ImagesMatchHandles`, `CleanBoot`, `HookReachesCaller` and
  `NothingDanglesOrLeaks`
* `SwapRefinesIsolation == Spec => EnginesAreIsolated`, the refinement of
  `IsolatedEngines`
* `SuccessIsTruthful == Spec => OkIsTruthful`

`GuardExclusion` is not inductive by itself.  A caller that publishes the manager
resets the guard; that is harmless only because nobody can be past the
test-and-set of a manager that is not there (`NoneBeforeManager`).  And a step of
a call keeps the images typed only if the call knows its engine, which is so
once it is past the handle check or the allocation (`CallHasEngine`).  The
inductive invariant is

    GuardInv == TypeOK /\ GuardExclusion /\ NoneBeforeManager /\ CallHasEngine

`TypeStep` proves its first part action by action, with one lemma for each shared
piece (`GoTo`, `Return`, `Unguard`, `Activate`, `AbandonCreate`).  For the second,
`StepCrosses` sorts the steps of every action into three kinds: the caller
stays outside with the guard untouched, it enters by taking a free guard, or it
was inside and either stays or leaves with the guard cleared; `ExclusionStep`
then argues about the kinds alone.  `AuxiliaryStep` does the other two parts,
`GuardInductive` puts them together.

The properties of the swap need to know what the globals are at every label of
every call:

    SwapInv == GuardInv /\ HookBelow /\ CallFits /\ OwnerExact /\ Shape /\ Phases

`CallFits` says which labels an entry point passes and what it knows there,
`HookBelow` that a callback calls only while its thread runs it, `OwnerExact` whose
engine a thread has made its own, `Shape` that images are registered under
themselves over an untouched baseline.  `Phases` is the argument: while nobody
holds the guard, and in every call but a creation, the globals are `Settled` (they
are those of the active context, and everything that is allocated can be
destroyed); a creation has an `Embryo`, an engine that is allocated over the
baseline, that no list knows, and whose core comes up before the capture.  Because
the guard is exclusive it is enough to say this of the caller that is inside, and
a step of a caller outside touches none of it.  The failure exits of a creation
are where it is needed most: `NothingIsLost` follows because `AbandonCreate` takes
an embryo back to `Settled`.  The refinement maps a handle to the ticks of its own
simulation, wherever they are (in the globals, or in a saved image): `StoresSimulate` shows
that a swap moves them without changing them, a tick changes those of the active
engine alone, and a creation or destruction shows at the one step that registers
or discards the image.

`HostActors_proofs` proves, of the session that `HostActors` extends, for every
step, tolerance and number of substeps, any buttons and any worlds

* `SessionTypes`, `FramesAreCurrent`, `ClockIsExact`: `TypeOK`, `PublishedIsCurrent`
  and `StepsAreExact` always hold
* `PressesSurvive`, `ItemsObeyTheGame`: the two step properties

The invariant is `SessionInv`.  The clock is the hard part, since `advance` is interrupted by its own substeps.
`OwedOnClock` says what is true in between: there is a Link, and the ticks that are
still owed are just those that the accumulator, with the tolerance, has whole
steps for:

    Step * Owed <= accumulator + Tolerance < Step * (Owed + 1)

The cap is what makes the bounds true after a stall.  `NoneOwed` then turns the
loop's condition into `Owed = 0` and `DivMod` starts it.

and of the actors in it, for tables, a pool and a ring of any size

* `ActorTypes`, `HandlesStayExact`, `NothingIsInherited`: `ActorTypeOK`,
  `HandlesAreExact` and `SuccessorsInheritNothing` always hold
* `OnlyAgeLeavesOrphans`: `NoNewOrphans`
* `ActorsRefineHosted == ActorSpec => ActorsAreHosted`, the refinement of
  `HostedActors`

A handle is a slot and a token, so that it is enough that a slot in use points to
an actor in use with its token (`Owned`), that no two slots in use share a token
(`Apart`), and that the next token is unknown to the host (`Known`).
`NoLinkNoActors` is there for Link's creation, which destroys the native actors
without a look at the tables.  That the code's search for the first free slot
finds one is an argument by well-founded induction on the numbers of the slots
(`LeastExists`).

`AInv`, the invariant made of these, says that the tables are right about the pool.
It is not enough for the ring, since a contact knows its actor only by his place
there.  `RingInv` adds what the pool must be right about:

| part | what it says |
| --- | --- |
| `Numbered` | every native actor, also an orphan, has the token of a handle that was given out, and no two have the same |
| `AllHeld` | every slot in use is a handle the host holds: the other direction of `HandlesAreExact` |
| `Passive` | a target has no hurt volume, so that no contact is about one |
| `Ring` | the ring is within its capacity, and each contact is `Good`: of an actor in use, with his token, and none that is a target |

A contact stays good as long as its actor stays (`Stays`), and `PurgedRing` shows
that when some go, what is left of the ring is about the others.  In the refinement
(`RingStep`) each call is one step of `HostedActors`, or none.  `Numbered` is what
makes a purge by places of the pool one by tokens (`PurgedMail`), so that no other
live actor loses a contact, and `PollableIsLive` says that the contacts that a poll
skips are just those of no live handle.  In a removal, `lost` are the tokens of all
that left the pool, orphans among them.  The ring is filtered by `Picked`, which
takes a set of places, because the provers cannot instantiate the operator that
`SelectSeq` takes.  That a finite set can be put in order (`AscendingExists`), and
that all the places of a sequence pick the whole of it (`AscendingAll`), are
arguments from the least counterexample.

`WorldEvents_proofs` proves for any capacity, width and places

* `EventTypes`, `EventsInOrder`, `OneEventPerStay`

Order is an invariant by itself; that a stay makes one event is not.  The
invariant adds that an announced stay is the contact the game still knows
(`AnnouncedIsNoted`), so that the next tick does not announce it again, and that a
Link seen in a safe place is in contact with nothing (`SafeIsNoted`), so that the
next entry is new.

`TextureCache_proofs` proves for any scenes, textures, and sizes, from the
assumption `PalettesLast`

* `CacheTypes`, `DrawingsAreRight`, `HostCopiesAreRight`

The idea is that the key of an entry says which files its pixels come from, given
the present world (`PixelsFit`: every entry is what its key means now), and that
the segments agree with the world, the age and the room number the cache is told
while it is in use (`SegmentsFit`).  A hit then has the pixels that a miss would
decode.  Evictions are what keeps `PixelsFit` true when the world changes; they
leave Link's triangles alone (`FrameLasts`).  Revisions only grow
(`RevisionsPast`), also over a restart.  `PalettesLast` says that a palette is in a
file that lasts as long as that of its texels.  It is needed: entries are keyed
by the address of their texels alone, and evicted by it.

`EnemyBgm_proofs` proves, for all players and sequences,

* `DriverIsRight == BgmPlayers \subseteq {DefaultPlayer}` implies
  `Spec => []ThemeIsKnown`

The hypothesis is that the driver keeps to one player, as it does under
`oot_engine_set_enemy_bgm`; section 4 says what happens without it.  `ThemeIsKnown`
says nothing while the driver is not trusted, so that it cannot show that a tick
without an enemy makes it right: such a tick stops the theme only if `active`.
The invariant adds that the theme is never on without `active`, which no
interference can break, since a host and a restart end themes and never start
one.  `TickKeeps` splits a tick into starting, stopping and keeping the theme;
`HostKeeps`, `FadeKeeps`, `RestartKeeps` and `SetKeeps` are the other actions.

`SequencePlayer_proofs` proves for any number of players, channels, layers and
voices

* `TypeCorrect`, `NoNoteHangs`, `StoppedStaysSilent`: `TypeOK`, `VoicesAreTended` and
  `StoppedIsSilent` always hold
* `PlayersRefineSimple == Spec => PlayersAreSimple`, the refinement of `AudioPlayers`

`VoiceInv` adds two things.  A layer and its voice know each other only by a number
and a serial, and after a theft the layer keeps both, so that it could take the
thief's note for its own if it remembered a serial that has not been given out
yet (`SerialsAreOld`).  A silenced player stays silent because it does not run
(`SilencedAreIdle`), and only a running layer starts a note.  `DecayStep` says once
what ending a set of layers, with whatever becomes of their channels and players,
must leave alone; every way to end something is an instance of it.  That a note
finds a voice in the pool is again `LeastExists`, on the age of the voices.
For the refinement, `Views` is what a host sees of the players.  An action leaves it
alone (`SameViews`) or changes it for one player and as a step of `AudioPlayers` does
(`OneView`, with a lemma such as `HostSeen` or `FrameSeen` for each kind of step).

`DynamicCollision_proofs` proves for tables, generations and token counters of any
size and any poses and surfaces

* `TypeCorrect`, `HandlesSurvive`, `CollisionFollows`: `TypeOK` with the budget of
  surfaces, `TablesAgree` and `GeometryFollows` always hold
* `CarriesWhole == Spec => CarryIsWhole`

`PlatformInv` pairs handles with objects (`HandlesReach`) and objects with background
actors (`Registered`), both in either direction, so that `CountsAgree` can turn the
pairings into bijections: the tables are as full as each other, and an object that
finds a slot also finds a bg actor.  `PosesKept` explains `GeometryFollows`: the
previous pose is that of the last tick, so that the comparison by which the code
decides to lay an object out anew is right about every object that has moved at
most once since then.
`StandsOn` and `TokensTell` carry `CarryIsWhole` over deletions and reuse of slots.
`NumbersDiffer` shows that the new world's numbering by rank is injective.  The
budget is a sum over the slots, a recursive function: `SurfacesAdd` shows that it
exists, and `OneSlotChanges` that it changes by what one slot adds, both from the
least slot at which they could fail, since induction theorems are out of reach.

`HeldItems_proofs` proves for any number of actors, any limit of explosives and any
fuse, blast, reach and flight

* `TypeCorrect`: `TypeOK` always holds
* `HoldIsKeptMutual` and `PutAwayIsKeptComplete`: if `PatientHost`, then
  `Spec /\ []BombsFit` implies `[]HoldIsMutual` and `[]PutAwayIsComplete`

The hypotheses are those without which the code does something else, as section 5
tells: a host that asks for an item only when the one before has been dealt with and
no interrupted lift has left its flag, and (`BombsFit`) an actor list that, when the host has its turn, is not full but of bombs: a bomb that
`Player_UseItem` does not refuse finds a place.  The host may fill the list with
bombs of its own, hookshots and arrows may find no place, and within a tick the list
may fill up with anything.  `WideListFits` says when this is so: if there is room for
`MaxExplosives` bombs beside all that are no bombs.  In the game the limit is 3, the
list has room for 200, and beside the bombs there are Link, 64 host actors at most,
the hookshot and the arrows of the last seconds.  With less room a lift may end with NULL in
Link's hands, as section 5 tells.

`HandsAreKept` is the invariant behind both, `Hands`.  Its parts are what the
functions of `z_player.c` take for granted of each other:

| part | what it says |
| --- | --- |
| `Pointers`, `OneHook`, `Mutual` | where Link's pointers lead, that one hookshot at most believes in him, and who believes it is held |
| `OutIsQuiet` | while the hookshot is on its way the hands do nothing else |
| `Holding` | which actor goes with which item |
| `Drawn`, `Nocked` | the bow string, the aiming that goes with it, and why a bow raised again finds no second arrow |
| `Stance` | what the carrying flag means: a load (`Settled`), an intention while an item is put away (`PuttingAway`) or while Link reaches (`Reaching`), or what an interrupted lift left over (`Leftover`) |
| `NoOffer` | hands that are ready for a bomb are offered none |
| `Visits` | an actor that has still to be visited in this tick is there, and one that was killed is let go of |

The functions are operators from a world to a world, and so is the proof laid out:
each operator is typed, then shown to keep `Fit`, or `Sound`, which adds that nothing
dead is held or offered (`Lively`).  Actors die after `Player_Update` has run, so
that `Lively` does not last from tick to tick; `DropDead`, with which the next
update begins, makes it true again.  The case that decided the form of `NoOffer` is a
bomb that explodes in Link's hand while the host asks for another one.

**Only model-checked.**  Liveness is beyond the prover: `GuardIsReleased`,
`FullQueueIsRetried`, `FadeOutEnds`, `NothingStaysOut`.  Every other property of the
passing runs, the three refinements among them, is stated by a theorem.

## 7. Not modelled

* Numeric and data paths: decompression, relocation and parsing of ROM data, the
  rest of the display lists, the mixer, vertex transformation, the player's
  physics.  They are sequential functions of their input; unit tests and the
  fuzzers reach them.  Together with the headers, the tables and the converted
  data of the vendored game they are most of the repository's lines.
* Setters of the wrapper that only pass a value on (health, magic, equipment,
  invincibility).
* Of the audio: IO ports, volumes, pitch, pan, envelopes, the catalogue, the
  extraction of samples and the mixer.
* Of the hands: the boomerang, the shield, the sword, swimming, the items that
  spawn nothing, and Link's age.  Putting down and throwing are one action
  (`release`), as they treat the pointers alike.
* Of the texture cache: other engines of the process that decode in between, and
  the wrap of a revision after 2^32 decodings.
* The edge detection of the pad, beyond `pad` in `EngineSession`.
* The vendored game beyond the background actors, the attention pointer, the
  carrying of Link, his hands and what comes from them.
* Bindings, tools, examples and tests: they are not part of the library.

## 8. Plan

The order follows the importance of the behaviour.

1. *(done)* `EngineContexts` with `IsolatedEngines`: every other call depends on
   it.  Types and guard are proved.
2. *(done)* `EngineSession`, then `HostActors` on top of it; `WorldEvents`;
   `DynamicCollision`; `SequencePlayer` with `AudioPlayers`; `EnemyBgm`, with the
   proof of `DriverIsRight`.
3. *(done)* `HeldItems` and `TextureCache`, which had no model.
4. *(done)* Proofs of `EngineSession`, `HostActors`, `WorldEvents` and
   `TextureCache`.
5. *(done)* Proofs of `EngineContexts` beyond the guard, `SequencePlayer` and
   `DynamicCollision`, with the refinements of `IsolatedEngines` and `AudioPlayers`,
   and of `HeldItems`; `HostedActors` and its refinement, with the ring of contacts.
   *Next proof:* the bound on the arrows that are out, by the ticks they live, from
   which the hypothesis of `WideListFits` follows.
6. *Next models.*  Edge detection and the latch up to the native pad
   (`liboot.c`), and the replacement of a scene and its rooms in the steps in
   which the code commits it (`scene.c`).  A composition of `WorldEvents` and
   `DynamicCollision` with `EngineSession`, as `HostActors` is composed with it.
   Abstract specifications: a bounded queue of stays for `WorldEvents`, and a map
   from handles to poses for `DynamicCollision`.
