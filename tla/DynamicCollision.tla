--------------------------- MODULE DynamicCollision ---------------------------
(***************************************************************************)
(* Moving platforms and doors of the host.  The wrapper keeps a table of   *)
(* handles in front of the objects of the core, and every object is        *)
(* registered as a background actor ("bg actor") of the collision context  *)
(* of the game, which is thrown away whenever the world is replaced.       *)
(*                                                                         *)
(* A bg actor has two poses.  The current one is refreshed by every call   *)
(* that updates the context; the previous one at the end of a tick, and    *)
(* Link is carried from the one to the other.  The game also compares them *)
(* to decide whether the triangles must be laid out again.                 *)
(*                                                                         *)
(* There are as many bg actors as objects (50 of each), so registering an  *)
(* object never fails.  The budget of vertices is the budget of triangles  *)
(* over again and left out.  A call that is refused without effect is a    *)
(* stuttering step.                                                        *)
(***************************************************************************)
EXTENDS Integers, FiniteSets, FiniteSetsExt

CONSTANTS
  MaxObjects,      \* OOT_DYNAMIC_COLLISION_MAX_OBJECTS and BG_ACTOR_MAX.
  MaxSurfaces,     \* OOT_DYNAMIC_COLLISION_MAX_SURFACES, for all objects.
  MaxGeneration,   \* Generations of the core wrap to 1 after it (0xFFFFFF).
  MaxToken,        \* The last token the wrapper's counter gives out.
  Poses,           \* Values of OoTDynamicCollisionTransform.
  Sizes            \* Numbers of surfaces the host asks for.

ASSUME BoundsAssumption ==
  /\ {MaxObjects, MaxSurfaces, MaxGeneration, MaxToken} \subseteq Nat \ {0}
  /\ Sizes \subseteq Nat \ {0}

VARIABLES
  worldLoaded,     \* engine->worldLoaded.
  table,           \* engine->dynamicCollisions.
  objects,         \* s_dynamic.
  bgActors,        \* play->colCtx.dyna.bgActors with their flags.
  nextToken,       \* manager->nextHandleNamespace.
  floor,           \* Link's floorBgId while he is grounded, see below.
  history          \* What has happened, see Init; the code does not keep it.

vars == <<worldLoaded, table, objects, bgActors, nextToken, floor, history>>

Slots == 1 .. MaxObjects
BgIds == 1 .. MaxObjects
NoLink == -1
Ground == 0          \* BGCHECK_SCENE, or in the air.
NoPose == "none"

NoEntry == [active |-> FALSE, native |-> <<1, 0>>, token |-> 0]
NoObject(generation) ==
  [active |-> FALSE, generation |-> generation, bgId |-> 0, enabled |-> FALSE,
   pose |-> NoPose, size |-> 0, carries |-> FALSE]
\* laid: the pose at which its triangles have been laid out in the lookup.
NoBgActor == [object |-> 0, prev |-> NoPose, cur |-> NoPose,
              disabled |-> FALSE, laid |-> NoPose]
NotCarried == [by |-> 0, from |-> NoPose, to |-> NoPose]

Init ==
  /\ worldLoaded = FALSE
  /\ table = [s \in Slots |-> NoEntry]
  /\ objects = [s \in Slots |-> NoObject(0)]
  /\ bgActors = [b \in BgIds |-> NoBgActor]
  /\ nextToken = 0
  /\ floor = NoLink
  /\ history = [who |-> [s \in Slots |-> 0],         \* Token of the object.
                seen |-> [s \in Slots |-> NoPose],   \* Pose in the last tick.
                moved |-> {},     \* Objects moved since the last tick.
                twice |-> {},     \* Objects ever moved twice between ticks.
                standing |-> 0]   \* Token of the object Link stands on.

-----------------------------------------------------------------------------
(***************************************************************************)
(* The game's collision context.                                           *)
(***************************************************************************)
\* DynaPoly_UpdateContext.  A bg actor that has not moved since the last tick
\* keeps the triangles it has, unless the lookup has been invalidated.
Refreshed(b, bgs, objs, invalid) ==
  LET bg == bgs[b]
      pose == objs[bg.object].pose
  IN  IF bg.object = 0 THEN NoBgActor
      ELSE [bg EXCEPT !.cur = pose,
                      !.laid = IF ~bg.disabled /\ (invalid \/ bg.prev # pose)
                               THEN pose ELSE bg.laid]

UpdateContext(bgs, objs, invalid) ==
  [b \in BgIds |-> Refreshed(b, bgs, objs, invalid)]

\* DynaPoly_UpdateBgActorTransforms.
UpdateBgActorTransforms(bgs) == [b \in BgIds |-> [bgs[b] EXCEPT !.prev = bgs[b].cur]]

\* DynaPoly_SetBgActor, of the object s at pose p.  The code makes the
\* previous pose a different one; the lookup is invalidated anyway.
SetBgActor(s, p, enabled) ==
  [object |-> s, prev |-> p, cur |-> p, disabled |-> ~enabled, laid |-> NoPose]

FreeBgIds == {b \in BgIds : bgActors[b].object = 0}

(***************************************************************************)
(* Pieces of the calls.                                                    *)
(***************************************************************************)
Live == {s \in Slots : objects[s].active}
Entries == {s \in Slots : table[s].active}

\* dynamic_find, after dynamic_collision_find has found the entry e.
Found(e) ==
  LET native == table[e].native
  IN  {s \in Live : native = <<s, objects[s].generation>>}

\* dynamic_totals: the slots are counted one after the other.
Surfaces(objs) ==
  LET upTo[n \in 0 .. MaxObjects] ==
        IF n = 0 THEN 0
        ELSE upTo[n - 1] + (IF objs[n].active THEN objs[n].size ELSE 0)
  IN  upTo[MaxObjects]

\* A mistake: generations do not wrap.
Fits(size) == Surfaces(objects) + size <= MaxSurfaces
Unwrapped(generation) == generation + 1
NextGeneration(generation) ==
  IF generation + 1 > MaxGeneration THEN 1 ELSE generation + 1

FirstGeneration(s) ==
  IF objects[s].generation = 0 THEN 1 ELSE objects[s].generation

\* History of an object that leaves its slot.
Forgets(s) ==
  [history EXCEPT !.who[s] = 0, !.seen[s] = NoPose,
                  !.moved = @ \ {s}, !.twice = @ \ {s},
                  !.standing = IF @ = history.who[s] THEN 0 ELSE @]

\* The slot's memory goes, its generation moves on: dynamic_slot_free.
Freed(s, generation) == [objects EXCEPT ![s] = NoObject(NextGeneration(generation))]

-----------------------------------------------------------------------------
(***************************************************************************)
(* The calls.                                                              *)
(***************************************************************************)
Published(e, s, token) ==
  [table EXCEPT ![e] = [active |-> TRUE, token |-> token,
                        native |-> <<s, FirstGeneration(s)>>]]

\* The core has made the object, the wrapper has a token for its handle.
CreateSucceeds(e, s, size, p, carries) ==
  LET b == Min(FreeBgIds)
      objs == [objects EXCEPT ![s] =
                 [active |-> TRUE, generation |-> FirstGeneration(s),
                  bgId |-> b, enabled |-> TRUE, pose |-> p, size |-> size,
                  carries |-> carries]]
      bgs == [bgActors EXCEPT ![b] = SetBgActor(s, p, TRUE)]
      token == nextToken + 1
  IN  /\ Fits(size) /\ nextToken < MaxToken
      /\ objects' = objs
      /\ bgActors' = [UpdateContext(bgs, objs, TRUE) EXCEPT ![b].prev = p]
      /\ nextToken' = token
      /\ table' = Published(e, s, token)
      /\ history' = [history EXCEPT !.who[s] = token, !.seen[s] = p]

\* The object is over the budget, or its geometry or transform is not valid,
\* which the core finds out after it has begun to fill the slot.
CreateRefused(s) ==
  /\ objects' = Freed(s, FirstGeneration(s))
  /\ UNCHANGED <<table, bgActors, nextToken, history>>

\* The counter of tokens is at its limit: the wrapper deletes what the core
\* has made.
DeletesNative(s, size, p) ==
  /\ objects' = Freed(s, FirstGeneration(s))
  /\ bgActors' = UpdateContext(bgActors, objects, TRUE)

CreateWithoutToken(s, size, p) ==
  /\ Fits(size) /\ nextToken = MaxToken
  /\ DeletesNative(s, size, p)
  /\ UNCHANGED <<table, nextToken, history>>

\* oot_engine_dynamic_collision_create.
Create(size, p, carries) ==
  /\ worldLoaded /\ Entries # Slots /\ Live # Slots
  /\ LET e == Min(Slots \ Entries)
         s == Min(Slots \ Live)
     IN  \/ CreateSucceeds(e, s, size, p, carries)
         \/ CreateRefused(s)
         \/ CreateWithoutToken(s, size, p)
  /\ UNCHANGED <<worldLoaded, floor>>

\* oot_engine_dynamic_collision_set_transform.  A mistake: the previous pose
\* follows at once.
MovedAtOnce(objs) == UpdateBgActorTransforms(UpdateContext(bgActors, objs, FALSE))
Moved(objs) == UpdateContext(bgActors, objs, FALSE)

SetTransform(e, p) ==
  /\ e \in Entries
  /\ \E s \in Found(e) :
       LET objs == [objects EXCEPT ![s].pose = p]
       IN  /\ objects' = objs
           /\ bgActors' = Moved(objs)
           /\ history' = [history EXCEPT
                            !.moved = @ \cup {s},
                            !.twice = @ \cup (history.moved \cap {s})]
  /\ UNCHANGED <<worldLoaded, table, nextToken, floor>>

\* oot_engine_dynamic_collision_set_enabled.  A mistake: switching an object
\* does not invalidate the lookup.
LeavesLookup == FALSE
InvalidatesLookup == TRUE

SetEnabled(e, on) ==
  /\ e \in Entries
  /\ \E s \in Found(e) :
       LET objs == [objects EXCEPT ![s].enabled = on]
           bgs == [bgActors EXCEPT ![objects[s].bgId].disabled = ~on]
       IN  /\ objects' = objs
           /\ bgActors' = UpdateContext(bgs, objs, InvalidatesLookup)
  /\ UNCHANGED <<worldLoaded, table, nextToken, floor, history>>

\* oot_engine_dynamic_collision_delete.  Link's floorBgId keeps its value.
Delete(e) ==
  /\ e \in Entries
  /\ \E s \in Found(e) :
       LET bgs == [bgActors EXCEPT ![objects[s].bgId] = NoBgActor]
       IN  /\ objects' = Freed(s, objects[s].generation)
           /\ bgActors' = UpdateContext(bgs, objects, TRUE)
           /\ history' = Forgets(s)
  /\ table' = [table EXCEPT ![e].active = FALSE, ![e].native = <<1, 0>>]
  /\ UNCHANGED <<worldLoaded, nextToken, floor>>

\* The load of a static world or of a scene: the collision context starts from
\* nothing, the actors forget their floors, and every object is registered
\* again, in the order of the slots.  A mistake: it keeps its old number.
BgIdKept(s) == objects[s].bgId
BgIdOf(s) == Cardinality({t \in Live : t <= s})

Rebound ==
  [s \in Slots |-> IF s \in Live THEN [objects[s] EXCEPT !.bgId = BgIdOf(s)]
                   ELSE objects[s]]

ReplaceWorld ==
  LET fresh == [b \in BgIds |->
                  LET s == {t \in Live : Cardinality({u \in Live : u <= t}) = b}
                  IN  IF s = {} THEN NoBgActor
                      ELSE SetBgActor(Min(s), objects[Min(s)].pose,
                                      objects[Min(s)].enabled)]
  IN  /\ worldLoaded' = TRUE
      /\ objects' = Rebound
      /\ bgActors' = UpdateBgActorTransforms(UpdateContext(fresh, objects, TRUE))
      /\ floor' = IF floor = NoLink THEN NoLink ELSE Ground
      /\ history' = [history EXCEPT
                       !.seen = [s \in Slots |-> objects[s].pose],
                       !.moved = {}, !.twice = {}, !.standing = 0]
      /\ UNCHANGED <<table, nextToken>>

\* Handles of other kinds take tokens of the same counter.
TakeToken ==
  /\ nextToken < MaxToken
  /\ nextToken' = nextToken + 1
  /\ UNCHANGED <<worldLoaded, table, objects, bgActors, floor, history>>

(***************************************************************************)
(* Link.                                                                   *)
(***************************************************************************)
\* DynaPolyActor_TransformCarriedActor, for the floor of the last tick.
Carried ==
  LET bg == bgActors[floor]
  IN  IF \/ floor \notin BgIds \/ bg.object = 0
         \/ ~objects[bg.object].carries
      THEN NotCarried
      ELSE [by |-> history.who[bg.object], from |-> bg.prev, to |-> bg.cur]

TickEnds(standing) ==
  /\ bgActors' = UpdateBgActorTransforms(bgActors)
  /\ history' = [history EXCEPT !.seen = [s \in Slots |-> objects[s].pose],
                                !.moved = {}, !.standing = standing]

\* A tick: Link is carried (Carried), then looks for the floor under him.
Tick(f) ==
  /\ floor # NoLink
  /\ f \in {Ground} \cup {b \in BgIds : bgActors[b].object # 0 /\ ~bgActors[b].disabled}
  /\ floor' = f
  /\ TickEnds(IF f = Ground THEN 0 ELSE history.who[bgActors[f].object])
  /\ UNCHANGED <<worldLoaded, table, objects, nextToken>>

\* A tick of a frozen Link: only the poses move on.
FrozenTick ==
  /\ floor # NoLink
  /\ TickEnds(history.standing)
  /\ UNCHANGED <<worldLoaded, table, objects, nextToken, floor>>

\* oot_link_set_pose leaves floorBgId alone.
SetPose ==
  /\ floor # NoLink
  /\ history' = [history EXCEPT !.standing = 0]
  /\ UNCHANGED <<worldLoaded, table, objects, bgActors, nextToken, floor>>

CreateLink ==
  /\ floor = NoLink /\ worldLoaded
  /\ floor' = Ground
  /\ UNCHANGED <<worldLoaded, table, objects, bgActors, nextToken, history>>

DeleteLink ==
  /\ floor # NoLink
  /\ floor' = NoLink
  /\ history' = [history EXCEPT !.standing = 0]
  /\ UNCHANGED <<worldLoaded, table, objects, bgActors, nextToken>>

Next ==
  \/ \E size \in Sizes, p \in Poses, carries \in BOOLEAN : Create(size, p, carries)
  \/ \E e \in Slots : \/ \E p \in Poses : SetTransform(e, p)
                      \/ \E on \in BOOLEAN : SetEnabled(e, on)
                      \/ Delete(e)
  \/ ReplaceWorld \/ TakeToken
  \/ \E f \in BgIds \cup {Ground} : Tick(f)
  \/ FrozenTick \/ SetPose \/ CreateLink \/ DeleteLink

Spec == Init /\ [][Next]_vars

-----------------------------------------------------------------------------
(***************************************************************************)
(* Properties.                                                             *)
(***************************************************************************)
\* The type of the variables the code keeps; the objects together stay in the
\* fixed triangle list of the game.
TypeOK ==
  /\ worldLoaded \in BOOLEAN
  /\ table \in [Slots -> [active : BOOLEAN, token : 0 .. MaxToken,
                          native : Slots \X (0 .. MaxGeneration)]]
  /\ objects \in [Slots -> [active : BOOLEAN, generation : 0 .. MaxGeneration,
                            bgId : BgIds \cup {0}, enabled : BOOLEAN,
                            pose : Poses \cup {NoPose}, size : Sizes \cup {0},
                            carries : BOOLEAN]]
  /\ bgActors \in [BgIds -> [object : Slots \cup {0}, prev : Poses \cup {NoPose},
                             cur : Poses \cup {NoPose}, disabled : BOOLEAN,
                             laid : Poses \cup {NoPose}]]
  /\ nextToken \in 0 .. MaxToken
  /\ floor \in BgIds \cup {Ground, NoLink}
  /\ Surfaces(objects) <= MaxSurfaces

\* A handle the host holds always reaches the object it was made for, although
\* the core counts its generations on its own and lets them wrap, and every
\* object of the core can be reached: none is left behind when the counter of
\* tokens runs out.  And "Handles survive static-world/scene replacement, and
\* are rebound": after every call each object is one bg actor of the context
\* that is live, enabled as the host asked, and no bg actor is without its
\* object.
TablesAgree ==
  /\ \A e \in Entries : \E s \in Found(e) : history.who[s] = table[e].token
  /\ Cardinality(Live) = Cardinality(Entries)
  /\ \A s \in Live :
       /\ objects[s].bgId # 0
       /\ bgActors[objects[s].bgId].object = s
       /\ bgActors[objects[s].bgId].disabled = ~objects[s].enabled
       /\ bgActors[objects[s].bgId].cur = objects[s].pose
  /\ Cardinality(FreeBgIds) + Cardinality(Live) = MaxObjects

LaidOut(s) == bgActors[objects[s].bgId].laid = objects[s].pose

\* An enabled object collides where the host has put it, if the host has not
\* moved it twice between two ticks.
GeometryFollows ==
  \A s \in Live \ history.twice : objects[s].enabled => LaidOut(s)

\* The header: "Geometry ... is transformed by OoTDynamicCollisionTransform".
\* So an enabled object collides where the host has put it.
GeometryIsTransformed ==
  \A s \in Live : objects[s].enabled => LaidOut(s)

\* "Carry flags move Link with a ... platform": a tick carries Link by the
\* whole way the object he stands on has gone since the last tick, however
\* many calls it took.
CarryIsWhole ==
  [][\A s \in Live :
       (\E f \in BgIds \cup {Ground} : Tick(f))
         /\ objects[s].carries /\ history.who[s] = history.standing =>
       Carried = [by |-> history.who[s], from |-> history.seen[s],
                  to |-> objects[s].pose]]_vars
=============================================================================
