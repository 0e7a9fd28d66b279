---------------------------- MODULE TextureCache ----------------------------
(***************************************************************************)
(* The cache of decoded textures (src/gfx_adapter.c) between the two       *)
(* display list walks that fill it, the one of a scene's rooms             *)
(* (src/scene.c) and the one of Link, and a host that keeps copies.        *)
(*                                                                         *)
(* A display list names texels and palette by a segment and an offset, and *)
(* the file behind a segment changes: 6 is Link's object at his age, 2 the *)
(* scene, 3 one room after the other.  Pixels are represented by what they *)
(* were decoded from: a texture, the file of its texels and the file of    *)
(* its palette.                                                            *)
(***************************************************************************)
EXTENDS Integers

CONSTANTS
  Scenes,       \* scenes of the ROM
  Rooms,        \* each of them has the rooms 1 .. Rooms
  Textures,     \* materials: [data, pal, at], segments of texels and palette, offset
  Slots,        \* MAX_TEXTURES
  MaxRevision   \* bound of the exploration: textures ever decoded

LinkSegments == {4, 6}
SceneSegments == {2, 3, 4}
Segments == LinkSegments \cup SceneSegments
NoPalette == 0
Adult == 0
Child == 1
Ages == {Adult, Child}

(* The files: a scene's own file has number 0, its rooms follow.           *)
Keep == <<"keep", 0>>
Object(age) == <<"object", age>>
NoFile == <<"none", 0>>
Files == ({"keep", "object", "none"} \cup Scenes) \X (0 .. Rooms + 1)

(* A palette lives at least as long as the texels it is used with: cache   *)
(* entries are keyed and evicted by the address of their texels alone.     *)
ASSUME PalettesLast ==
  \A t \in Textures :
    \/ t.data = 6 /\ t.pal \in {NoPalette, 4, 6}
    \/ t.data = 4 /\ t.pal \in {NoPalette, 4}
    \/ t.data = 2 /\ t.pal \in {NoPalette, 2, 4}
    \/ t.data = 3 /\ t.pal \in {NoPalette, 2, 3, 4}
ASSUME SizesAreNatural ==
  /\ Rooms \in Nat \ {0} /\ Slots \in Nat /\ MaxRevision \in Nat
  /\ Scenes \cap {"keep", "object", "none"} = {}

Slot == 1 .. Slots
Pixels == [tex : Textures, data : Files, pal : Files]
Entry == [tex : Textures, age : Ages, gen : 0 .. Rooms, revision : 1 .. MaxRevision, pixels : Pixels]
Free == [revision |-> 0]
Triangle == [slot : Slot, pixels : Pixels]
NoCopy == [revision |-> 0]
Copy == [revision : 1 .. MaxRevision, pixels : Pixels]

VARIABLES
  cache,      \* sTexCache, slot -> Entry or Free
  count,      \* sTexCount
  roomGen,    \* sRoomGen
  segment,    \* sSegmentSpans: segment -> file
  linkAge,    \* gSaveContext.save.linkAge
  world,      \* s_scene: [scene, room], room 0 for all rooms at once
  walk,       \* the display lists being interpreted: [of, pass, room]
  rooms,      \* the scene geometry, as the textures of its triangles
  frame,      \* Link's geometry, likewise
  revisions,  \* nextTextureRevision of the process
  host        \* what the host has uploaded, slot -> Copy or NoCopy
vars == <<cache, count, roomGen, segment, linkAge, world, walk, rooms, frame, revisions, host>>

NoScene == [scene |-> "none", room |-> 0]
Idle == [of |-> "nothing", pass |-> 0, room |-> 0]
Live == {i \in Slot : cache[i] # Free}

AtBoot ==
  [s \in Segments |-> CASE s = 4 -> Keep [] s = 6 -> Object(Adult) [] OTHER -> NoFile]

Init ==
  /\ cache = [i \in Slot |-> Free] /\ count = 0
  /\ roomGen = 0
  /\ segment = AtBoot
  /\ linkAge = Adult
  /\ world = NoScene
  /\ walk = Idle
  /\ rooms = {} /\ frame = {}
  /\ revisions = 0
  /\ host = [i \in Slot |-> NoCopy]

-----------------------------------------------------------------------------
(***************************************************************************)
(* select_texture.                                                         *)
(***************************************************************************)
FileOf(seg) == IF seg = NoPalette THEN NoFile ELSE segment[seg]
Meant(t) == [tex |-> t, data |-> FileOf(t.data), pal |-> FileOf(t.pal)]

(* Only room files alias each other, so only their textures have a room.   *)
NoGen(t) == 0
GenOf(t) == IF t.data = 3 THEN roomGen ELSE 0

Hits(t) == {i \in Live : cache[i].tex = t /\ cache[i].age = linkAge /\ cache[i].gen = GenOf(t)}

(* A slot that has been vacated, and otherwise the next one, if any.       *)
NextAlways == {count + 1}
Vacant == {i \in Slot : i <= count + 1 /\ cache[i] = Free}
First(i) == i \in Vacant /\ \A j \in Vacant : i <= j

Fresh(t) == [tex |-> t, age |-> linkAge, gen |-> GenOf(t), revision |-> revisions + 1,
             pixels |-> Meant(t)]

(* The triangle goes to the geometry of the walk.                          *)
Emitted(i, t) ==
  LET triangle == [slot |-> i, pixels |-> Meant(t)] IN
  /\ rooms' = IF walk.of = "scene" THEN rooms \cup {triangle} ELSE rooms
  /\ frame' = IF walk.of = "link" THEN frame \cup {triangle} ELSE frame

(* A walk of the rooms has a room open, and a walk of Link needs no room.  *)
Walking(t) ==
  \/ walk.of = "scene" /\ walk.room # 0 /\ t.data \in SceneSegments
  \/ walk.of = "link" /\ t.data \in LinkSegments

DrawHit(t) ==
  /\ Walking(t)
  /\ \E i \in Hits(t) : Emitted(i, t)
  /\ UNCHANGED <<cache, count, roomGen, segment, linkAge, world, walk, revisions, host>>

DrawMiss(t) ==
  /\ Walking(t) /\ Hits(t) = {} /\ revisions < MaxRevision
  /\ \E i \in Vacant :
       /\ First(i)
       /\ cache' = [cache EXCEPT ![i] = Fresh(t)]
       /\ count' = IF i > count THEN i ELSE count
       /\ Emitted(i, t)
  /\ revisions' = revisions + 1
  /\ UNCHANGED <<roomGen, segment, linkAge, world, walk, host>>

(* The texels do not resolve or there is no memory: the slot that had been *)
(* chosen is wiped, and the triangle has no texture.                       *)
DrawFails(t) ==
  /\ Walking(t) /\ Hits(t) = {}
  /\ \E i \in Vacant : First(i) /\ cache' = [cache EXCEPT ![i] = Free]
  /\ UNCHANGED <<count, roomGen, segment, linkAge, world, walk, rooms, frame, revisions, host>>

-----------------------------------------------------------------------------
(***************************************************************************)
(* The scene.                                                              *)
(***************************************************************************)
Primary(room) == IF room = 0 THEN 1 ELSE room

(* liboot_gfx_evict_scene: the other entries keep their slots.             *)
Evicted ==
  [i \in Slot |-> IF cache[i] # Free /\ cache[i].tex.data \in {2, 3} THEN Free ELSE cache[i]]
EvictScene ==
  /\ cache' = Evicted
  /\ roomGen' = 0
  /\ rooms' = {}

StartWalk(room) == walk' = [of |-> "scene", pass |-> 0, room |-> room]

(* The commit of oot_scene_load_ex, up to the interpretation of the rooms. *)
LoadScene(s, room) ==
  /\ walk = Idle
  /\ segment' = [segment EXCEPT ![2] = <<s, 0>>, ![3] = <<s, Primary(room)>>]
  /\ world' = [scene |-> s, room |-> room]
  /\ EvictScene
  /\ StartWalk(room)
  /\ UNCHANGED <<count, linkAge, frame, revisions, host>>

(* oot_scene_set_room, likewise.                                           *)
SetRoom(room) ==
  /\ walk = Idle /\ world # NoScene
  /\ segment' = [segment EXCEPT ![3] = <<world.scene, Primary(room)>>]
  /\ world' = [world EXCEPT !.room = room]
  /\ EvictScene
  /\ StartWalk(room)
  /\ UNCHANGED <<count, linkAge, frame, revisions, host>>

(* interpret_all_rooms: twice over all rooms, each behind segment 3 while  *)
(* it is walked.  A room that cannot be read is passed over, with the room *)
(* before it freed and still registered.                                   *)
OpenRoom(room) ==
  /\ walk.of = "scene" /\ world.room = 0
  /\ \/ room > walk.room /\ walk' = [walk EXCEPT !.room = room]
     \/ walk.pass = 0 /\ walk' = [walk EXCEPT !.pass = 1, !.room = room]
  /\ roomGen' = room
  /\ segment' = [segment EXCEPT ![3] = <<world.scene, room>>]
  /\ UNCHANGED <<cache, count, linkAge, world, rooms, frame, revisions, host>>

(* The primary room is registered again, but not its number.               *)
EndWalk ==
  /\ walk # Idle
  /\ segment' = IF walk.of = "scene" /\ world.room = 0
                THEN [segment EXCEPT ![3] = <<world.scene, Primary(0)>>] ELSE segment
  /\ walk' = Idle
  /\ UNCHANGED <<cache, count, roomGen, linkAge, world, rooms, frame, revisions, host>>

(* A world of the host's own ends the scene.                               *)
StaticWorldLoad ==
  /\ walk = Idle
  /\ segment' = [segment EXCEPT ![2] = NoFile, ![3] = NoFile]
  /\ world' = NoScene
  /\ EvictScene
  /\ UNCHANGED <<count, linkAge, walk, frame, revisions, host>>

-----------------------------------------------------------------------------
(***************************************************************************)
(* Link, the session and the host.                                         *)
(***************************************************************************)
SetAge(age) ==
  /\ walk = Idle /\ linkAge # age
  /\ linkAge' = age
  /\ segment' = [segment EXCEPT ![6] = Object(age)]
  /\ UNCHANGED <<cache, count, roomGen, world, walk, rooms, frame, revisions, host>>

(* A tick draws Link and, where the host asks for it, Navi and actors.     *)
RenderLink ==
  /\ walk = Idle
  /\ walk' = [of |-> "link", pass |-> 0, room |-> 0]
  /\ frame' = {}
  /\ UNCHANGED <<cache, count, roomGen, segment, linkAge, world, rooms, revisions, host>>

(* oot_global_terminate and the next oot_global_init.  Revisions belong to *)
(* the process and go on.                                                  *)
FromTheStart == 0
RevisionAfterRestart == revisions
Restart ==
  /\ walk = Idle
  /\ cache' = [i \in Slot |-> Free] /\ count' = 0
  /\ segment' = AtBoot /\ linkAge' = Adult
  /\ world' = NoScene
  /\ rooms' = {} /\ frame' = {}
  /\ revisions' = RevisionAfterRestart
  /\ UNCHANGED <<roomGen, walk, host>>

(* oot_engine_texture_get, and the upload of what has a new revision.      *)
Upload(i) ==
  /\ walk = Idle /\ i <= count /\ cache[i] # Free
  /\ host[i].revision # cache[i].revision
  /\ host' = [host EXCEPT ![i] = [revision |-> cache[i].revision, pixels |-> cache[i].pixels]]
  /\ UNCHANGED <<cache, count, roomGen, segment, linkAge, world, walk, rooms, frame, revisions>>

Next ==
  \/ \E t \in Textures : DrawHit(t) \/ DrawMiss(t) \/ DrawFails(t)
  \/ \E s \in Scenes, room \in 0 .. Rooms : LoadScene(s, room)
  \/ \E room \in 0 .. Rooms : SetRoom(room)
  \/ \E room \in 1 .. Rooms : OpenRoom(room)
  \/ EndWalk
  \/ StaticWorldLoad
  \/ \E age \in Ages : SetAge(age)
  \/ RenderLink
  \/ Restart
  \/ \E i \in Slot : Upload(i)

Spec == Init /\ [][Next]_vars

-----------------------------------------------------------------------------
(* Every field has its type, and slots beyond the count are free.          *)
TypeOK ==
  /\ cache \in [Slot -> Entry \cup {Free}]
  /\ count \in 0 .. Slots
  /\ \A i \in Slot : i > count => cache[i] = Free
  /\ roomGen \in 0 .. Rooms
  /\ segment \in [Segments -> Files]
  /\ linkAge \in Ages
  /\ world \in [scene : Scenes, room : 0 .. Rooms] \cup {NoScene}
  /\ walk \in [of : {"nothing", "scene", "link"}, pass : {0, 1}, room : 0 .. Rooms]
  /\ rooms \subseteq Triangle /\ frame \subseteq Triangle
  /\ revisions \in 0 .. MaxRevision
  /\ host \in [Slot -> Copy \cup {NoCopy}]

(* Whatever has been drawn since, what a triangle of the scene or of Link  *)
(* shows is what its display list meant when it was walked: the texels and *)
(* the palette of the scene, the room and the age it was drawn in.         *)
DrawnAsMeant ==
  \A triangle \in rooms \cup frame :
     /\ cache[triangle.slot] # Free
     /\ cache[triangle.slot].pixels = triangle.pixels

(* A host that uploads again only when the revision of a slot has changed  *)
(* never shows the pixels of a texture that has left the slot, not even    *)
(* after a restart.                                                        *)
HostCopyIsHonest ==
  \A i \in Live : host[i].revision = cache[i].revision => host[i].pixels = cache[i].pixels
=============================================================================
