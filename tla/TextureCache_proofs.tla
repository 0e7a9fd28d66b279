------------------------- MODULE TextureCache_proofs -------------------------
(***************************************************************************)
(* Proof that the cache shows what the display lists meant, for any number *)
(* of scenes, rooms, textures and slots.                                   *)
(***************************************************************************)
EXTENDS TextureCache, TLAPS

(* The file an entry was decoded from, from its key and the world alone.   *)
Source(seg, e, w) ==
  IF seg = 6 THEN Object(e.age)
  ELSE IF seg = 4 THEN Keep
  ELSE IF seg = 3 THEN <<w.scene, IF e.gen = 0 THEN w.room ELSE e.gen>>
  ELSE IF seg = 2 THEN <<w.scene, 0>>
  ELSE NoFile

Fits(e, w) ==
  e.pixels = [tex |-> e.tex, data |-> Source(e.tex.data, e, w), pal |-> Source(e.tex.pal, e, w)]

(* Every entry holds what its key stands for now: this is what makes a hit *)
(* right, and evictions are there to keep it true.                         *)
PixelsFit == \A i \in Live : Fits(cache[i], world)

(* Behind the segments is what Link's age, the world and, while rooms are  *)
(* walked, the room number given to the cache say.                         *)
SegmentsFit ==
  /\ segment[4] = Keep
  /\ segment[6] = Object(linkAge)
  /\ world # NoScene => segment[2] = <<world.scene, 0>>
  /\ walk.of = "scene" => world # NoScene
  /\ walk.of = "scene" /\ walk.room # 0 =>
       segment[3] = <<world.scene, IF roomGen = 0 THEN world.room ELSE roomGen>>
  /\ walk.of = "scene" /\ world.room # 0 => walk.room = world.room /\ roomGen = 0

(* Link draws from files that no eviction touches.                         *)
FrameLasts == \A triangle \in frame : triangle.pixels.tex.data \in LinkSegments

(* No revision has been used that is yet to come.                          *)
RevisionsPast ==
  /\ \A i \in Slot : cache[i].revision <= revisions
  /\ \A i \in Slot : host[i].revision <= revisions

IInv ==
  /\ TypeOK
  /\ PixelsFit
  /\ SegmentsFit
  /\ FrameLasts
  /\ DrawnAsMeant
  /\ RevisionsPast
  /\ HostCopyIsHonest

-----------------------------------------------------------------------------
(* An entry in use is no empty slot.                                       *)
LEMMA LiveEntries ==
  ASSUME TypeOK, NEW i \in Live
  PROVE  i \in Slot /\ cache[i] \in Entry /\ cache[i].revision > 0
BY SizesAreNatural DEF TypeOK, Live, Entry

(* What a display list means is what a key made of its texture, Link's age *)
(* and the room number of the cache stands for.                            *)
LEMMA KeyMeansPixels ==
  ASSUME TypeOK, SegmentsFit, NEW t \in Textures, Walking(t),
         NEW e, e.age = linkAge, e.gen = GenOf(t)
  PROVE  Meant(t) = [tex |-> t, data |-> Source(t.data, e, world), pal |-> Source(t.pal, e, world)]
<1>2. \/ t.data = 6 /\ t.pal \in {NoPalette, 4, 6}
      \/ t.data = 4 /\ t.pal \in {NoPalette, 4}
      \/ t.data = 2 /\ t.pal \in {NoPalette, 2, 4}
      \/ t.data = 3 /\ t.pal \in {NoPalette, 2, 3, 4}
  BY PalettesLast
<1>3. /\ segment[4] = Keep
      /\ segment[6] = Object(e.age)
      /\ walk.of = "scene" => segment[2] = <<world.scene, 0>>
      /\ walk.of = "scene" /\ t.data = 3 =>
           segment[3] = <<world.scene, IF e.gen = 0 THEN world.room ELSE e.gen>>
  BY DEF SegmentsFit, Walking, GenOf, SceneSegments, LinkSegments
<1>4. walk.of = "scene" \/ t.data \in {4, 6}
  BY DEF Walking, LinkSegments
<1> HIDE DEF Object, Keep, NoFile
<1>5. FileOf(t.data) = Source(t.data, e, world)
  BY <1>2, <1>3, <1>4 DEF FileOf, Source, NoPalette
<1>6. FileOf(t.pal) = Source(t.pal, e, world)
  BY <1>2, <1>3, <1>4 DEF FileOf, Source, NoPalette
<1> QED BY <1>5, <1>6 DEF Meant

(* ... and is something that can be decoded.                               *)
LEMMA MeantPixels ==
  ASSUME TypeOK, NEW t \in Textures
  PROVE  Meant(t) \in Pixels
<1>1. t.data \in Segments /\ t.pal \in Segments \cup {NoPalette}
  BY PalettesLast DEF Segments, LinkSegments, SceneSegments
<1>2. NoFile \in Files
  BY SizesAreNatural DEF NoFile, Files
<1>3. FileOf(t.data) \in Files /\ FileOf(t.pal) \in Files
  BY <1>1, <1>2 DEF TypeOK, FileOf
<1> QED BY <1>3 DEF Meant, Pixels

-----------------------------------------------------------------------------
LEMMA CacheInit == Init => IInv
<1> SUFFICES ASSUME Init PROVE IInv
  OBVIOUS
<1>1. segment \in [Segments -> Files] /\ segment[4] = Keep /\ segment[6] = Object(Adult)
  BY SizesAreNatural DEF Init, AtBoot, Segments, LinkSegments, SceneSegments, Files,
                         Keep, Object, NoFile, Adult
<1>2. TypeOK
  BY <1>1, SizesAreNatural DEF Init, TypeOK, Slot, Ages, Adult, Child, NoScene, Idle, Triangle
<1>3. Live = {}
  BY DEF Init, Live
<1>4. RevisionsPast
  BY DEF Init, RevisionsPast, Free, NoCopy
<1>5. SegmentsFit
  BY <1>1 DEF Init, SegmentsFit, Idle
<1>6. rooms = {} /\ frame = {}
  BY DEF Init
<1> QED BY <1>2, <1>3, <1>4, <1>5, <1>6 DEF IInv, PixelsFit, FrameLasts, DrawnAsMeant, HostCopyIsHonest

(* A triangle is emitted with the slot of an entry that holds what it      *)
(* means.                                                                  *)
LEMMA EmittedAsMeant ==
  ASSUME TypeOK, FrameLasts, NEW t \in Textures, Walking(t), NEW i \in Slot, Emitted(i, t)
  PROVE  /\ rooms' \subseteq Triangle /\ frame' \subseteq Triangle
         /\ FrameLasts'
         /\ \A triangle \in rooms' \cup frame' :
               \/ triangle \in rooms \cup frame
               \/ triangle.slot = i /\ triangle.pixels = Meant(t)
<1> DEFINE new == [slot |-> i, pixels |-> Meant(t)]
<1>1. new \in Triangle
  BY MeantPixels DEF Triangle
<1>2. rooms' \in {rooms, rooms \cup {new}} /\ frame' \in {frame, frame \cup {new}}
  BY DEF Emitted
<1>3. frame' # frame => new.pixels.tex.data \in LinkSegments
  BY DEF Emitted, Walking, Meant
<1>4. FrameLasts'
  <2>1. \A triangle \in frame' : triangle \in frame \/ (frame' # frame /\ triangle = new)
    BY <1>2
  <2> HIDE DEF new
  <2> QED BY <1>3, <2>1 DEF FrameLasts
<1>5. new.slot = i /\ new.pixels = Meant(t)
  OBVIOUS
<1> HIDE DEF new
<1> QED BY <1>1, <1>2, <1>4, <1>5 DEF TypeOK

LEMMA DrawHitKeeps ==
  ASSUME IInv, NEW t \in Textures, DrawHit(t)
  PROVE  IInv'
<1> USE DEF IInv
<1>1. PICK i \in Hits(t) : Emitted(i, t)
  BY DEF DrawHit
<1>2. Walking(t) /\ UNCHANGED <<cache, count, roomGen, segment, linkAge, world, walk, revisions, host>>
  BY DEF DrawHit
<1>3. /\ i \in Live /\ i \in Slot
      /\ cache[i].tex = t /\ cache[i].age = linkAge /\ cache[i].gen = GenOf(t)
  BY <1>1 DEF Hits, Live
<1>4. cache[i].pixels = Meant(t)
  BY <1>2, <1>3, KeyMeansPixels DEF PixelsFit, Fits
<1>5. /\ rooms' \subseteq Triangle /\ frame' \subseteq Triangle
      /\ FrameLasts'
      /\ \A triangle \in rooms' \cup frame' :
            \/ triangle \in rooms \cup frame
            \/ triangle.slot = i /\ triangle.pixels = Meant(t)
  BY <1>1, <1>2, <1>3, EmittedAsMeant
<1>6. TypeOK'
  BY <1>2, <1>5 DEF TypeOK
<1>7. Live' = Live
  BY <1>2 DEF Live
<1>8. PixelsFit' /\ SegmentsFit' /\ RevisionsPast' /\ HostCopyIsHonest'
  BY <1>2, <1>7 DEF PixelsFit, SegmentsFit, RevisionsPast, HostCopyIsHonest
<1>9. DrawnAsMeant'
  <2> SUFFICES ASSUME NEW triangle \in rooms' \cup frame'
               PROVE  cache[triangle.slot] # Free /\ cache[triangle.slot].pixels = triangle.pixels
    BY <1>2 DEF DrawnAsMeant
  <2>1. CASE triangle \in rooms \cup frame
    BY <2>1 DEF DrawnAsMeant
  <2>2. CASE triangle.slot = i /\ triangle.pixels = Meant(t)
    BY <2>2, <1>3, <1>4 DEF Live
  <2> QED BY <1>5, <2>1, <2>2
<1> QED BY <1>5, <1>6, <1>8, <1>9

(* A fresh entry is one, fits its key and has a revision of its own.       *)
LEMMA FreshEntry ==
  ASSUME TypeOK, SegmentsFit, NEW t \in Textures, Walking(t), revisions < MaxRevision
  PROVE  /\ Fresh(t) \in Entry /\ Fresh(t) # Free
         /\ Fresh(t).revision = revisions + 1
         /\ Fresh(t).tex = t
         /\ Fresh(t).pixels = Meant(t)
         /\ Fits(Fresh(t), world)
<1> DEFINE f == Fresh(t)
<1>1. /\ f.revision = revisions + 1 /\ f.tex = t /\ f.pixels = Meant(t)
      /\ f.age = linkAge /\ f.gen = GenOf(t)
  BY DEF Fresh
<1>2. f \in Entry
  BY MeantPixels, SizesAreNatural DEF Fresh, Entry, TypeOK, GenOf
<1>3. f # Free
  BY <1>1, SizesAreNatural DEF Free, TypeOK
<1> HIDE DEF f
<1>4. Fits(f, world)
  BY <1>1, KeyMeansPixels DEF Fits
<1> QED BY <1>1, <1>2, <1>3, <1>4 DEF f

LEMMA DrawMissKeeps ==
  ASSUME IInv, NEW t \in Textures, DrawMiss(t)
  PROVE  IInv'
<1> USE DEF IInv
<1>1. PICK i \in Vacant :
        /\ First(i)
        /\ cache' = [cache EXCEPT ![i] = Fresh(t)]
        /\ count' = IF i > count THEN i ELSE count
        /\ Emitted(i, t)
  BY DEF DrawMiss
<1>2. /\ Walking(t) /\ revisions < MaxRevision /\ revisions' = revisions + 1
      /\ UNCHANGED <<roomGen, segment, linkAge, world, walk, host>>
  BY DEF DrawMiss
<1>3. i \in Slot /\ i <= count + 1 /\ cache[i] = Free /\ i \notin Live
  BY DEF Vacant, Live
<1>4. /\ Fresh(t) \in Entry /\ Fresh(t) # Free
      /\ Fresh(t).revision = revisions + 1
      /\ Fresh(t).tex = t
      /\ Fresh(t).pixels = Meant(t)
      /\ Fits(Fresh(t), world)
  BY <1>2, FreshEntry
<1>5. /\ rooms' \subseteq Triangle /\ frame' \subseteq Triangle
      /\ FrameLasts'
      /\ \A triangle \in rooms' \cup frame' :
            \/ triangle \in rooms \cup frame
            \/ triangle.slot = i /\ triangle.pixels = Meant(t)
  BY <1>1, <1>2, <1>3, EmittedAsMeant
<1>6. /\ cache' \in [Slot -> Entry \cup {Free}]
      /\ cache'[i] = Fresh(t)
      /\ \A j \in Slot \ {i} : cache'[j] = cache[j]
  BY <1>1, <1>3, <1>4 DEF TypeOK
<1>7. Live' = Live \cup {i}
  BY <1>3, <1>4, <1>6 DEF Live
<1>8. TypeOK'
  <2>1. count' \in 0 .. Slots /\ \A j \in Slot : j > count' => cache'[j] = Free
    BY <1>1, <1>3, <1>6, SizesAreNatural DEF TypeOK, Slot
  <2>2. revisions' \in 0 .. MaxRevision
    BY <1>2, SizesAreNatural DEF TypeOK
  <2> QED BY <1>2, <1>5, <1>6, <2>1, <2>2 DEF TypeOK
<1> HIDE DEF IInv
<1>9. PixelsFit'
  <2> SUFFICES ASSUME NEW j \in Live' PROVE Fits(cache'[j], world)
    BY <1>2 DEF PixelsFit
  <2>1. j # i => j \in Live /\ cache'[j] = cache[j]
    BY <1>6, <1>7 DEF Live
  <2> QED BY <1>4, <1>6, <2>1 DEF PixelsFit, IInv
<1>10. SegmentsFit'
  BY <1>2 DEF SegmentsFit, IInv
<1>11. RevisionsPast'
  BY <1>2, <1>4, <1>6, LiveEntries DEF RevisionsPast, IInv, TypeOK, Entry, Free, Copy, NoCopy
<1>12. HostCopyIsHonest'
  <2> SUFFICES ASSUME NEW j \in Live', host[j].revision = cache'[j].revision
               PROVE  host[j].pixels = cache'[j].pixels
    BY <1>2 DEF HostCopyIsHonest
  <2>1. j # i
    BY <1>3, <1>4, <1>6, SizesAreNatural DEF RevisionsPast, IInv, TypeOK, Copy, NoCopy
  <2> QED BY <2>1, <1>6, <1>7 DEF HostCopyIsHonest, IInv, Live
<1>13. DrawnAsMeant'
  <2> SUFFICES ASSUME NEW triangle \in rooms' \cup frame'
               PROVE  cache'[triangle.slot] # Free /\ cache'[triangle.slot].pixels = triangle.pixels
    BY DEF DrawnAsMeant
  <2>1. CASE triangle \in rooms \cup frame
    <3>1. triangle.slot \in Slot /\ triangle.slot # i
      BY <2>1, <1>3 DEF IInv, DrawnAsMeant, TypeOK, Triangle
    <3> QED BY <2>1, <3>1, <1>6 DEF IInv, DrawnAsMeant
  <2>2. CASE triangle.slot = i /\ triangle.pixels = Meant(t)
    BY <2>2, <1>4, <1>6
  <2> QED BY <1>5, <2>1, <2>2
<1> QED BY <1>5, <1>8, <1>9, <1>10, <1>11, <1>12, <1>13 DEF IInv

(* A texture that cannot be had wipes a slot that was free.                *)
LEMMA DrawFailsKeeps ==
  ASSUME IInv, NEW t \in Textures, DrawFails(t)
  PROVE  IInv'
<1>1. PICK i \in Vacant : cache' = [cache EXCEPT ![i] = Free]
  BY DEF DrawFails
<1>2. cache' = cache
  BY <1>1 DEF IInv, TypeOK, Vacant
<1>3. UNCHANGED vars
  BY <1>2 DEF DrawFails, vars
<1> QED BY <1>3 DEF IInv, vars, TypeOK, PixelsFit, Live, SegmentsFit, FrameLasts, DrawnAsMeant,
                  RevisionsPast, HostCopyIsHonest

-----------------------------------------------------------------------------
(* What an eviction leaves fits any world, and what Link shows is left.    *)
LEMMA Evicting ==
  ASSUME IInv, EvictScene, UNCHANGED <<count, frame, revisions, host>>
  PROVE  /\ cache' \in [Slot -> Entry \cup {Free}]
         /\ \A i \in Slot : i > count' => cache'[i] = Free
         /\ roomGen' = 0 /\ rooms' = {}
         /\ PixelsFit' /\ FrameLasts' /\ DrawnAsMeant'
         /\ RevisionsPast' /\ HostCopyIsHonest'
<1> USE DEF IInv
<1>1. /\ cache' \in [Slot -> Entry \cup {Free}]
      /\ \A i \in Slot :
           cache'[i] = IF cache[i] # Free /\ cache[i].tex.data \in {2, 3} THEN Free ELSE cache[i]
  BY DEF EvictScene, Evicted, TypeOK
<1>2. \A i \in Live' : i \in Live /\ cache'[i] = cache[i] /\ cache[i].tex.data \notin {2, 3}
  BY <1>1 DEF Live
<1>3. \A i \in Slot : i > count' => cache'[i] = Free
  BY <1>1 DEF TypeOK
<1>4. PixelsFit'
  <2> SUFFICES ASSUME NEW i \in Live' PROVE Fits(cache[i], world')
    BY <1>2 DEF PixelsFit
  <2>1. i \in Live /\ cache[i].tex.data \notin {2, 3}
    BY <1>2
  <2>2. cache[i].tex.pal \notin {2, 3} /\ cache[i].tex.data \notin {2, 3}
    BY <2>1, LiveEntries, PalettesLast DEF Entry, NoPalette
  <2>3. Fits(cache[i], world)
    BY <2>1 DEF PixelsFit
  <2> QED BY <2>2, <2>3 DEF Fits, Source
<1>5. FrameLasts'
  BY DEF FrameLasts
<1>6. DrawnAsMeant'
  <2> SUFFICES ASSUME NEW triangle \in frame
               PROVE  cache'[triangle.slot] # Free /\ cache'[triangle.slot].pixels = triangle.pixels
    BY DEF DrawnAsMeant, EvictScene
  <2>1. triangle.slot \in Live /\ cache[triangle.slot].pixels = triangle.pixels
    <3>1. triangle \in Triangle
      BY DEF TypeOK
    <3> QED BY <3>1 DEF DrawnAsMeant, Live, Triangle
  <2>2. Fits(cache[triangle.slot], world)
    BY <2>1 DEF PixelsFit
  <2>3. cache[triangle.slot].tex.data \in {4, 6}
    <3>1. cache[triangle.slot].pixels.tex = cache[triangle.slot].tex
      BY <2>2 DEF Fits
    <3>2. triangle.pixels.tex.data \in LinkSegments
      BY DEF FrameLasts
    <3> QED BY <2>1, <3>1, <3>2 DEF LinkSegments
  <2> QED BY <1>1, <2>1, <2>3 DEF Live
<1>7. RevisionsPast'
  BY <1>1, SizesAreNatural DEF RevisionsPast, Free, TypeOK
<1>8. HostCopyIsHonest'
  BY <1>2 DEF HostCopyIsHonest
<1> QED BY <1>1, <1>3, <1>4, <1>5, <1>6, <1>7, <1>8 DEF EvictScene

LEMMA SceneFiles ==
  ASSUME NEW s \in Scenes, NEW n \in 0 .. Rooms + 1
  PROVE  <<s, n>> \in Files /\ s # "none" /\ [scene |-> s, room |-> n] # NoScene
BY SizesAreNatural DEF Files, NoScene

LEMMA LoadSceneKeeps ==
  ASSUME IInv, NEW s \in Scenes, NEW room \in 0 .. Rooms, LoadScene(s, room)
  PROVE  IInv'
<1>1. /\ segment' = [segment EXCEPT ![2] = <<s, 0>>, ![3] = <<s, Primary(room)>>]
      /\ world' = [scene |-> s, room |-> room]
      /\ walk' = [of |-> "scene", pass |-> 0, room |-> room]
      /\ EvictScene
      /\ UNCHANGED <<count, linkAge, frame, revisions, host>>
  BY DEF LoadScene, StartWalk
<1>2. /\ cache' \in [Slot -> Entry \cup {Free}]
      /\ \A i \in Slot : i > count' => cache'[i] = Free
      /\ roomGen' = 0 /\ rooms' = {}
      /\ PixelsFit' /\ FrameLasts' /\ DrawnAsMeant'
      /\ RevisionsPast' /\ HostCopyIsHonest'
  BY <1>1, Evicting
<1>3. Primary(room) \in 0 .. Rooms + 1 /\ 0 \in 0 .. Rooms + 1 /\ (room # 0 => Primary(room) = room)
  BY SizesAreNatural DEF Primary
<1>4. /\ segment' \in [Segments -> Files]
      /\ segment'[2] = <<s, 0>> /\ segment'[3] = <<s, Primary(room)>>
      /\ segment'[4] = segment[4] /\ segment'[6] = segment[6]
  BY <1>1, <1>3, SceneFiles DEF IInv, TypeOK, Segments, LinkSegments, SceneSegments
<1>5. TypeOK'
  BY <1>1, <1>2, <1>4, SizesAreNatural DEF IInv, TypeOK
<1>6. SegmentsFit'
  BY <1>1, <1>2, <1>3, <1>4, SceneFiles DEF IInv, SegmentsFit
<1> QED BY <1>2, <1>5, <1>6 DEF IInv

LEMMA SetRoomKeeps ==
  ASSUME IInv, NEW room \in 0 .. Rooms, SetRoom(room)
  PROVE  IInv'
<1>1. /\ world # NoScene
      /\ segment' = [segment EXCEPT ![3] = <<world.scene, Primary(room)>>]
      /\ world' = [world EXCEPT !.room = room]
      /\ walk' = [of |-> "scene", pass |-> 0, room |-> room]
      /\ EvictScene
      /\ UNCHANGED <<count, linkAge, frame, revisions, host>>
  BY DEF SetRoom, StartWalk
<1>2. /\ cache' \in [Slot -> Entry \cup {Free}]
      /\ \A i \in Slot : i > count' => cache'[i] = Free
      /\ roomGen' = 0 /\ rooms' = {}
      /\ PixelsFit' /\ FrameLasts' /\ DrawnAsMeant'
      /\ RevisionsPast' /\ HostCopyIsHonest'
  BY <1>1, Evicting
<1>3. Primary(room) \in 0 .. Rooms + 1 /\ (room # 0 => Primary(room) = room)
  BY SizesAreNatural DEF Primary
<1>4. world.scene \in Scenes /\ world' = [scene |-> world.scene, room |-> room]
  BY <1>1 DEF IInv, TypeOK
<1>5. /\ segment' \in [Segments -> Files]
      /\ segment'[2] = segment[2] /\ segment'[3] = <<world.scene, Primary(room)>>
      /\ segment'[4] = segment[4] /\ segment'[6] = segment[6]
  BY <1>1, <1>3, <1>4, SceneFiles DEF IInv, TypeOK, Segments, LinkSegments, SceneSegments
<1>6. TypeOK'
  <2>1. world' \in [scene : Scenes, room : 0 .. Rooms]
    BY <1>4
  <2>2. walk' \in [of : {"nothing", "scene", "link"}, pass : {0, 1}, room : 0 .. Rooms]
    BY <1>1
  <2> QED BY <1>1, <1>2, <1>5, <2>1, <2>2, SizesAreNatural DEF IInv, TypeOK
<1>7. segment[2] = <<world.scene, 0>>
  BY <1>1 DEF IInv, SegmentsFit
<1>8. SegmentsFit'
  BY <1>1, <1>2, <1>3, <1>4, <1>5, <1>7, SceneFiles, SizesAreNatural DEF IInv, SegmentsFit
<1> QED BY <1>2, <1>6, <1>8 DEF IInv

LEMMA StaticWorldKeeps ==
  ASSUME IInv, StaticWorldLoad
  PROVE  IInv'
<1>1. /\ walk = Idle
      /\ segment' = [segment EXCEPT ![2] = NoFile, ![3] = NoFile]
      /\ world' = NoScene
      /\ EvictScene
      /\ UNCHANGED <<count, linkAge, walk, frame, revisions, host>>
  BY DEF StaticWorldLoad
<1>2. /\ cache' \in [Slot -> Entry \cup {Free}]
      /\ \A i \in Slot : i > count' => cache'[i] = Free
      /\ roomGen' = 0 /\ rooms' = {}
      /\ PixelsFit' /\ FrameLasts' /\ DrawnAsMeant'
      /\ RevisionsPast' /\ HostCopyIsHonest'
  BY <1>1, Evicting
<1>3. /\ segment' \in [Segments -> Files]
      /\ segment'[4] = segment[4] /\ segment'[6] = segment[6]
  BY <1>1, SizesAreNatural DEF IInv, TypeOK, Segments, LinkSegments, SceneSegments, NoFile, Files
<1>4. TypeOK'
  BY <1>1, <1>2, <1>3, SizesAreNatural DEF IInv, TypeOK
<1>5. SegmentsFit'
  BY <1>1, <1>3 DEF IInv, SegmentsFit, Idle
<1> QED BY <1>2, <1>4, <1>5 DEF IInv

-----------------------------------------------------------------------------
(* Steps that touch neither the entries nor what has been drawn.           *)
LEMMA CacheUntouched ==
  ASSUME IInv, UNCHANGED <<cache, world, rooms, revisions, host>>, frame' \in {frame, {}}
  PROVE  /\ PixelsFit' /\ FrameLasts' /\ DrawnAsMeant' /\ RevisionsPast' /\ HostCopyIsHonest'
<1>1. Live' = Live
  BY DEF Live
<1>2. FrameLasts'
  BY DEF IInv, FrameLasts
<1>3. DrawnAsMeant'
  BY DEF IInv, DrawnAsMeant
<1> QED BY <1>1, <1>2, <1>3 DEF IInv, PixelsFit, RevisionsPast, HostCopyIsHonest

(* The next room comes behind segment 3 together with its number.          *)
LEMMA OpenRoomKeeps ==
  ASSUME IInv, NEW room \in 1 .. Rooms, OpenRoom(room)
  PROVE  IInv'
<1>1. /\ walk.of = "scene" /\ world.room = 0
      /\ walk' \in {[walk EXCEPT !.room = room], [walk EXCEPT !.pass = 1, !.room = room]}
      /\ roomGen' = room
      /\ segment' = [segment EXCEPT ![3] = <<world.scene, room>>]
      /\ UNCHANGED <<cache, count, linkAge, world, rooms, frame, revisions, host>>
  BY DEF OpenRoom
<1>2. world # NoScene /\ world.scene \in Scenes
  BY <1>1 DEF IInv, SegmentsFit, TypeOK
<1>3. room \in 0 .. Rooms + 1 /\ room \in 0 .. Rooms /\ room # 0
  BY SizesAreNatural
<1>4. /\ walk' \in [of : {"nothing", "scene", "link"}, pass : {0, 1}, room : 0 .. Rooms]
      /\ walk'.of = "scene" /\ walk'.room = room
  BY <1>1, <1>3 DEF IInv, TypeOK
<1>5. /\ segment' \in [Segments -> Files]
      /\ segment'[2] = segment[2] /\ segment'[3] = <<world.scene, room>>
      /\ segment'[4] = segment[4] /\ segment'[6] = segment[6]
  BY <1>1, <1>2, <1>3, SceneFiles DEF IInv, TypeOK, Segments, LinkSegments, SceneSegments
<1>6. TypeOK'
  BY <1>1, <1>3, <1>4, <1>5 DEF IInv, TypeOK
<1>7. SegmentsFit'
  BY <1>1, <1>2, <1>3, <1>4, <1>5 DEF IInv, SegmentsFit
<1>8. /\ PixelsFit' /\ FrameLasts' /\ DrawnAsMeant' /\ RevisionsPast' /\ HostCopyIsHonest'
  BY <1>1, CacheUntouched
<1> QED BY <1>6, <1>7, <1>8 DEF IInv

LEMMA EndWalkKeeps ==
  ASSUME IInv, EndWalk
  PROVE  IInv'
<1>1. /\ walk # Idle /\ walk' = Idle
      /\ segment' = IF walk.of = "scene" /\ world.room = 0
                    THEN [segment EXCEPT ![3] = <<world.scene, Primary(0)>>] ELSE segment
      /\ UNCHANGED <<cache, count, roomGen, linkAge, world, rooms, frame, revisions, host>>
  BY DEF EndWalk
<1>2. /\ segment' \in [Segments -> Files]
      /\ segment'[2] = segment[2] /\ segment'[4] = segment[4] /\ segment'[6] = segment[6]
  <2>1. CASE walk.of = "scene" /\ world.room = 0
    <3>1. world.scene \in Scenes
      BY <2>1 DEF IInv, SegmentsFit, TypeOK
    <3>2. <<world.scene, Primary(0)>> \in Files
      BY <3>1, SceneFiles, SizesAreNatural DEF Primary
    <3> QED BY <1>1, <2>1, <3>2 DEF IInv, TypeOK, Segments, LinkSegments, SceneSegments
  <2>2. CASE ~(walk.of = "scene" /\ world.room = 0)
    BY <1>1, <2>2 DEF IInv, TypeOK
  <2> QED BY <2>1, <2>2
<1>3. TypeOK'
  BY <1>1, <1>2, SizesAreNatural DEF IInv, TypeOK, Idle
<1>4. SegmentsFit'
  BY <1>1, <1>2 DEF IInv, SegmentsFit, Idle
<1>5. /\ PixelsFit' /\ FrameLasts' /\ DrawnAsMeant' /\ RevisionsPast' /\ HostCopyIsHonest'
  BY <1>1, CacheUntouched
<1> QED BY <1>3, <1>4, <1>5 DEF IInv

(* Entries of the other age keep their pixels: their key has the age.      *)
LEMMA SetAgeKeeps ==
  ASSUME IInv, NEW age \in Ages, SetAge(age)
  PROVE  IInv'
<1>1. /\ walk = Idle /\ linkAge' = age
      /\ segment' = [segment EXCEPT ![6] = Object(age)]
      /\ UNCHANGED <<cache, count, roomGen, world, walk, rooms, frame, revisions, host>>
  BY DEF SetAge
<1>2. Object(age) \in Files
  BY SizesAreNatural DEF Object, Files, Ages, Adult, Child
<1>3. /\ segment' \in [Segments -> Files]
      /\ segment'[6] = Object(age)
      /\ segment'[2] = segment[2] /\ segment'[4] = segment[4]
  BY <1>1, <1>2 DEF IInv, TypeOK, Segments, LinkSegments, SceneSegments
<1>4. TypeOK'
  BY <1>1, <1>3 DEF IInv, TypeOK
<1>5. SegmentsFit'
  BY <1>1, <1>3 DEF IInv, SegmentsFit, Idle
<1>6. /\ PixelsFit' /\ FrameLasts' /\ DrawnAsMeant' /\ RevisionsPast' /\ HostCopyIsHonest'
  BY <1>1, CacheUntouched
<1> QED BY <1>4, <1>5, <1>6 DEF IInv

LEMMA RenderLinkKeeps ==
  ASSUME IInv, RenderLink
  PROVE  IInv'
<1>1. /\ walk' = [of |-> "link", pass |-> 0, room |-> 0] /\ frame' = {}
      /\ UNCHANGED <<cache, count, roomGen, segment, linkAge, world, rooms, revisions, host>>
  BY DEF RenderLink
<1>2. walk' \in [of : {"nothing", "scene", "link"}, pass : {0, 1}, room : 0 .. Rooms]
  BY <1>1, SizesAreNatural
<1>3. TypeOK'
  BY <1>1, <1>2 DEF IInv, TypeOK
<1>4. SegmentsFit'
  BY <1>1 DEF IInv, SegmentsFit
<1>5. /\ PixelsFit' /\ FrameLasts' /\ DrawnAsMeant' /\ RevisionsPast' /\ HostCopyIsHonest'
  BY <1>1, CacheUntouched
<1> QED BY <1>3, <1>4, <1>5 DEF IInv

(* A restart empties the cache but does not rewind the revisions.          *)
LEMMA RestartKeeps ==
  ASSUME IInv, Restart
  PROVE  IInv'
<1>1. /\ cache' = [i \in Slot |-> Free] /\ count' = 0
      /\ segment' = AtBoot /\ linkAge' = Adult
      /\ world' = NoScene /\ walk = Idle
      /\ rooms' = {} /\ frame' = {}
      /\ UNCHANGED <<roomGen, walk, host, revisions>>
  BY DEF Restart, RevisionAfterRestart
<1>2. segment' \in [Segments -> Files] /\ segment'[4] = Keep /\ segment'[6] = Object(Adult)
  BY <1>1, SizesAreNatural DEF AtBoot, Segments, LinkSegments, SceneSegments, Files,
                               Keep, Object, NoFile, Adult
<1>3. TypeOK'
  BY <1>1, <1>2, SizesAreNatural DEF IInv, TypeOK, Ages
<1>4. SegmentsFit'
  BY <1>1, <1>2 DEF SegmentsFit, Idle
<1>5. Live' = {}
  BY <1>1 DEF Live
<1>6. RevisionsPast'
  BY <1>1, SizesAreNatural DEF IInv, RevisionsPast, Free, TypeOK
<1> QED BY <1>1, <1>3, <1>4, <1>5, <1>6
        DEF IInv, PixelsFit, FrameLasts, DrawnAsMeant, HostCopyIsHonest

LEMMA UploadKeeps ==
  ASSUME IInv, NEW i \in Slot, Upload(i)
  PROVE  IInv'
<1> USE DEF IInv
<1>1. /\ cache[i] # Free
      /\ host' = [host EXCEPT ![i] = [revision |-> cache[i].revision, pixels |-> cache[i].pixels]]
      /\ UNCHANGED <<cache, count, roomGen, segment, linkAge, world, walk, rooms, frame, revisions>>
  BY DEF Upload
<1> DEFINE copy == [revision |-> cache[i].revision, pixels |-> cache[i].pixels]
<1>2. copy \in Copy
  BY <1>1 DEF TypeOK, Entry, Copy
<1>3. host' \in [Slot -> Copy \cup {NoCopy}] /\ \A j \in Slot : host'[j] = IF j = i THEN copy ELSE host[j]
  BY <1>1, <1>2 DEF TypeOK
<1>4. copy.revision = cache[i].revision /\ copy.pixels = cache[i].pixels
  OBVIOUS
<1> HIDE DEF copy
<1>5. TypeOK'
  BY <1>1, <1>3 DEF TypeOK
<1>6. Live' = Live /\ Live \subseteq Slot
  BY <1>1 DEF Live
<1>7. PixelsFit' /\ SegmentsFit' /\ FrameLasts' /\ DrawnAsMeant'
  BY <1>1, <1>6 DEF PixelsFit, SegmentsFit, FrameLasts, DrawnAsMeant
<1>8. RevisionsPast'
  BY <1>1, <1>3, <1>4 DEF RevisionsPast
<1>9. HostCopyIsHonest'
  BY <1>1, <1>3, <1>4, <1>6 DEF HostCopyIsHonest
<1> QED BY <1>5, <1>7, <1>8, <1>9

-----------------------------------------------------------------------------
LEMMA CacheStep == IInv /\ [Next]_vars => IInv'
<1> SUFFICES ASSUME IInv, [Next]_vars PROVE IInv'
  OBVIOUS
<1>1. ASSUME NEW t \in Textures, DrawHit(t) \/ DrawMiss(t) \/ DrawFails(t) PROVE IInv'
  BY <1>1, DrawHitKeeps, DrawMissKeeps, DrawFailsKeeps
<1>2. ASSUME NEW s \in Scenes, NEW room \in 0 .. Rooms, LoadScene(s, room) PROVE IInv'
  BY <1>2, LoadSceneKeeps
<1>3. ASSUME NEW room \in 0 .. Rooms, SetRoom(room) PROVE IInv'
  BY <1>3, SetRoomKeeps
<1>4. ASSUME NEW room \in 1 .. Rooms, OpenRoom(room) PROVE IInv'
  BY <1>4, OpenRoomKeeps
<1>5. ASSUME NEW age \in Ages, SetAge(age) PROVE IInv'
  BY <1>5, SetAgeKeeps
<1>6. ASSUME NEW i \in Slot, Upload(i) PROVE IInv'
  BY <1>6, UploadKeeps
<1>7. CASE EndWalk
  BY <1>7, EndWalkKeeps
<1>8. CASE StaticWorldLoad
  BY <1>8, StaticWorldKeeps
<1>9. CASE RenderLink
  BY <1>9, RenderLinkKeeps
<1>10. CASE Restart
  BY <1>10, RestartKeeps
<1>11. CASE UNCHANGED vars
  BY <1>11 DEF IInv, vars, TypeOK, PixelsFit, Live, SegmentsFit, FrameLasts, DrawnAsMeant,
               RevisionsPast, HostCopyIsHonest
<1> QED BY <1>1, <1>2, <1>3, <1>4, <1>5, <1>6, <1>7, <1>8, <1>9, <1>10, <1>11 DEF Next

(* The inductive invariant holds in every state.                           *)
THEOREM CacheInvariant == Spec => []IInv
<1>1. Init => IInv
  BY CacheInit
<1>2. IInv /\ [Next]_vars => IInv'
  BY CacheStep
<1> QED BY <1>1, <1>2, PTL DEF Spec

(* The fields of the cache, the walks and the host keep their types, and   *)
(* no slot beyond the count is ever used.                                  *)
THEOREM CacheTypes == Spec => []TypeOK
<1>1. IInv => TypeOK
  BY DEF IInv
<1> QED BY <1>1, CacheInvariant, PTL

(* What is drawn is what the display lists meant, for every set of scenes, *)
(* rooms and textures whose palettes last, and any number of slots.        *)
THEOREM DrawingsAreRight == Spec => []DrawnAsMeant
<1>1. IInv => DrawnAsMeant
  BY DEF IInv
<1> QED BY <1>1, CacheInvariant, PTL

(* A host that goes by revisions never shows the pixels of another         *)
(* texture, over any number of evictions and restarts.                     *)
THEOREM HostCopiesAreRight == Spec => []HostCopyIsHonest
<1>1. IInv => HostCopyIsHonest
  BY DEF IInv
<1> QED BY <1>1, CacheInvariant, PTL

=============================================================================
