----------------------------- MODULE WorldEvents ------------------------------
(***************************************************************************)
(* How Link's contacts with exits and voids reach the host.  Each tick the *)
(* player code asks where Link stands before the retail transition code    *)
(* can act on it; a contact that is not the one of the tick before becomes *)
(* an event in a short queue the host polls.  When the queue is full the   *)
(* contact is not noted either, so that the next tick tries again.         *)
(*                                                                         *)
(* A place stands for the surface under Link.  Two surfaces with the same  *)
(* kind, exit index and floor property are one place.  A world without a   *)
(* ROM scene is loaded at the start; that of a room of the same scene is a *)
(* ReplaceWorld from a ROM scene to a ROM scene.  Not modelled: the early  *)
(* recovery of the collapsing tower, and frozen ticks, which change        *)
(* nothing here.                                                           *)
(***************************************************************************)
EXTENDS Naturals, Sequences

CONSTANTS
  Exits,        \* Exit surfaces of the ROM scenes.
  Voids,        \* Void surfaces of the ROM scenes.
  Capacity,     \* WORLD_EVENT_QUEUE_CAPACITY.
  Width         \* nextSequence counts modulo Width (2^64 in the code).

ASSUME CapacityAssumption == Capacity \in Nat \ {0}
ASSUME WidthAssumption == Width \in Nat /\ Width > 1
ASSUME PlacesDistinct == /\ Exits \cap Voids = {}
                         /\ {"safe", "below", "nowhere", "none"} \cap (Exits \cup Voids) = {}

VARIABLES
  queue,          \* s_worldEvents.queue, oldest first.
  nextSequence,   \* s_worldEvents.nextSequence.
  contact,        \* contactKind, contactExitIndex and contactFloorProperty.
  romScene,       \* s_scene.sceneBlob # NULL.
  place,          \* Where Link is, "nowhere" without a Link.
  settled,        \* The last tick has seen him there.
  announced,      \* An event has been queued for his stay there.
  refused         \* An event for his stay there has found the queue full.

vars == <<queue, nextSequence, contact, romScene, place, settled, announced,
          refused>>

\* Places that make an event: exits and voids of a ROM scene, and in every
\* world the region below y = -4000.
Triggers == Exits \cup Voids \cup {"below"}
PlacesOf(rom) == {"safe", "below"} \cup IF rom THEN Exits \cup Voids ELSE {}
NoContact == "none"

Init ==
  /\ queue = <<>> /\ nextSequence = 0 /\ contact = NoContact
  /\ romScene = FALSE
  /\ place = "nowhere" /\ settled = FALSE /\ announced = FALSE
  /\ refused = FALSE

\* The queue has no room.  FullLate is a mistake.
FullLate == Len(queue) > Capacity
Full == Len(queue) >= Capacity

\* The counter skips 0 when it wraps.
Successor(n) == IF (n + 1) % Width = 0 THEN 1 ELSE (n + 1) % Width

\* world_event_push of a contact, and the note that it has been announced.
\* A mistake: the note is made although the queue was full.
NotesAlways(p) == contact' = p
Notes(p) == contact' = IF Full THEN contact ELSE p

Push(p) ==
  /\ Notes(p)
  /\ IF Full THEN UNCHANGED <<queue, nextSequence>>
     ELSE /\ nextSequence' = Successor(nextSequence)
          /\ queue' = Append(queue, [at |-> p, sequence |-> nextSequence'])

\* The stay at p goes on if Link was there already.
Stays(p) == p = place /\ announced

\* A mistake: leaving a trigger does not end the contact.
KeepsContact == UNCHANGED contact
EndsContact == contact' = NoContact

\* liboot_world_transition_intercept, from the player's update in a tick that
\* has taken Link to p.
Tick(p) ==
  /\ place # "nowhere" /\ p \in PlacesOf(romScene)
  /\ place' = p /\ settled' = TRUE
  /\ \/ /\ p \notin Triggers
        /\ EndsContact
        /\ announced' = FALSE /\ refused' = FALSE
        /\ UNCHANGED <<queue, nextSequence>>
     \/ /\ p \in Triggers /\ p = contact
        /\ announced' = Stays(p)
        /\ refused' = (refused /\ p = place)
        /\ UNCHANGED <<queue, nextSequence, contact>>
     \/ /\ p \in Triggers /\ p # contact
        /\ Push(p)
        /\ announced' = (Stays(p) \/ ~Full)
        /\ refused' = Full
  /\ UNCHANGED romScene

\* oot_link_set_pose, with liboot_world_events_observe_pose: only a contact
\* with the void plane ends.
SetPose(p) ==
  /\ place # "nowhere" /\ p \in PlacesOf(romScene)
  /\ place' = p /\ settled' = (settled /\ p = place)
  /\ contact' = IF p # "below" /\ contact = "below" THEN NoContact ELSE contact
  /\ announced' = Stays(p) /\ refused' = (refused /\ p = place)
  /\ UNCHANGED <<queue, nextSequence, romScene>>

\* oot_link_create and oot_link_delete leave the events alone.
CreateLink(p) ==
  /\ place = "nowhere" /\ p \in PlacesOf(romScene)
  /\ place' = p /\ settled' = FALSE /\ announced' = FALSE
  /\ refused' = FALSE
  /\ UNCHANGED <<queue, nextSequence, contact, romScene>>

DeleteLink ==
  /\ place # "nowhere"
  /\ place' = "nowhere" /\ settled' = FALSE /\ announced' = FALSE
  /\ refused' = FALSE
  /\ UNCHANGED <<queue, nextSequence, contact, romScene>>

\* oot_scene_load_ex, oot_scene_set_room and the load of a static world drop
\* the queue and the contact; the counter goes on.  Link then stands wherever
\* his position is in the new world.  A mistake: the queue is kept.
KeepsQueue == UNCHANGED queue /\ contact' = NoContact
ClearsEvents == queue' = <<>> /\ contact' = NoContact

ReplaceWorld(rom, p) ==
  /\ romScene' = rom
  /\ place' = IF place = "nowhere" THEN place ELSE p
  /\ p \in PlacesOf(rom)
  /\ settled' = FALSE /\ announced' = FALSE
  /\ refused' = FALSE
  /\ ClearsEvents
  /\ UNCHANGED nextSequence

\* oot_world_event_poll with a valid record.
Poll ==
  /\ queue # <<>>
  /\ queue' = Tail(queue)
  /\ UNCHANGED <<nextSequence, contact, romScene, place, settled, announced,
                 refused>>

Next ==
  \/ \E p \in PlacesOf(TRUE) : Tick(p) \/ SetPose(p) \/ CreateLink(p)
  \/ \E p \in PlacesOf(TRUE), rom \in BOOLEAN : ReplaceWorld(rom, p)
  \/ DeleteLink \/ Poll

Spec == Init /\ [][Next]_vars

\* A host that keeps stepping and polling, as the documentation asks it to.
FairSpec == Spec /\ WF_vars(Poll)
                 /\ \A p \in Triggers : WF_vars(Tick(p) /\ place = p)

-----------------------------------------------------------------------------
(***************************************************************************)
(* Properties.                                                             *)
(***************************************************************************)
\* The type of every variable.
TypeOK ==
  /\ queue \in Seq([at : Triggers, sequence : 0 .. Width - 1])
  /\ Len(queue) <= Capacity
  /\ nextSequence \in 0 .. Width - 1
  /\ contact \in Triggers \cup {NoContact}
  /\ romScene \in BOOLEAN
  /\ place \in PlacesOf(romScene) \cup {"nowhere"}
  /\ {settled, announced, refused} \subseteq BOOLEAN

\* The queued events are numbered without a gap up to the counter, across
\* world changes and when the counter wraps, and none is numbered 0, which is
\* the number of a record that was never filled in.  And every queued event is
\* about a surface of the world that is loaded: the host never follows an exit
\* of the scene it has just left.
EventsAreInOrder ==
  /\ \A n \in DOMAIN queue :
       /\ queue[n].sequence # 0
       /\ n = Len(queue) => queue[n].sequence = nextSequence
       /\ n < Len(queue) => queue[n + 1].sequence = Successor(queue[n].sequence)
       /\ queue[n].at \in PlacesOf(romScene)

\* A stay makes at most one event, also when the host polls in the middle of
\* it; and walking into an exit or a void from a safe place the game has seen
\* Link at makes one, unless the queue is full.
OncePerStay ==
  [][/\ Len(queue') > Len(queue) => ~Stays(place')
     /\ \A p \in Triggers :
          Tick(p) /\ settled /\ place \notin Triggers => announced' \/ Full]_vars

\* An event that found the queue full is not lost: if Link stays where he is,
\* and the host steps and polls, it is queued in the end.
FullQueueIsRetried == refused ~> ~refused
=============================================================================
