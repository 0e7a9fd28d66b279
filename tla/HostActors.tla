------------------------------ MODULE HostActors ------------------------------
(***************************************************************************)
(* Targets and host actors: what a host places in the world for Link to    *)
(* lock on to and to hit.  The wrapper keeps a table of handles for each   *)
(* kind, in front of one pool of native actors that both kinds share.  A   *)
(* handle is a slot and a token of a process-wide counter that is never    *)
(* used twice.                                                             *)
(*                                                                         *)
(* The module composes with EngineSession: a Link that is created, deleted *)
(* or changes age takes the actors with him, and the native side does so   *)
(* on its own account.  A call that is refused without effect is a         *)
(* stuttering step.  Every actor is enabled and belongs to every room.     *)
(***************************************************************************)
EXTENDS EngineSession, Picking, FiniteSetsExt

CONSTANTS
  TargetSlots,      \* ENGINE_TARGET_SLOTS, and the native limit of targets.
  ActorSlots,       \* ENGINE_HOST_ACTOR_SLOTS.
  PoolSize,         \* OOT_HOST_ACTOR_MAX, shared by both kinds.
  QueueCapacity,    \* LIBOOT_CONTACT_QUEUE_CAPACITY.
  MaxToken          \* The last token the counter gives out.

ASSUME SlotsAssumption ==
  {TargetSlots, ActorSlots, PoolSize, QueueCapacity, MaxToken} \subseteq Nat \ {0}

VARIABLES
  slots,            \* engine->targets and engine->hostActors.
  pool,             \* sActors.
  contacts,         \* The ring sContacts, oldest first.
  reference,        \* The actor Link and the attention system point to.
  nextToken,        \* manager->nextHandleNamespace.
  held,             \* Handles the host may use, by what it has been told.
  retired           \* Handles it has been told are gone.

actorVars == <<slots, pool, contacts, reference, nextToken, held, retired>>

Kinds == {"target", "actor"}
SlotsOf(kind) == 1 .. (IF kind = "target" THEN TargetSlots ELSE ActorSlots)
Pool == 0 .. PoolSize - 1
NoId == -1
Handles == [kind : Kinds, slot : 1 .. Max({TargetSlots, ActorSlots}),
            token : 1 .. MaxToken]

Empty == [active |-> FALSE, nativeId |-> NoId, token |-> 0]
\* who: the token of the handle the native actor was made for.
Unused == [inUse |-> FALSE, legacy |-> FALSE, hurt |-> FALSE,
           overlap |-> FALSE, who |-> 0]
NoReference == [id |-> NoId, who |-> 0]

ActorInit ==
  /\ slots = [kind \in Kinds |-> [s \in SlotsOf(kind) |-> Empty]]
  /\ pool = [i \in Pool |-> Unused]
  /\ contacts = <<>>
  /\ reference = NoReference
  /\ nextToken = 0
  /\ held = {} /\ retired = {}

(***************************************************************************)
(* Pieces of the calls.                                                    *)
(***************************************************************************)
InUse == {i \in Pool : pool[i].inUse}
Active(kind) == {s \in SlotsOf(kind) : slots[kind][s].active}
Native(kind) == {slots[kind][s].nativeId : s \in Active(kind)}

\* target_find and host_actor_find.  FindsBySlot is a mistake.
FindsBySlot(h) == h.slot \in Active(h.kind)
Finds(h) == h.slot \in Active(h.kind) /\ slots[h.kind][h.slot].token = h.token

\* purge_contacts, for a set of native actors.  Two mistakes: leave them; take
\* those of all others as well.
Unpurged(ids) == contacts
PurgesAll(ids) == <<>>
Purged(ids) == Picked(contacts, {n \in DOMAIN contacts : contacts[n].id \notin ids})

\* oot_target_remove, oot_host_actor_remove and liboot_target_release.  A
\* mistake: the slot stays in use.
PurgesOnly(ids) == contacts' = Purged(ids) /\ UNCHANGED pool

Release(ids) ==
  /\ pool' = [i \in Pool |-> IF i \in ids THEN Unused ELSE pool[i]]
  /\ contacts' = Purged(ids)

Retire(handles) ==
  /\ held' = held \ handles
  /\ retired' = retired \cup handles

\* Native slots a new actor may take: the game no longer points to them.
Takable == (Pool \ InUse) \ {reference.id}

(***************************************************************************)
(* The calls.                                                              *)
(***************************************************************************)
\* oot_engine_target_create and oot_engine_host_actor_create.
CreateActor(kind, hurt) ==
  /\ Ready /\ linkActive
  /\ kind = "target" =>
       /\ ~hurt
       /\ Cardinality({i \in InUse : pool[i].legacy}) < TargetSlots
  /\ Active(kind) # SlotsOf(kind) /\ Takable # {} /\ nextToken < MaxToken
  /\ LET s == Min(SlotsOf(kind) \ Active(kind))
         i == Min(Takable)
         token == nextToken + 1
     IN  /\ nextToken' = token
         /\ pool' = [pool EXCEPT ![i] =
                       [inUse |-> TRUE, legacy |-> kind = "target",
                        hurt |-> hurt, overlap |-> FALSE, who |-> token]]
         /\ contacts' = Purged({i})
         /\ slots' = [slots EXCEPT ![kind][s] =
                        [active |-> TRUE, nativeId |-> i, token |-> token]]
         /\ held' = held \cup {[kind |-> kind, slot |-> s, token |-> token]}
  /\ UNCHANGED <<vars, reference, retired>>

\* oot_engine_host_actor_update: may give the actor a hurt volume or take it
\* away, which also ends the overlap.
UpdateActor(h, hurt) ==
  /\ Ready /\ linkActive /\ h.kind = "actor" /\ Finds(h)
  /\ LET i == slots[h.kind][h.slot].nativeId
     IN  pool' = [pool EXCEPT ![i].hurt = hurt,
                              ![i].overlap = @ /\ hurt]
  /\ UNCHANGED <<vars, slots, contacts, reference, nextToken, held, retired>>

\* oot_engine_target_remove and oot_engine_host_actor_remove.
RemoveActor(h) ==
  /\ Ready /\ linkActive /\ Finds(h)
  /\ Release({slots[h.kind][h.slot].nativeId})
  /\ slots' = [slots EXCEPT ![h.kind][h.slot].active = FALSE,
                            ![h.kind][h.slot].nativeId = NoId]
  /\ Retire({h})
  /\ UNCHANGED <<vars, reference, nextToken>>

\* targets_invalidate and host_actors_invalidate for a set of kinds.
Invalidated(kinds) ==
  [kind \in Kinds |-> [s \in SlotsOf(kind) |->
     IF kind \in kinds
     THEN [slots[kind][s] EXCEPT !.active = FALSE, !.nativeId = NoId]
     ELSE slots[kind][s]]]

\* oot_engine_targets_clear and oot_engine_host_actors_clear.
ClearActors(kind) ==
  /\ Ready /\ linkActive
  /\ slots' = Invalidated({kind})
  /\ Release(Native(kind))
  /\ Retire({h \in held : h.kind = kind})
  /\ UNCHANGED <<vars, reference, nextToken>>

\* oot_engine_host_actor_poll_contact: contacts of an actor without a handle
\* are skipped.
PollContact ==
  /\ Ready /\ linkActive /\ contacts # <<>>
  /\ LET mine == {n \in DOMAIN contacts : contacts[n].id \in Native("actor")}
         last == IF mine = {} THEN Len(contacts) ELSE Min(mine)
     IN  contacts' = SubSeq(contacts, last + 1, Len(contacts))
  /\ UNCHANGED <<vars, slots, pool, reference, nextToken, held, retired>>

(***************************************************************************)
(* What the session does to the actors.                                    *)
(***************************************************************************)
\* liboot_despawn_actors: every actor but the Player goes, and nothing points
\* to one any more.
Despawn == Release(Pool) /\ reference' = NoReference

\* liboot_link_init starts with no other actor.
CreateLink ==
  /\ LinkCreate
  /\ Despawn
  /\ UNCHANGED <<slots, nextToken, held, retired>>

\* oot_engine_link_delete removes the native actors by handle first.
DeleteLink ==
  /\ LinkDelete
  /\ slots' = Invalidated(Kinds)
  /\ Despawn
  /\ Retire(held)
  /\ UNCHANGED nextToken

\* oot_engine_link_set_age leaves the native actors to oot_link_set_age, which
\* despawns them only when its own copy of the age changes.
ChangeAge(age) ==
  /\ LinkSetAge(age)
  /\ IF age = currentAge
     THEN UNCHANGED <<slots, held, retired>>
     ELSE slots' = Invalidated(Kinds) /\ Retire(held)
  /\ IF linkAge' # linkAge THEN Despawn
     ELSE UNCHANGED <<pool, contacts, reference>>
  /\ UNCHANGED nextToken

\* queue_contact drops the oldest contact when the ring is full.  A mistake:
\* it does not.
Unbounded(sequence) == sequence

Queued(sequence) ==
  SubSeq(sequence, Max({1, Len(sequence) - QueueCapacity + 1}), Len(sequence))

\* The contacts of a set of native actors.
Struck(ids) ==
  [n \in 1 .. Cardinality(ids) |->
     [id |-> Ascending(ids)[n], who |-> pool[Ascending(ids)[n]].who]]

\* A tick.  Weapons overlap some of the actors that can be hurt, and each new
\* overlap is one contact: the classes of weapons are not told apart.  The game
\* may lock on to an actor in use and lets go of one that is gone.  Nothing
\* moves while Link is frozen.
TickActors(hit) ==
  /\ StepOnce({})
  /\ contacts' = Queued(contacts \o Struck({i \in hit : ~pool[i].overlap}))
  /\ pool' = [i \in Pool |-> [pool[i] EXCEPT !.overlap = i \in hit]]
  /\ \E r \in {NoReference} \cup {[id |-> i, who |-> pool[i].who] : i \in InUse} :
       reference' = r
  /\ UNCHANGED <<slots, nextToken, held, retired>>

FrozenTick == StepOnce({}) /\ UNCHANGED actorVars

-----------------------------------------------------------------------------
ActorNext ==
  \/ \E kind \in Kinds, hurt \in BOOLEAN : CreateActor(kind, hurt)
  \/ \E h \in held \cup retired : RemoveActor(h) \/ \E hurt \in BOOLEAN : UpdateActor(h, hurt)
  \/ \E kind \in Kinds : ClearActors(kind)
  \/ PollContact
  \/ \E w \in Statics : StaticWorldLoad(w) /\ UNCHANGED actorVars
  \/ CreateLink \/ DeleteLink
  \/ \E age \in Ages : ChangeAge(age)
  \/ \E hit \in SUBSET {i \in InUse : pool[i].hurt} : TickActors(hit)
  \/ FrozenTick

ActorSpec == Init /\ ActorInit /\ [][ActorNext]_<<vars, actorVars>>

-----------------------------------------------------------------------------
(***************************************************************************)
(* Properties.                                                             *)
(***************************************************************************)
\* The type of every variable of this module.
ActorTypeOK ==
  /\ \A kind \in Kinds : slots[kind] \in
       [SlotsOf(kind) -> [active : BOOLEAN, nativeId : Pool \cup {NoId},
                          token : 0 .. MaxToken]]
  /\ pool \in [Pool -> [inUse : BOOLEAN, legacy : BOOLEAN, hurt : BOOLEAN,
                        overlap : BOOLEAN, who : 0 .. MaxToken]]
  /\ contacts \in Seq([id : Pool, who : 1 .. MaxToken])
  /\ Len(contacts) <= QueueCapacity
  /\ reference \in [id : Pool \cup {NoId}, who : 0 .. MaxToken]
  /\ nextToken \in 0 .. MaxToken
  /\ held \subseteq Handles /\ retired \subseteq Handles

\* Of all the handles there could be the tables accept just those the host may
\* still use, and each names the native actor that was made for it: not a freed
\* one, not one that another call has put in its place.  One that was removed,
\* cleared or invalidated by Link's deletion or a change of age is refused for
\* ever, also after its slot has been reused.
HandlesAreExact ==
  /\ \A h \in Handles : Finds(h) <=> h \in held
  /\ \A h \in held : LET i == slots[h.kind][h.slot].nativeId
                     IN  i \in InUse /\ pool[i].who = h.token
  /\ held \cap retired = {}

\* What is known of a removed actor never passes to its successor in the
\* native slot: every queued contact belongs to the actor that now stands there,
\* and Link's lock-on does not jump to one that took the place of its actor.
ContactsAreCurrent ==
  \A n \in DOMAIN contacts : /\ contacts[n].id \in InUse
                             /\ pool[contacts[n].id].who = contacts[n].who

LockOnKeepsItsActor ==
  reference.id \in InUse => pool[reference.id].who = reference.who

SuccessorsInheritNothing == ContactsAreCurrent /\ LockOnKeepsItsActor

\* No native actor loses its handle, after which the host could not move or
\* remove it any more, except in a change of age that the native side takes for
\* none.
Orphans == InUse \ UNION {Native(kind) : kind \in Kinds}

NoNewOrphans ==
  [][\/ Orphans' \subseteq Orphans
     \/ \E age \in Ages : ChangeAge(age) /\ age = linkAge]_<<vars, actorVars>>

\* What a host may believe of its actors, whatever tables, pool and ring are
\* behind them.  By HandlesAreExact the live handles are those the tables
\* accept.  A contact is known by the actor it was made for, not by his place in
\* the pool.
Hosted == INSTANCE HostedActors WITH
  Capacity <- QueueCapacity,
  live <- held,
  gone <- retired,
  mail <- [n \in DOMAIN contacts |-> contacts[n].who]

ActorsAreHosted == Hosted!Spec

\* The documentation of oot_engine_link_set_age: a successful change of age
\* destroys all actors but the Player.
AgeChangeDestroysActors ==
  [][\A age \in Ages :
       ChangeAge(age) /\ age # currentAge => \A i \in Pool : ~pool'[i].inUse]_<<vars, actorVars>>
=============================================================================
