----------------------------- MODULE HeldItems -----------------------------
(***************************************************************************)
(* Link's hands: the item he holds, the actors it spawns (bombs, the       *)
(* hookshot, arrows) and the pointers the two sides keep of each other.    *)
(*                                                                         *)
(* One tick of liboot_link_update is Player_Update (one step here, made of *)
(* the functions of z_player.c it calls) followed by one step per spawned  *)
(* actor: its update, or Actor_Delete when it has been killed.  Between    *)
(* two ticks the host may ask for an item (oot_link_use_item, which calls  *)
(* Player_UseItem whatever Link is doing) or spawn a bomb of its own       *)
(* (oot_actor_spawn).                                                      *)
(*                                                                         *)
(* Every function of z_player.c is an operator on a world w: its fields    *)
(* are l (Link), a (the actors), use and hold (the statics sUseHeldItem    *)
(* and sHeldItemButtonIsHeldDown, which no tick inherits), busy (what the  *)
(* upper action returned) and fault (a NULL or freed actor was used).      *)
(* What the hands do not decide (buttons, animations, geometry) is the     *)
(* record `in`, chosen afresh every tick.                                  *)
(***************************************************************************)
EXTENDS Integers, FiniteSets

CONSTANTS
  Slots,          \* actors there is room for: 1 .. Slots
  MaxExplosives,  \* Player_UseItem refuses a bomb when so many are out
  Fuse,           \* ticks a bomb burns
  LastOffer,      \* a bomb offers itself for carrying while its timer is no less
  Burst,          \* ticks an explosion lasts
  Reach,          \* ticks the hookshot flies out
  Flight,         \* ticks an arrow flies, and ticks it stays where it stuck
  HostBombs,      \* whether the host spawns bombs of its own
  PatientHost     \* whether the host asks for an item only when HandsAtRest

ASSUME HeldItemsAssumption ==
  /\ {Slots, MaxExplosives, Fuse, Burst, Reach, Flight} \subseteq Nat \ {0}
  /\ LastOffer \in 0 .. Fuse
  /\ {HostBombs, PatientHost} \subseteq BOOLEAN

VARIABLES
  link,    \* the Player fields about the hands
  actors,  \* the spawned actors, by slot
  button,  \* the item on C-left: equips.buttonItems[1]
  turn,    \* whose step it is: "host" or "actors"
  todo,    \* the slots this tick has still to visit
  fault    \* a NULL or freed actor has been dereferenced

vars == <<link, actors, button, turn, todo, fault>>

Slot == 1 .. Slots
NULL == 0

Items == {"bomb", "hookshot", "bow"}
Actions == {"free", "air", "busy", "hurt", "putaway", "lift", "lifted", "release", "fly"}
Uppers == {"idle", "ready", "aim", "shot", "lower", "carry", "change", "changed"}

NoActor == [kind |-> "none", phase |-> "none", parent |-> FALSE, pulls |-> FALSE, timer |-> 0]

(* Item ids and item actions agree but for "none_fe", a second empty id.   *)
ItemToAction(id) == IF id = "none_fe" THEN "none" ELSE id

(* sItemActionUpdateFuncs                                                  *)
ItemUpper(ia) == CASE ia = "none" -> "idle"
                   [] ia = "bomb" -> "carry"
                   [] OTHER       -> "ready"

HoldsHookshot(l) == l.ia = "hookshot"
HookIsOut(l) == HoldsHookshot(l) /\ l.held = NULL
Explosives(a) == {s \in Slot : a[s].kind = "bomb"}
(* Player_UpperAction_ChangeHeldItem, before and after the frame on which  *)
(* the items change over.                                                  *)
ChangingOver(l) == l.upper \in {"change", "changed"}
Abs(n) == IF n < 0 THEN -n ELSE n

-----------------------------------------------------------------------------
(* Actor_SpawnAsChild.  Link's child becomes the new actor; when there is  *)
(* no room the result is NULL and nothing changes.                         *)

Fresh(kind) == [kind   |-> kind,
                phase  |-> CASE kind = "bomb" -> "move" [] kind = "arrow" -> "nocked" [] OTHER -> "wait",
                parent |-> TRUE,
                pulls  |-> FALSE,
                timer  |-> IF kind = "bomb" THEN Fuse ELSE 0]

SpawnSlot(a) == LET free == {s \in Slot : a[s] = NoActor}
                IN  IF free = {} THEN NULL ELSE CHOOSE s \in free : \A t \in free : s <= t

SpawnAsChild(w, kind) ==
  LET s == SpawnSlot(w.a)
  IN  IF s = NULL THEN w ELSE [w EXCEPT !.a[s] = Fresh(kind), !.l.child = s]

(* A write through a pointer to an actor: dead ones are still allocated,   *)
(* freed ones are not.                                                     *)
Through(w, s) == [w EXCEPT !.fault = @ \/ s \notin Slot \/ w.a[s] = NoActor]
(* Mistake: the actor is not told.                                         *)
NotTold(w, s) == Through(w, s)
Orphan(w, s) ==
  IF Through(w, s).fault THEN Through(w, s) ELSE [w EXCEPT !.a[s].parent = FALSE]

-----------------------------------------------------------------------------
(* The item in hand.  The functions call each other in a cycle that ends   *)
(* after one round: InitExplosiveIA may put the held item away, and        *)
(* putting away initialises only "none".                                   *)

InitPlain(w, ia) ==
  [w EXCEPT !.l.ia = ia, !.l.draw = IF ia \in {"bow", "hookshot"} THEN -1 ELSE 0]

HoldsNoBomb(w) ==
  IF w.l.ia = "bomb" THEN [InitPlain(w, "none") EXCEPT !.l.id = "none_fe"] ELSE w

DetachHeldActor(w) ==
  HoldsNoBomb(IF w.l.held # NULL /\ ~HoldsHookshot(w.l)
                THEN [Orphan(w, w.l.held) EXCEPT !.l.held = NULL, !.l.child = NULL,
                                                 !.l.range = NULL, !.l.carrying = FALSE]
                ELSE w)

DestroyHookshot(w) ==
  IF HoldsHookshot(w.l) /\ w.l.held # NULL
    THEN [Through(w, w.l.held) EXCEPT !.a[w.l.held].phase = "dead",
                                      !.l.child = NULL, !.l.held = NULL]
    ELSE w

(* The branches of Player_UseItem: the item in hand is used, the change to *)
(* another is announced, or, announced already, it is carried out.         *)
UseHeldItem(w) == [w EXCEPT !.use = TRUE, !.hold = TRUE]
Announce(w, id) == [w EXCEPT !.l.id = id, !.l.changing = TRUE]

UseNone(w, id) ==
  IF w.l.ia = "none" THEN UseHeldItem(w)
  ELSE IF id # w.l.id THEN Announce(w, id)
  ELSE InitPlain(DetachHeldActor(DestroyHookshot(w)), "none")

PutAwayHeldItem(w) == IF w.l.ia = "none" THEN w ELSE UseNone(w, "none")

InitExplosiveIA(w) ==
  IF w.l.carrying THEN PutAwayHeldItem(w)
  ELSE LET s == SpawnSlot(w.a)
       IN  IF s = NULL THEN w
           ELSE [SpawnAsChild(w, "bomb") EXCEPT !.l.range = s, !.l.held = s, !.l.carrying = TRUE]

InitHookshotIA(w) == [SpawnAsChild(w, "hookshot") EXCEPT !.l.held = SpawnSlot(w.a)]

InitItemAction(w, ia) ==
  CASE ia = "bomb"     -> InitExplosiveIA(InitPlain(w, ia))
    [] ia = "hookshot" -> InitHookshotIA(InitPlain(w, ia))
    [] OTHER           -> InitPlain(w, ia)

(* Player_UseItem.  What sItemChangeTypes says of the animations never     *)
(* spares one of these items the announcement of its change.               *)
UseItem(w, id, ammo) ==
  LET ia == ItemToAction(id) IN
  IF ia = "none" THEN UseNone(w, id)
  ELSE IF ia = "bomb" /\ (~ammo \/ Cardinality(Explosives(w.a)) >= MaxExplosives) THEN w
  ELSE IF ia # w.l.ia \/ (w.l.held = NULL /\ ia = "bomb")
    THEN IF id # w.l.id THEN Announce(w, id)
         ELSE InitItemAction(DetachHeldActor(DestroyHookshot(w)), ia)
  ELSE UseHeldItem(w)

-----------------------------------------------------------------------------
(* The upper body.                                                         *)

FinishItemChange(w, in) == UseItem(w, w.l.id, in.ammo)

(* func_80834644                                                           *)
NewUpper(w) ==
  [DetachHeldActor([w EXCEPT !.l.upper = ItemUpper(w.l.ia)]) EXCEPT !.l.changing = FALSE]
ResetUpper(w, in) == NewUpper(IF ChangingOver(w.l) THEN FinishItemChange(w, in) ELSE w)

(* Player_SetupAction; `keep` is bit 0 of its flags.                       *)
SetupAction(w, act, keep, in) ==
  IF w.l.act = act THEN w
  ELSE IF keep \/ w.l.carrying THEN [w EXCEPT !.l.act = act]
  ELSE ResetUpper([w EXCEPT !.l.act = act], in)

(* func_80832440 and func_80832564: Link lets go of whatever it is.        *)
(* Mistake: the flag is left to whoever set it.                            *)
GoesOnCarrying(w) == w
StopCarrying(w) ==
  IF w.l.carrying /\ w.l.held = NULL THEN [w EXCEPT !.l.carrying = FALSE, !.l.range = NULL] ELSE w
LetGo(w) == DetachHeldActor(StopCarrying(w))

(* func_80835644: nothing where an actor was expected.                     *)
LostIt(w, in) == SetupAction(LetGo(w), "free", TRUE, in)

(* func_80834FBC: the hookshot is back when Link has a child again.        *)
Received(w) == IF w.l.child # NULL /\ w.l.held = NULL THEN [w EXCEPT !.l.held = w.l.child] ELSE w

(* func_8083442C                                                           *)
Raise(w, in) ==
  IF w.l.draw >= 0 /\ ~HoldsHookshot(w.l) /\ in.ammo
    THEN [SpawnAsChild(w, "arrow") EXCEPT !.l.held = SpawnSlot(w.a), !.l.upper = "aim"]
    ELSE [w EXCEPT !.l.upper = "aim"]

(* func_808350A4                                                           *)
Fire(w) ==
  IF w.l.held = NULL THEN w
  ELSE [Orphan(w, w.l.held) EXCEPT !.l.shot = TRUE, !.l.child = NULL, !.l.held = NULL]

Busy(w, b) == [w EXCEPT !.busy = b]

(* func_8083501C, with func_80834F2C and func_80834D2C.  Mistake: a state  *)
(* that is lowered already is lowered once more.                           *)
LoweredTwice(w) == [w EXCEPT !.l.draw = @ - 1]
Lowered(w) == [w EXCEPT !.l.draw = IF @ >= 0 THEN -@ ELSE @]
ReceivedByHook(w) == IF HoldsHookshot(w.l) THEN Received(w) ELSE w
UpperReady(w, in) ==
  IF HoldsHookshot(w.l) /\ w.l.child = NULL THEN Busy(Lowered(w), TRUE)
  ELSE IF w.use THEN Busy(Raise(ReceivedByHook(Lowered(w)), in), in.target)
  ELSE Busy(ReceivedByHook(Lowered(w)), FALSE)

(* Player_UpperAction_CarryActor                                           *)
Carried(w, held) == Busy(IF w.l.carrying THEN Through(w, held) ELSE w, w.l.carrying)
UpperCarry(w, in) ==
  Carried(IF w.l.held = NULL THEN ResetUpper(w, in) ELSE w, w.l.held)

UpperOfItem(w, in) ==
  CASE w.l.upper = "ready" -> UpperReady(w, in)
    [] w.l.upper = "carry" -> UpperCarry(w, in)
    [] OTHER               -> Busy(w, FALSE)

(* Player_UpperAction_ChangeHeldItem                                       *)
UpperChange(w, in) ==
  LET done == ItemToAction(w.l.id) = w.l.ia
      over == w.l.upper = "changed" /\ in.upper = "end"
      use  == w.use \/ (~over /\ done)
  IN  IF over \/ done
        THEN UpperOfItem([w EXCEPT !.l.upper = ItemUpper(w.l.ia), !.use = use, !.hold = use], in)
      ELSE IF w.l.upper = "change" /\ in.upper = "frame"
        THEN Busy([FinishItemChange(w, in) EXCEPT !.l.upper = "changed"], TRUE)
      ELSE Busy(w, TRUE)

(* func_808351D4                                                           *)
UpperAim(w, in) ==
  Busy(IF ~(in.upper = "end" /\ (w.l.draw < 0 \/ ~w.hold)) THEN w
       ELSE IF w.l.draw >= 0 /\ (HoldsHookshot(w.l) => in.ground)
         THEN Fire([w EXCEPT !.l.upper = "shot"])
       ELSE [w EXCEPT !.l.upper = "shot"], TRUE)

(* func_808353D8                                                           *)
AfterShot(w, in) ==
  IF w.use \/ (w.l.draw < 0 /\ w.hold) THEN Raise([w EXCEPT !.l.draw = Abs(@)], in)
  ELSE IF in.target THEN w
  ELSE [w EXCEPT !.l.upper = IF HoldsHookshot(w.l) THEN "ready" ELSE "lower"]
UpperShot(w, in) ==
  Busy(IF HoldsHookshot(w.l) /\ w.l.child = NULL THEN w
       ELSE AfterShot(ReceivedByHook(w), in), TRUE)

(* func_80835588                                                           *)
UpperLower(w, in) ==
  Busy(IF ~in.ground \/ in.upper = "end" THEN [w EXCEPT !.l.upper = "ready"] ELSE w, TRUE)

UpperAction(w, in) ==
  CASE ChangingOver(w.l) -> UpperChange(w, in)
    [] w.l.upper = "aim"    -> UpperAim(w, in)
    [] w.l.upper = "shot"   -> UpperShot(w, in)
    [] w.l.upper = "lower"  -> UpperLower(w, in)
    [] OTHER                -> UpperOfItem(w, in)

ProcessItemButtons(w, in) ==
  IF w.l.carrying \/ HookIsOut(w.l) THEN w
  ELSE IF w.l.ia # "none" /\ button # w.l.ia THEN UseNone(w, "none")
  ELSE IF in.item = "press" /\ button # "none" THEN UseItem(w, button, in.ammo)
  ELSE IF in.item # "up" /\ button # "none" /\ button = w.l.ia THEN [w EXCEPT !.hold = TRUE]
  ELSE w

(* Player_StartChangingHeldItem                                            *)
StartChanging(w) ==
  IF w.l.changing THEN [w EXCEPT !.l.upper = "change", !.l.changing = FALSE] ELSE w

UpdateItems(w, in) == StartChanging(IF w.l.changing THEN w ELSE ProcessItemButtons(w, in))

CanUpdateItems(l) ==
  /\ l.act = "putaway" => l.changing /\ l.id = "none"
  /\ ChangingOver(l) => ItemToAction(l.id) = l.ia

UpdateUpperBody(w, in) ==
  IF w.l.parent # NULL /\ HoldsHookshot(w.l)
    THEN Busy(SetupAction(w, "fly", TRUE, in), TRUE)
    ELSE UpperAction(IF CanUpdateItems(w.l) THEN UpdateItems(w, in) ELSE w, in)

-----------------------------------------------------------------------------
(* What Link's action does to his hands.                                   *)

(* Player_ActionHandler_2: A beside something to lift.                     *)
StartLift(w, in) ==
  [PutAwayHeldItem(SetupAction(w, "putaway", FALSE, in)) EXCEPT !.l.carrying = TRUE]

(* Player_TryActionHandlerList, for the handlers that touch the hands; any *)
(* other one starts an action of its own.                                  *)
TryActionHandlers(w, in) ==
  IF w.l.act # "free" \/ HookIsOut(w.l) \/ w.l.changing \/ ChangingOver(w.l) THEN w
  ELSE IF in.a /\ w.l.range # NULL /\ ~w.l.carrying /\ (w.l.held = NULL \/ HoldsHookshot(w.l))
    THEN StartLift(w, in)
  ELSE IF (in.a \/ in.item = "press") /\ w.l.carrying /\ w.l.held # NULL
    THEN SetupAction(w, "release", TRUE, in)
  ELSE IF in.event = "other" /\ ~w.l.carrying THEN SetupAction(w, "busy", FALSE, in)
  ELSE w

ActionFree(w, in) == TryActionHandlers(UpdateUpperBody(w, in), in)

(* Player_Action_8084411C                                                  *)
ActionAir(w, in) ==
  IF in.ground THEN SetupAction(w, "free", TRUE, in)
  ELSE UpdateUpperBody(IF w.l.carrying /\ w.l.held = NULL THEN LostIt(w, in) ELSE w, in)

(* func_8083A0F4, once the hands have nothing left to do                   *)
AfterPutAway(w, in) ==
  IF w.busy THEN w
  ELSE IF w.l.range # NULL /\ w.l.held = NULL
    THEN SetupAction(Through(w, w.l.range), "lift", FALSE, in)
    ELSE [SetupAction(w, "free", TRUE, in) EXCEPT !.l.carrying = FALSE]

(* Player_Action_WaitForPutAway                                            *)
ActionPutAway(w, in) ==
  AfterPutAway(IF w.l.carrying /\ w.l.held # NULL THEN w ELSE UpdateUpperBody(w, in), in)

(* Player_Action_80846050 up to the frame that lifts, and after it.        *)
ActionLift(w, in) ==
  IF in.body # "frame" THEN w
  ELSE IF w.l.range = NULL THEN LostIt(w, in)
  ELSE IF Through(w, w.l.range).fault THEN Through(w, w.l.range)
  ELSE [w EXCEPT !.l.held = w.l.range, !.l.child = w.l.range,
                 !.a[w.l.range].parent = TRUE, !.l.act = "lifted"]

ActionLifted(w, in) ==
  IF in.body # "end" THEN w
  ELSE IF w.l.held = NULL THEN LostIt(SetupAction(w, "free", TRUE, in), in)
  ELSE [SetupAction(w, "free", TRUE, in) EXCEPT !.l.upper = "carry"]

(* Player_Action_808464B0 (put) and Player_Action_80846578 (throw): after  *)
(* the frame that lets go, the rest of the animation is "busy".            *)
ActionRelease(w, in) ==
  IF in.body # "frame" THEN w
  ELSE IF w.l.held = NULL THEN LostIt(w, in)
  ELSE [ResetUpper(Through(w, w.l.held), in) EXCEPT !.l.act = "busy"]

(* Player_Action_HookshotFly                                               *)
ActionFly(w, in) ==
  IF w.l.child = NULL THEN w ELSE SetupAction(Received(w), "air", FALSE, in)

ActionFunc(w, in) ==
  CASE w.l.act = "free"            -> ActionFree(w, in)
    [] w.l.act = "air"             -> ActionAir(w, in)
    [] w.l.act = "putaway"         -> ActionPutAway(w, in)
    [] w.l.act = "lift"            -> ActionLift(w, in)
    [] w.l.act = "lifted"          -> ActionLifted(w, in)
    [] w.l.act = "release"         -> ActionRelease(w, in)
    [] w.l.act = "fly"             -> ActionFly(w, in)
    [] OTHER                       -> IF in.body = "end" THEN SetupAction(w, "free", TRUE, in) ELSE w

(* The start of Player_Update: actors killed in the tick before.           *)
Dead(w, s) == s # NULL /\ w.a[s].phase = "dead"
DropHeld(w) == IF Dead(w, w.l.held) THEN DetachHeldActor(w) ELSE w
DropDead(w) == DropHeld(IF Dead(w, w.l.range) THEN [w EXCEPT !.l.range = NULL] ELSE w)

(* Player_UpdateCommon before the action: a hit knocks Link back, or the   *)
(* floor ends under him (func_8083AA10), whatever he is doing.             *)
Fallen(w, in) == StopCarrying(SetupAction(w, "air", TRUE, in))
Disturb(w, in) ==
  CASE in.event = "hit"  -> LetGo(SetupAction(w, "hurt", FALSE, in))
    [] in.event = "fall" -> Fallen(w, in)
    [] OTHER             -> w

EndOfUpdate(w) == IF w.l.carrying THEN w ELSE [w EXCEPT !.l.range = NULL]

PlayerUpdated(w, in) == EndOfUpdate(ActionFunc(Disturb(DropDead(w), in), in))

(* A world, and what is left of it when the function returns.              *)
World(l) == [l |-> l, a |-> actors, use |-> FALSE, hold |-> FALSE, busy |-> FALSE, fault |-> fault]
Sets(w) == \E x \in {w} : link' = x.l /\ actors' = x.a /\ fault' = x.fault

-----------------------------------------------------------------------------
(* What a tick does not get from the hands: buttons, the floor, the        *)
(* animations.  A field whose value Link would not look at this tick has   *)
(* one value only.                                                         *)

(* A Link the hookshot pulls neither falls nor is hurt; one who is hurt is *)
(* not hurt again.  (The fall of a Link who is still knocked back is more  *)
(* than the code allows.)                                                  *)
Events(l) ==
  {"none"} \cup (IF l.act = "free" THEN {"other"} ELSE {})
           \cup (IF l.act = "fly" \/ l.parent # NULL THEN {}
                 ELSE ({"hit", "fall"} \ (IF l.act = "hurt" THEN {"hit"} ELSE {}))
                        \ (IF l.act = "air" THEN {"fall"} ELSE {}))

ActionAfter(l, event) == CASE event = "hit" -> "hurt" [] event = "fall" -> "air" [] OTHER -> l.act

InputsAt(l, act, event) ==
  LET upright == act \in {"free", "air", "putaway"}
      free(b) == IF b THEN BOOLEAN ELSE {FALSE}
      frames(b) == IF b THEN {"play", "frame", "end"} ELSE {"play"}
  IN  [item   : IF upright /\ button # "none" THEN {"up", "hold", "press"} ELSE {"up"},  \* C-left
       a      : free(act = "free" /\ (l.carrying \/ l.range # NULL)),    \* A pressed
       target : free(upright /\ l.upper \in {"change", "changed", "ready", "shot"}), \* Z-targeting
       ground : free(event # "fall" /\ (act = "air" \/ l.upper \in {"aim", "lower"})),
       ammo   : free((upright /\ button # "none") \/ ChangingOver(l)),   \* bombs and arrows left
       body   : frames(~upright /\ act # "fly" /\ event # "hit"),        \* the body's animation
       upper  : frames(upright /\ l.upper \in {"change", "changed", "aim", "lower"}), \* the upper body's
       event  : {event}]

Inputs(l) == UNION {InputsAt(l, ActionAfter(l, e), e) : e \in Events(l)}

Init ==
  /\ link = [act |-> "free", upper |-> "idle", ia |-> "none", id |-> "none", changing |-> FALSE,
             carrying |-> FALSE, held |-> NULL, child |-> NULL, range |-> NULL, parent |-> NULL,
             draw |-> 0, shot |-> FALSE]
  /\ actors = [s \in Slot |-> NoActor]
  /\ button = "none"
  /\ turn = "host"
  /\ todo = {}
  /\ fault = FALSE

(* A host that waits: nothing it asked for is still under way, Link is on  *)
(* his feet, the hookshot is home and the carrying flag means a load.      *)
HandsAtRest ==
  /\ link.act = "free"
  /\ ~link.changing /\ ~ChangingOver(link) /\ ItemToAction(link.id) = link.ia
  /\ ~HookIsOut(link) /\ link.parent = NULL
  /\ link.carrying => link.held # NULL

(* oot_link_use_item, with the ammunition liboot_give_item fills up.       *)
HostUseItem(id) ==
  /\ turn = "host" /\ (PatientHost => HandsAtRest)
  /\ Sets(UseItem(World(link), id, TRUE))
  /\ button' = id
  /\ UNCHANGED <<turn, todo>>

(* oot_actor_spawn(EN_BOM): no parent, and no limit but room.              *)
HostSpawnBomb ==
  /\ turn = "host" /\ HostBombs /\ SpawnSlot(actors) # NULL
  /\ actors' = [actors EXCEPT ![SpawnSlot(actors)] = [Fresh("bomb") EXCEPT !.parent = FALSE]]
  /\ UNCHANGED <<link, button, turn, todo, fault>>

(* Player_Update.  unk_A73 counts four ticks down from a shot: it lasts    *)
(* this tick at least.                                                     *)
PlayerUpdate ==
  /\ turn = "host"
  /\ \E in \in Inputs(link), shot \in {FALSE, link.shot} :
       Sets(PlayerUpdated(World([link EXCEPT !.shot = shot]), in))
  /\ todo' = {s \in Slot : actors'[s] # NoActor}
  /\ turn' = "actors"
  /\ UNCHANGED button

-----------------------------------------------------------------------------
(* The actors' turn: the explosives' list comes before the other lists.    *)

Visit(s) ==
  /\ turn = "actors" /\ s \in todo
  /\ Explosives(actors) \cap todo # {} => s \in Explosives(actors)
  /\ todo' = todo \ {s}
  /\ UNCHANGED <<button, turn, fault>>

Alive(s, kind) == actors[s].kind = kind /\ actors[s].phase # "dead"

Becomes(s, a) == actors' = [actors EXCEPT ![s] = a]
Stays(s) == Becomes(s, actors[s])
Kill(s) == Becomes(s, [actors[s] EXCEPT !.phase = "dead"])

(* Actor_Delete                                                            *)
Reap(s) ==
  /\ Visit(s) /\ actors[s].phase = "dead"
  /\ Becomes(s, NoActor)
  /\ UNCHANGED link

(* DECR of a timer.                                                        *)
Ticked(s) == IF actors[s].timer = 0 THEN 0 ELSE actors[s].timer - 1

(* Actor_OfferCarry, for a bomb that lies near Link.                       *)
Offered(s) ==
  IF link.ia # "bomb" /\ ~link.carrying THEN [link EXCEPT !.range = s] ELSE link

(* EnBom_Move and EnBom_WaitForRelease, then the end of EnBom_Update: at   *)
(* zero the explosion begins, and deep water puts the bomb out.            *)
BombBurns(s) ==
  /\ Visit(s) /\ Alive(s, "bomb") /\ actors[s].phase # "explode"
  /\ LET b == actors[s]
         loose == ~b.parent
     IN  /\ \E near \in BOOLEAN :
              link' = IF near /\ loose /\ Ticked(s) >= LastOffer THEN Offered(s) ELSE link
         /\ IF Ticked(s) = 0
              THEN Becomes(s, [b EXCEPT !.phase = "explode", !.timer = Burst])
              ELSE \E drowned \in BOOLEAN :
                     Becomes(s, [b EXCEPT !.timer = Ticked(s),
                                          !.phase = IF drowned THEN "dead"
                                                    ELSE IF loose THEN "move" ELSE "held"])

(* EnBom_Explode                                                           *)
BombExplodes(s) ==
  /\ Visit(s) /\ Alive(s, "bomb") /\ actors[s].phase = "explode"
  /\ IF Ticked(s) > 0
       THEN Becomes(s, [actors[s] EXCEPT !.timer = Ticked(s)]) /\ UNCHANGED link
       ELSE /\ Kill(s)
            /\ link' = IF link.carrying /\ link.held = s
                         THEN [link EXCEPT !.child = NULL, !.held = NULL, !.range = NULL,
                                           !.carrying = FALSE]
                         ELSE link

(* ArmsHook_Wait                                                           *)
HookWaits(s) ==
  /\ Visit(s) /\ Alive(s, "hookshot") /\ actors[s].phase = "wait"
  /\ IF actors[s].parent THEN Stays(s)
     ELSE Becomes(s, [actors[s] EXCEPT !.phase = "shoot", !.parent = TRUE, !.timer = Reach])
  /\ UNCHANGED link

(* ArmsHook_Shoot.  On its way out the hookshot may stop short (a wall, a  *)
(* button, a cancel), and where it stops may be a surface it pulls Link to *)
HookFlies(s) ==
  /\ actors[s].phase = "shoot" /\ actors[s].timer > 0
  /\ \E stop \in {"no", "wall", "hook"} :
       /\ stop = "no" => Ticked(s) > 0
       /\ Becomes(s, IF stop = "no" THEN [actors[s] EXCEPT !.timer = Ticked(s)]
                     ELSE [actors[s] EXCEPT !.timer = 0, !.pulls = (stop = "hook")])
       /\ link' = IF stop = "hook" THEN [link EXCEPT !.parent = s] ELSE link

(* ... then it comes back, or Link comes to it, and it is his again.  No   *)
(* timer runs: it arrives when the distance that is left has been covered, *)
(* and Link may be pulled to something that moves.                         *)
(* Mistake: Link is not given his child back.                              *)
HandedBackLoose(s) ==
  [link EXCEPT !.held = s, !.parent = IF actors[s].pulls THEN NULL ELSE @]
HandedBack(s) ==
  [link EXCEPT !.child = s, !.held = s, !.parent = IF actors[s].pulls THEN NULL ELSE @]

HookReturns(s) ==
  /\ actors[s].phase = "back" \/ Ticked(s) = 0
  /\ \/ /\ Becomes(s, [actors[s] EXCEPT !.phase = "back", !.timer = 0])
        /\ UNCHANGED link
     \/ /\ Becomes(s, [actors[s] EXCEPT !.phase = "wait", !.timer = 0, !.pulls = FALSE])
        /\ link' = HandedBack(s)

(* First of all, a hookshot whose owner no longer has a hookshot is gone.  *)
HookIsOnItsWay(s) ==
  /\ Visit(s) /\ Alive(s, "hookshot") /\ actors[s].phase # "wait"
  /\ IF actors[s].parent /\ HoldsHookshot(link)
       THEN HookFlies(s) \/ HookReturns(s)
       ELSE Kill(s) /\ UNCHANGED link

(* EnArrow_Shoot: loosed by a shot it flies, otherwise it is dropped.      *)
ArrowNocked(s) ==
  /\ Visit(s) /\ Alive(s, "arrow") /\ actors[s].phase = "nocked"
  /\ IF actors[s].parent THEN Stays(s)
     ELSE IF link.shot THEN Becomes(s, [actors[s] EXCEPT !.phase = "fly", !.timer = Flight])
     ELSE Kill(s)
  /\ UNCHANGED link

(* EnArrow_Fly and the two states of an arrow that stuck.                  *)
ArrowFlies(s) ==
  /\ Visit(s) /\ Alive(s, "arrow") /\ actors[s].phase \in {"fly", "stuck"}
  /\ IF Ticked(s) = 0 THEN Kill(s)
     ELSE \/ Becomes(s, [actors[s] EXCEPT !.timer = Ticked(s)])
          \/ actors[s].phase = "fly" /\ Becomes(s, [actors[s] EXCEPT !.phase = "stuck", !.timer = Flight])
          \/ actors[s].phase = "fly" /\ Kill(s)
  /\ UNCHANGED link

ActorUpdate(s) ==
  \/ Reap(s)
  \/ BombBurns(s) \/ BombExplodes(s)
  \/ HookWaits(s) \/ HookIsOnItsWay(s)
  \/ ArrowNocked(s) \/ ArrowFlies(s)

EndTick ==
  /\ turn = "actors" /\ todo = {}
  /\ turn' = "host"
  /\ UNCHANGED <<link, actors, button, todo, fault>>

Next ==
  \/ \E id \in Items \cup {"none"} : HostUseItem(id)
  \/ HostSpawnBomb
  \/ PlayerUpdate
  \/ \E s \in Slot : ActorUpdate(s)
  \/ EndTick

(* What the steps of a tick do to turn and todo, and no step of the host's *)
(* does: one of them is possible in every state.                           *)
TickGoesOn ==
  \/ turn = "host" /\ turn' = "actors" /\ todo' \in SUBSET Slot
  \/ turn = "actors" /\ turn' = "actors" /\ \E s \in todo : todo' = todo \ {s}
  \/ turn = "actors" /\ turn' = "host" /\ todo = {} /\ todo' = {}

(* A host that keeps stepping the engine; it promises nothing else.        *)
Spec == Init /\ [][Next]_vars /\ WF_<<turn, todo>>(TickGoesOn)

-----------------------------------------------------------------------------
Pointer == 0 .. Slots

(* Every field has its type.                                               *)
TypeOK ==
  /\ link \in [act : Actions, upper : Uppers, ia : Items \cup {"none"},
               id : Items \cup {"none", "none_fe"}, changing : BOOLEAN, carrying : BOOLEAN,
               held : Pointer, child : Pointer, range : Pointer, parent : Pointer,
               draw : {-1, 0, 1}, shot : BOOLEAN]
  /\ actors \in [Slot -> [kind : {"none", "bomb", "hookshot", "arrow"},
                          phase : {"none", "move", "held", "explode", "wait", "shoot", "back",
                                   "nocked", "fly", "stuck", "dead"},
                          parent : BOOLEAN, pulls : BOOLEAN, timer : 0 .. (Fuse + Burst + Reach + Flight)]]
  /\ button \in Items \cup {"none"}
  /\ turn \in {"host", "actors"}
  /\ todo \in SUBSET Slot
  /\ fault \in BOOLEAN

(* Between two ticks the pointers Link keeps lead to actors that are still *)
(* allocated, and no NULL or freed actor has been used, although an actor  *)
(* may be killed by a fuse, by water, by a wall or by Link himself in any  *)
(* action.  The other way round nobody is forgotten: an actor that         *)
(* believes Link holds it is the one he holds, or the hookshot on its way. *)
HoldIsMutual ==
  /\ ~fault
  /\ turn = "host" =>
       \A p \in {link.held, link.child, link.range, link.parent} \ {NULL} : actors[p] # NoActor
  /\ \A s \in Slot : actors[s].parent /\ actors[s].phase # "dead" =>
       \/ link.held = s
       \/ actors[s].kind = "hookshot" /\ HookIsOut(link)

(* What is put away is put away.  Without the hookshot in hand nothing     *)
(* pulls Link; and a carrying flag without a load is the intention to lift *)
(* something, or it was left by a lift that a fall or a hit interrupted    *)
(* (with the hookshot in hand StopCarrying clears nothing).  Such a flag   *)
(* meets empty hands only, never the upper action that uses the load.      *)
CarryingIsMeant ==
  turn = "host" /\ link.carrying /\ link.held = NULL =>
    /\ link.act \in {"putaway", "lift"} \/ link.ia = "none"
    /\ link.upper # "carry"
NothingPullsHim == link.ia # "hookshot" => link.parent = NULL
PutAwayIsComplete == CarryingIsMeant /\ NothingPullsHim

(* Every bomb is gone in the end, and with it its place under the limit.   *)
BombsGoOff == \A s \in Slot : actors[s].kind = "bomb" ~> actors[s].kind # "bomb"

(* A flight on the hookshot ends, and a shot hookshot comes back to Link's *)
(* hand; there must be one, as a spawn without room leaves him none.  The  *)
(* way back has no timer: a host that keeps moving the thing Link is       *)
(* pulled to away from him prolongs it, so this supposes that the hookshot *)
(* and Link come together again each time.                                 *)
HookExists == \E s \in Slot : Alive(s, "hookshot")
HandsBound == link.act = "fly" \/ (HookIsOut(link) /\ HookExists)
HookCatchesUp == []<>(\A s \in Slot : actors[s].phase # "back")
HandsComeBack == HookCatchesUp => (HandsBound ~> ~HandsBound)

(* Whatever comes from Link's hands ends: no bomb, no flight and no shot of *)
(* the hookshot keeps its place or his hands for ever.                     *)
NothingStaysOut == BombsGoOff /\ HandsComeBack
=============================================================================
