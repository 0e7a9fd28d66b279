--------------------------- MODULE HeldItems_proofs ---------------------------
(***************************************************************************)
(* Proof that the pointers between Link and the actors of his hands stay   *)
(* mutual, that none of them leads to a freed actor and that what is put   *)
(* away is put away, for any number of actors, any limit of explosives and *)
(* any fuse, reach and flight.                                             *)
(*                                                                         *)
(* The first part types every function of z_player.c that works on a       *)
(* world; the second says of each of them what it keeps in order; the      *)
(* third does so for the steps of the host and of the actors.              *)
(***************************************************************************)
EXTENDS HeldItems, FiniteSetTheorems, WellFoundedInduction, TLAPS

Links == [act : Actions, upper : Uppers, ia : Items \cup {"none"},
          id : Items \cup {"none", "none_fe"}, changing : BOOLEAN, carrying : BOOLEAN,
          held : Pointer, child : Pointer, range : Pointer, parent : Pointer,
          draw : {-1, 0, 1}, shot : BOOLEAN]
Timers == 0 .. (Fuse + Burst + Reach + Flight)
Actor == [kind : {"none", "bomb", "hookshot", "arrow"},
          phase : {"none", "move", "held", "explode", "wait", "shoot", "back",
                   "nocked", "fly", "stuck", "dead"},
          parent : BOOLEAN, pulls : BOOLEAN, timer : Timers]
Worlds == [l : Links, a : [Slot -> Actor], use : BOOLEAN, hold : BOOLEAN,
           busy : BOOLEAN, fault : BOOLEAN]
Ins == [item : {"up", "hold", "press"}, a : BOOLEAN, target : BOOLEAN, ground : BOOLEAN,
        ammo : BOOLEAN, body : {"play", "frame", "end"}, upper : {"play", "frame", "end"},
        event : {"none", "hit", "fall", "other"}]

-----------------------------------------------------------------------------
(* Types.                                                                  *)

LEMMA Pointing ==
  /\ Slots \in Nat \ {0} /\ Slot \subseteq Nat
  /\ Slot \subseteq Pointer /\ NULL \in Pointer /\ NULL \notin Slot
  /\ \A p \in Pointer : p # NULL => p \in Slot
<1>1. Slots \in Nat \ {0}
  BY HeldItemsAssumption
<1>. QED  BY <1>1 DEF Slot, Pointer, NULL

LEMMA Clocks ==
  /\ 0 \in Timers /\ Fuse \in Timers /\ Burst \in Timers /\ Reach \in Timers /\ Flight \in Timers
  /\ \A t \in Timers : t # 0 => t - 1 \in Timers
<1>1. Fuse \in Nat \ {0}
  BY HeldItemsAssumption
<1>2. Burst \in Nat \ {0}
  BY HeldItemsAssumption
<1>3. Reach \in Nat \ {0}
  BY HeldItemsAssumption
<1>4. Flight \in Nat \ {0}
  BY HeldItemsAssumption
<1>. QED  BY <1>1, <1>2, <1>3, <1>4 DEF Timers

LEMMA NowhereTyped == NoActor \in Actor
  BY Clocks DEF NoActor, Actor

\* A spawn takes a free slot if there is one.
LEMMA SpawnFinds ==
  ASSUME NEW a \in [Slot -> Actor]
  PROVE  /\ SpawnSlot(a) \in Pointer
         /\ SpawnSlot(a) # NULL => a[SpawnSlot(a)] = NoActor
         /\ SpawnSlot(a) = NULL <=> \A s \in Slot : a[s] # NoActor
<1>. DEFINE free == {s \in Slot : a[s] = NoActor}
<1>1. CASE free = {}
  BY <1>1, Pointing DEF SpawnSlot
<1>2. CASE free # {}
  <2>. DEFINE R == OpToRel(<, Nat)
  <2>1. IsWellFoundedOn(R, Nat)
    BY NatLessThanWellFounded
  <2>2. \A x, y \in Nat : <<y, x>> \in R <=> y < x
    BY DEF OpToRel
  <2>. HIDE DEF R
  <2>3. free \subseteq Nat
    BY Pointing
  <2>4. PICK s \in free : \A t \in free : ~(<<t, s>> \in R)
    BY <1>2, <2>1, <2>3, WFMin
  <2>5. \A t \in free : s <= t
    <3>. SUFFICES ASSUME NEW t \in free
                  PROVE  s <= t
      OBVIOUS
    <3>1. ~(t < s)
      BY <2>2, <2>3, <2>4
    <3>. QED  BY <2>3, <3>1
  <2>6. SpawnSlot(a) \in free
    BY <1>2, <2>5 DEF SpawnSlot
  <2>. QED  BY <2>6, Pointing
<1>. QED  BY <1>1, <1>2

LEMMA FreshTyped ==
  ASSUME NEW kind \in {"bomb", "hookshot", "arrow"}
  PROVE  Fresh(kind) \in Actor /\ Fresh(kind).kind = kind
  BY Clocks DEF Fresh, Actor

LEMMA SpawnTyped ==
  ASSUME NEW w \in Worlds, NEW kind \in {"bomb", "hookshot", "arrow"}
  PROVE  SpawnAsChild(w, kind) \in Worlds /\ SpawnSlot(w.a) \in Pointer
<1>1. w.a \in [Slot -> Actor]
  BY DEF Worlds
<1>2. SpawnSlot(w.a) \in Pointer
  BY <1>1, SpawnFinds
<1>3. CASE SpawnSlot(w.a) = NULL
  BY <1>2, <1>3 DEF SpawnAsChild
<1>4. CASE SpawnSlot(w.a) # NULL
  <2>1. SpawnSlot(w.a) \in Slot
    BY <1>2, <1>4, Pointing
  <2>. QED  BY <1>2, <1>4, <2>1, FreshTyped DEF SpawnAsChild, Worlds, Links
<1>. QED  BY <1>3, <1>4

LEMMA ThroughTyped ==
  ASSUME NEW w \in Worlds, NEW s \in Pointer
  PROVE  Through(w, s) \in Worlds /\ Orphan(w, s) \in Worlds
<1>1. Through(w, s) \in Worlds
  BY DEF Through, Worlds
<1>2. CASE s \notin Slot
  BY <1>1, <1>2 DEF Through, Orphan, Worlds
<1>3. CASE s \in Slot
  <2>1. [w.a[s] EXCEPT !.parent = FALSE] \in Actor
    <3>1. w.a[s] \in Actor
      BY <1>3 DEF Worlds
    <3>. QED  BY <3>1 DEF Actor
  <2>2. [w EXCEPT !.a[s].parent = FALSE] \in Worlds
    BY <1>3, <2>1 DEF Worlds
  <2>. QED  BY <1>1, <2>2 DEF Orphan
<1>. QED  BY <1>2, <1>3

LEMMA PlainTyped ==
  ASSUME NEW w \in Worlds, NEW ia \in Items \cup {"none"}
  PROVE  InitPlain(w, ia) \in Worlds
  BY DEF InitPlain, Worlds, Links

LEMMA DetachTyped ==
  ASSUME NEW w \in Worlds
  PROVE  DetachHeldActor(w) \in Worlds
<1>. DEFINE o == Orphan(w, w.l.held)
            v == [o EXCEPT !.l.held = NULL, !.l.child = NULL,
                           !.l.range = NULL, !.l.carrying = FALSE]
<1>1. o \in Worlds
  BY ThroughTyped DEF Worlds, Links
<1>. HIDE DEF o
<1>2. v \in Worlds
  BY <1>1, Pointing DEF Worlds, Links
<1>. HIDE DEF v
<1>3. \A x \in Worlds : HoldsNoBomb(x) \in Worlds
  <2>. SUFFICES ASSUME NEW x \in Worlds
                PROVE  HoldsNoBomb(x) \in Worlds
    OBVIOUS
  <2>1. InitPlain(x, "none") \in Worlds
    BY PlainTyped
  <2>. QED  BY <2>1 DEF HoldsNoBomb, Worlds, Links
<1>4. CASE w.l.held # NULL /\ ~HoldsHookshot(w.l)
  BY <1>2, <1>3, <1>4 DEF DetachHeldActor, o, v
<1>5. CASE ~(w.l.held # NULL /\ ~HoldsHookshot(w.l))
  BY <1>3, <1>5 DEF DetachHeldActor
<1>. QED  BY <1>4, <1>5

LEMMA DestroyTyped ==
  ASSUME NEW w \in Worlds
  PROVE  DestroyHookshot(w) \in Worlds
<1>1. CASE HoldsHookshot(w.l) /\ w.l.held # NULL
  <2>. DEFINE o == Through(w, w.l.held)
              s == w.l.held
  <2>1. o \in Worlds /\ s \in Slot
    BY <1>1, ThroughTyped, Pointing DEF Worlds, Links
  <2>. HIDE DEF o, s
  <2>. DEFINE d == [o EXCEPT !.a[s].phase = "dead"]
  <2>2. d \in Worlds
    <3>1. [o.a[s] EXCEPT !.phase = "dead"] \in Actor
      BY <2>1 DEF Worlds, Actor
    <3>. QED  BY <2>1, <3>1 DEF Worlds
  <2>3. [o EXCEPT !.a[s].phase = "dead", !.l.child = NULL, !.l.held = NULL]
          = [d EXCEPT !.l.child = NULL, !.l.held = NULL]
    BY <2>1 DEF Worlds, Links
  <2>. HIDE DEF d
  <2>4. [d EXCEPT !.l.child = NULL, !.l.held = NULL] \in Worlds
    BY <2>2, Pointing DEF Worlds, Links
  <2>. QED  BY <1>1, <2>3, <2>4 DEF DestroyHookshot, o, s
<1>2. CASE ~(HoldsHookshot(w.l) /\ w.l.held # NULL)
  BY <1>2 DEF DestroyHookshot
<1>. QED  BY <1>1, <1>2

Ids == Items \cup {"none", "none_fe"}

LEMMA ActionOfItem == \A id \in Ids : ItemToAction(id) \in Items \cup {"none"}
  BY DEF Ids, ItemToAction, Items

LEMMA UseNoneTyped ==
  ASSUME NEW w \in Worlds, NEW id \in {"none", "none_fe"}
  PROVE  UseNone(w, id) \in Worlds
<1>1. UseHeldItem(w) \in Worlds
  BY DEF UseHeldItem, Worlds
<1>2. Announce(w, id) \in Worlds
  BY DEF Announce, Worlds, Links
<1>3. InitPlain(DetachHeldActor(DestroyHookshot(w)), "none") \in Worlds
  BY DestroyTyped, DetachTyped, PlainTyped
<1>. QED  BY <1>1, <1>2, <1>3 DEF UseNone

LEMMA InitTyped ==
  ASSUME NEW w \in Worlds, NEW ia \in Items \cup {"none"}
  PROVE  InitItemAction(w, ia) \in Worlds
<1>. DEFINE p == InitPlain(w, ia)
<1>1. p \in Worlds
  BY PlainTyped
<1>. HIDE DEF p
<1>2. InitExplosiveIA(p) \in Worlds
  <2>1. PutAwayHeldItem(p) \in Worlds
    BY <1>1, UseNoneTyped DEF PutAwayHeldItem
  <2>. DEFINE b == SpawnAsChild(p, "bomb")
              s == SpawnSlot(p.a)
  <2>2. b \in Worlds /\ s \in Pointer
    BY <1>1, SpawnTyped
  <2>. HIDE DEF b, s
  <2>3. [b EXCEPT !.l.range = s, !.l.held = s, !.l.carrying = TRUE] \in Worlds
    BY <2>2 DEF Worlds, Links
  <2>. QED  BY <1>1, <2>1, <2>3 DEF InitExplosiveIA, b, s
<1>3. InitHookshotIA(p) \in Worlds
  <2>. DEFINE b == SpawnAsChild(p, "hookshot")
              s == SpawnSlot(p.a)
  <2>2. b \in Worlds /\ s \in Pointer
    BY <1>1, SpawnTyped
  <2>. HIDE DEF b, s
  <2>3. [b EXCEPT !.l.held = s] \in Worlds
    BY <2>2 DEF Worlds, Links
  <2>. QED  BY <2>3 DEF InitHookshotIA, b, s
<1>. QED  BY <1>1, <1>2, <1>3 DEF InitItemAction, p

LEMMA UseItemTyped ==
  ASSUME NEW w \in Worlds, NEW id \in Ids, NEW ammo
  PROVE  UseItem(w, id, ammo) \in Worlds
<1>1. UseHeldItem(w) \in Worlds
  BY DEF UseHeldItem, Worlds
<1>2. Announce(w, id) \in Worlds
  BY DEF Announce, Worlds, Links, Ids
<1>3. InitItemAction(DetachHeldActor(DestroyHookshot(w)), ItemToAction(id)) \in Worlds
  BY DestroyTyped, DetachTyped, InitTyped, ActionOfItem
<1>4. CASE ItemToAction(id) = "none"
  <2>1. id \in {"none", "none_fe"}
    BY <1>4 DEF ItemToAction
  <2>. QED  BY <1>4, <2>1, UseNoneTyped DEF UseItem
<1>5. CASE ItemToAction(id) # "none"
  BY <1>1, <1>2, <1>3, <1>5 DEF UseItem
<1>. QED  BY <1>4, <1>5

LEMMA InputTyped ==
  ASSUME NEW l, NEW in \in Inputs(l)
  PROVE  in \in Ins
<1>. DEFINE act(e) == ActionAfter(l, e)
<1>1. PICK event \in Events(l) : in \in InputsAt(l, act(event), event)
  BY DEF Inputs
<1>2. event \in {"none", "hit", "fall", "other"}
  BY <1>1 DEF Events
<1>. HIDE DEF act
<1>. DEFINE upright == act(event) \in {"free", "air", "putaway"}
            free(b) == IF b THEN BOOLEAN ELSE {FALSE}
            frames(b) == IF b THEN {"play", "frame", "end"} ELSE {"play"}
            I == IF upright /\ button # "none" THEN {"up", "hold", "press"} ELSE {"up"}
            A == free(act(event) = "free" /\ (l.carrying \/ l.range # NULL))
            T == free(upright /\ l.upper \in {"change", "changed", "ready", "shot"})
            G == free(event # "fall" /\ (act(event) = "air" \/ l.upper \in {"aim", "lower"}))
            M == free((upright /\ button # "none") \/ ChangingOver(l))
            B == frames(~upright /\ act(event) # "fly" /\ event # "hit")
            U == frames(upright /\ l.upper \in {"change", "changed", "aim", "lower"})
            E == {event}
<1>3. /\ I \subseteq {"up", "hold", "press"}
      /\ A \subseteq BOOLEAN /\ T \subseteq BOOLEAN /\ G \subseteq BOOLEAN /\ M \subseteq BOOLEAN
      /\ B \subseteq {"play", "frame", "end"} /\ U \subseteq {"play", "frame", "end"}
      /\ E \subseteq {"none", "hit", "fall", "other"}
  BY <1>2
<1>4. in \in [item : I, a : A, target : T, ground : G, ammo : M, body : B, upper : U, event : E]
  BY <1>1 DEF InputsAt
<1>. HIDE DEF I, A, T, G, M, B, U, E
<1>. QED  BY <1>3, <1>4 DEF Ins

LEMMA UpperOf == \A ia \in Items \cup {"none"} : ItemUpper(ia) \in {"idle", "carry", "ready"}
  BY DEF ItemUpper, Items

LEMMA FinishTyped ==
  ASSUME NEW w \in Worlds, NEW in \in Ins
  PROVE  FinishItemChange(w, in) \in Worlds
  BY UseItemTyped DEF FinishItemChange, Worlds, Links, Ins, Ids

LEMMA NewUpperTyped ==
  ASSUME NEW w \in Worlds
  PROVE  NewUpper(w) \in Worlds
<1>. DEFINE u == [w EXCEPT !.l.upper = ItemUpper(w.l.ia)]
            d == DetachHeldActor(u)
<1>1. u \in Worlds
  <2>1. ItemUpper(w.l.ia) \in Uppers
    BY UpperOf DEF Worlds, Links, Uppers
  <2>. QED  BY <2>1 DEF Worlds, Links
<1>. HIDE DEF u
<1>2. d \in Worlds
  BY <1>1, DetachTyped
<1>. HIDE DEF d
<1>3. [d EXCEPT !.l.changing = FALSE] \in Worlds
  BY <1>2 DEF Worlds, Links
<1>. QED  BY <1>3 DEF NewUpper, d, u

LEMMA ResetTyped ==
  ASSUME NEW w \in Worlds, NEW in \in Ins
  PROVE  ResetUpper(w, in) \in Worlds
  BY FinishTyped, NewUpperTyped DEF ResetUpper

LEMMA SetupTyped ==
  ASSUME NEW w \in Worlds, NEW act \in Actions, NEW keep \in BOOLEAN, NEW in \in Ins
  PROVE  SetupAction(w, act, keep, in) \in Worlds
<1>1. [w EXCEPT !.l.act = act] \in Worlds
  BY DEF Worlds, Links
<1>. QED  BY <1>1, ResetTyped DEF SetupAction

LEMMA StopTyped ==
  ASSUME NEW w \in Worlds
  PROVE  StopCarrying(w) \in Worlds
<1>1. NULL \in Pointer /\ w.l \in Links
  BY Pointing DEF Worlds
<1>2. [w.l EXCEPT !.carrying = FALSE, !.range = NULL] \in Links
  BY <1>1 DEF Links
<1>3. [w EXCEPT !.l.carrying = FALSE, !.l.range = NULL] \in Worlds
  BY <1>2 DEF Worlds
<1>. QED  BY <1>3 DEF StopCarrying

LEMMA LostTyped ==
  ASSUME NEW w \in Worlds, NEW in \in Ins
  PROVE  LetGo(w) \in Worlds /\ LostIt(w, in) \in Worlds
<1>1. LetGo(w) \in Worlds
  BY StopTyped, DetachTyped DEF LetGo
<1>. QED  BY <1>1, SetupTyped DEF LostIt, Actions

LEMMA ReceivedTyped ==
  ASSUME NEW w \in Worlds
  PROVE  Received(w) \in Worlds /\ ReceivedByHook(w) \in Worlds
  BY DEF Received, ReceivedByHook, Worlds, Links

LEMMA RaiseTyped ==
  ASSUME NEW w \in Worlds, NEW in \in Ins
  PROVE  Raise(w, in) \in Worlds
<1>1. [w EXCEPT !.l.upper = "aim"] \in Worlds
  BY DEF Worlds, Links, Uppers
<1>. DEFINE b == SpawnAsChild(w, "arrow")
            s == SpawnSlot(w.a)
<1>2. b \in Worlds /\ s \in Pointer
  BY SpawnTyped
<1>. HIDE DEF b, s
<1>3. [b EXCEPT !.l.held = s, !.l.upper = "aim"] \in Worlds
  BY <1>2 DEF Worlds, Links, Uppers
<1>. QED  BY <1>1, <1>3 DEF Raise, b, s

LEMMA FireTyped ==
  ASSUME NEW w \in Worlds
  PROVE  Fire(w) \in Worlds
<1>. DEFINE o == Orphan(w, w.l.held)
<1>1. o \in Worlds
  BY ThroughTyped DEF Worlds, Links
<1>. HIDE DEF o
<1>2. [o EXCEPT !.l.shot = TRUE, !.l.child = NULL, !.l.held = NULL] \in Worlds
  BY <1>1, Pointing DEF Worlds, Links
<1>. QED  BY <1>2 DEF Fire, o

LEMMA BusyTyped ==
  ASSUME NEW w \in Worlds, NEW b \in BOOLEAN
  PROVE  Busy(w, b) \in Worlds
  BY DEF Busy, Worlds

LEMMA LoweredTyped ==
  ASSUME NEW w \in Worlds
  PROVE  Lowered(w) \in Worlds
  BY DEF Lowered, Worlds, Links

LEMMA UpperReadyTyped ==
  ASSUME NEW w \in Worlds, NEW in \in Ins
  PROVE  UpperReady(w, in) \in Worlds
<1>1. Lowered(w) \in Worlds
  BY LoweredTyped
<1>2. ReceivedByHook(Lowered(w)) \in Worlds
  BY <1>1, ReceivedTyped
<1>3. Raise(ReceivedByHook(Lowered(w)), in) \in Worlds
  BY <1>2, RaiseTyped
<1>4. in.target \in BOOLEAN
  BY DEF Ins
<1>. QED  BY <1>1, <1>2, <1>3, <1>4, BusyTyped DEF UpperReady

LEMMA UpperCarryTyped ==
  ASSUME NEW w \in Worlds, NEW in \in Ins
  PROVE  UpperCarry(w, in) \in Worlds
<1>1. w.l.held \in Pointer
  BY DEF Worlds, Links
<1>2. \A x \in Worlds : x.l.carrying \in BOOLEAN
  BY DEF Worlds, Links
<1>3. \A x \in Worlds : Carried(x, w.l.held) \in Worlds
  BY <1>1, <1>2, ThroughTyped, BusyTyped DEF Carried
<1>. QED  BY <1>3, ResetTyped DEF UpperCarry

LEMMA UpperOfItemTyped ==
  ASSUME NEW w \in Worlds, NEW in \in Ins
  PROVE  UpperOfItem(w, in) \in Worlds
  BY UpperReadyTyped, UpperCarryTyped, BusyTyped DEF UpperOfItem

LEMMA UpperChangeTyped ==
  ASSUME NEW w \in Worlds, NEW in \in Ins
  PROVE  UpperChange(w, in) \in Worlds
<1>1. ItemUpper(w.l.ia) \in Uppers
  BY UpperOf DEF Worlds, Links, Uppers
<1>2. \A use \in BOOLEAN :
        [w EXCEPT !.l.upper = ItemUpper(w.l.ia), !.use = use, !.hold = use] \in Worlds
  BY <1>1 DEF Worlds, Links
<1>3. \A use \in BOOLEAN : UpperOfItem([w EXCEPT !.l.upper = ItemUpper(w.l.ia),
                                                 !.use = use, !.hold = use], in) \in Worlds
  BY <1>2, UpperOfItemTyped
<1>. DEFINE f == FinishItemChange(w, in)
<1>4. f \in Worlds
  BY FinishTyped
<1>. HIDE DEF f
<1>5. [f EXCEPT !.l.upper = "changed"] \in Worlds
  BY <1>4 DEF Worlds, Links, Uppers
<1>6. Busy([f EXCEPT !.l.upper = "changed"], TRUE) \in Worlds /\ Busy(w, TRUE) \in Worlds
  BY <1>5, BusyTyped
<1>7. w.use \in BOOLEAN
  BY DEF Worlds
<1>. QED  BY <1>3, <1>6, <1>7 DEF UpperChange, f

LEMMA UpperAimTyped ==
  ASSUME NEW w \in Worlds, NEW in \in Ins
  PROVE  UpperAim(w, in) \in Worlds
<1>1. [w EXCEPT !.l.upper = "shot"] \in Worlds
  BY DEF Worlds, Links, Uppers
<1>. QED  BY <1>1, FireTyped, BusyTyped DEF UpperAim

LEMMA UpperShotTyped ==
  ASSUME NEW w \in Worlds, NEW in \in Ins
  PROVE  UpperShot(w, in) \in Worlds
<1>1. \A x \in Worlds : AfterShot(x, in) \in Worlds
  <2>. SUFFICES ASSUME NEW x \in Worlds
                PROVE  AfterShot(x, in) \in Worlds
    OBVIOUS
  <2>1. [x EXCEPT !.l.draw = Abs(@)] \in Worlds
    BY DEF Worlds, Links, Abs
  <2>2. Raise([x EXCEPT !.l.draw = Abs(@)], in) \in Worlds
    BY <2>1, RaiseTyped
  <2>3. \A u \in Uppers : [x EXCEPT !.l.upper = u] \in Worlds
    BY DEF Worlds, Links
  <2>. QED  BY <2>2, <2>3 DEF AfterShot, Uppers
<1>. QED  BY <1>1, ReceivedTyped, BusyTyped DEF UpperShot

LEMMA UpperLowerTyped ==
  ASSUME NEW w \in Worlds, NEW in \in Ins
  PROVE  UpperLower(w, in) \in Worlds
<1>1. [w EXCEPT !.l.upper = "ready"] \in Worlds
  BY DEF Worlds, Links, Uppers
<1>. QED  BY <1>1, BusyTyped DEF UpperLower

LEMMA UpperActionTyped ==
  ASSUME NEW w \in Worlds, NEW in \in Ins
  PROVE  UpperAction(w, in) \in Worlds
  BY UpperChangeTyped, UpperAimTyped, UpperShotTyped, UpperLowerTyped, UpperOfItemTyped
  DEF UpperAction

Buttons == Items \cup {"none"}

LEMMA UpdateItemsTyped ==
  ASSUME NEW w \in Worlds, NEW in \in Ins, button \in Buttons
  PROVE  UpdateItems(w, in) \in Worlds
<1>1. ProcessItemButtons(w, in) \in Worlds
  <2>1. UseNone(w, "none") \in Worlds /\ UseItem(w, button, in.ammo) \in Worlds
    BY UseNoneTyped, UseItemTyped DEF Buttons, Ids
  <2>2. [w EXCEPT !.hold = TRUE] \in Worlds
    BY DEF Worlds
  <2>. QED  BY <2>1, <2>2 DEF ProcessItemButtons
<1>2. \A x \in Worlds : StartChanging(x) \in Worlds
  <2>. SUFFICES ASSUME NEW x \in Worlds
                PROVE  StartChanging(x) \in Worlds
    OBVIOUS
  <2>1. [x.l EXCEPT !.upper = "change", !.changing = FALSE] \in Links
    BY DEF Worlds, Links, Uppers
  <2>2. [x EXCEPT !.l.upper = "change", !.l.changing = FALSE] \in Worlds
    BY <2>1 DEF Worlds
  <2>. QED  BY <2>2 DEF StartChanging
<1>. QED  BY <1>1, <1>2 DEF UpdateItems

LEMMA UpdateUpperTyped ==
  ASSUME NEW w \in Worlds, NEW in \in Ins, button \in Buttons
  PROVE  UpdateUpperBody(w, in) \in Worlds
  BY SetupTyped, BusyTyped, UpperActionTyped, UpdateItemsTyped DEF UpdateUpperBody, Actions

LEMMA HandlersTyped ==
  ASSUME NEW w \in Worlds, NEW in \in Ins
  PROVE  TryActionHandlers(w, in) \in Worlds
<1>. DEFINE p == PutAwayHeldItem(SetupAction(w, "putaway", FALSE, in))
<1>1. p \in Worlds
  BY SetupTyped, UseNoneTyped DEF PutAwayHeldItem, Actions
<1>. HIDE DEF p
<1>2. [p EXCEPT !.l.carrying = TRUE] \in Worlds
  BY <1>1 DEF Worlds, Links
<1>3. SetupAction(w, "release", TRUE, in) \in Worlds /\ SetupAction(w, "busy", FALSE, in) \in Worlds
  BY SetupTyped DEF Actions
<1>. QED  BY <1>2, <1>3 DEF TryActionHandlers, StartLift, p

LEMMA AfterPutAwayTyped ==
  ASSUME NEW w \in Worlds, NEW in \in Ins
  PROVE  AfterPutAway(w, in) \in Worlds
<1>1. SetupAction(Through(w, w.l.range), "lift", FALSE, in) \in Worlds
  <2>1. w.l.range \in Pointer
    BY DEF Worlds, Links
  <2>2. Through(w, w.l.range) \in Worlds
    BY <2>1, ThroughTyped
  <2>. QED  BY <2>2, SetupTyped DEF Actions
<1>. DEFINE p == SetupAction(w, "free", TRUE, in)
<1>2. p \in Worlds
  BY SetupTyped DEF Actions
<1>. HIDE DEF p
<1>3. [p EXCEPT !.l.carrying = FALSE] \in Worlds
  BY <1>2 DEF Worlds, Links
<1>. QED  BY <1>1, <1>3 DEF AfterPutAway, p

LEMMA LiftTyped ==
  ASSUME NEW w \in Worlds, NEW in \in Ins
  PROVE  ActionLift(w, in) \in Worlds
<1>1. w.l.range \in Pointer
  BY DEF Worlds, Links
<1>2. Through(w, w.l.range) \in Worlds /\ LostIt(w, in) \in Worlds
  BY <1>1, ThroughTyped, LostTyped
<1>3. CASE w.l.range # NULL
  <2>. DEFINE s == w.l.range
              b == [w EXCEPT !.a[s].parent = TRUE]
  <2>1. s \in Slot /\ s \in Pointer
    BY <1>1, <1>3, Pointing
  <2>. HIDE DEF s
  <2>2. b \in Worlds
    <3>1. [w.a[s] EXCEPT !.parent = TRUE] \in Actor
      <4>1. w.a[s] \in Actor
        BY <2>1 DEF Worlds
      <4>. QED  BY <4>1 DEF Actor
    <3>. QED  BY <2>1, <3>1 DEF Worlds
  <2>3. [w EXCEPT !.l.held = s, !.l.child = s, !.a[s].parent = TRUE, !.l.act = "lifted"]
          = [b EXCEPT !.l.held = s, !.l.child = s, !.l.act = "lifted"]
    BY <2>1 DEF Worlds, Links
  <2>. HIDE DEF b
  <2>4. [b EXCEPT !.l.held = s, !.l.child = s, !.l.act = "lifted"] \in Worlds
    BY <2>1, <2>2 DEF Worlds, Links, Actions
  <2>. QED  BY <1>2, <2>3, <2>4 DEF ActionLift, s
<1>4. CASE w.l.range = NULL
  BY <1>2, <1>4 DEF ActionLift
<1>. QED  BY <1>3, <1>4

LEMMA LiftedTyped ==
  ASSUME NEW w \in Worlds, NEW in \in Ins
  PROVE  ActionLifted(w, in) \in Worlds
<1>. DEFINE p == SetupAction(w, "free", TRUE, in)
<1>1. p \in Worlds
  BY SetupTyped DEF Actions
<1>. HIDE DEF p
<1>2. LostIt(p, in) \in Worlds /\ [p EXCEPT !.l.upper = "carry"] \in Worlds
  BY <1>1, LostTyped DEF Worlds, Links, Uppers
<1>. QED  BY <1>2 DEF ActionLifted, p

LEMMA ReleaseTyped ==
  ASSUME NEW w \in Worlds, NEW in \in Ins
  PROVE  ActionRelease(w, in) \in Worlds
<1>. DEFINE p == ResetUpper(Through(w, w.l.held), in)
<1>1. p \in Worlds
  BY ThroughTyped, ResetTyped DEF Worlds, Links
<1>. HIDE DEF p
<1>2. [p EXCEPT !.l.act = "busy"] \in Worlds
  BY <1>1 DEF Worlds, Links, Actions
<1>. QED  BY <1>2, LostTyped DEF ActionRelease, p

LEMMA ActionTyped ==
  ASSUME NEW w \in Worlds, NEW in \in Ins, button \in Buttons
  PROVE  ActionFunc(w, in) \in Worlds
<1>1. ActionFree(w, in) \in Worlds
  BY UpdateUpperTyped, HandlersTyped DEF ActionFree
<1>2. ActionAir(w, in) \in Worlds
  BY SetupTyped, LostTyped, UpdateUpperTyped DEF ActionAir, Actions
<1>3. ActionPutAway(w, in) \in Worlds
  BY UpdateUpperTyped, AfterPutAwayTyped DEF ActionPutAway
<1>4. ActionFly(w, in) \in Worlds
  BY ReceivedTyped, SetupTyped DEF ActionFly, Actions
<1>5. SetupAction(w, "free", TRUE, in) \in Worlds
  BY SetupTyped DEF Actions
<1>. QED  BY <1>1, <1>2, <1>3, <1>4, <1>5, LiftTyped, LiftedTyped, ReleaseTyped DEF ActionFunc

LEMMA UpdateTyped ==
  ASSUME NEW w \in Worlds, NEW in \in Ins, button \in Buttons
  PROVE  PlayerUpdated(w, in) \in Worlds
<1>1. \A x \in Worlds : [x EXCEPT !.l.range = NULL] \in Worlds
  BY Pointing DEF Worlds, Links
<1>2. DropDead(w) \in Worlds
  BY <1>1, DetachTyped DEF DropDead, DropHeld
<1>3. Disturb(DropDead(w), in) \in Worlds
  BY <1>2, SetupTyped, StopTyped, LostTyped DEF Disturb, Fallen, Actions
<1>. QED  BY <1>1, <1>3, ActionTyped DEF PlayerUpdated, EndOfUpdate

LEMMA WorldTyped ==
  ASSUME TypeOK, NEW l \in Links
  PROVE  World(l) \in Worlds
  BY DEF World, Worlds, Links, TypeOK, Actor, Timers

\* Every function of z_player.c returns a world of the right shape, so every
\* assignment of a step has the type of its variable.
LEMMA SetsTyped ==
  ASSUME NEW w \in Worlds, Sets(w)
  PROVE  link' \in Links /\ actors' \in [Slot -> Actor] /\ fault' \in BOOLEAN
  BY DEF Sets, Worlds

LEMMA TypeParts ==
  TypeOK <=> /\ link \in Links /\ actors \in [Slot -> Actor] /\ button \in Buttons
             /\ turn \in {"host", "actors"} /\ todo \in SUBSET Slot /\ fault \in BOOLEAN
  BY DEF TypeOK, Links, Actor, Timers, Buttons

LEMMA NextTypeParts ==
  /\ link' \in Links /\ actors' \in [Slot -> Actor] /\ button' \in Buttons
  /\ turn' \in {"host", "actors"} /\ todo' \in SUBSET Slot /\ fault' \in BOOLEAN
  => TypeOK'
  BY DEF TypeOK, Links, Actor, Timers, Buttons

LEMMA HostTyped ==
  ASSUME TypeOK, (\E id \in Buttons : HostUseItem(id)) \/ HostSpawnBomb \/ PlayerUpdate
  PROVE  TypeOK'
<1>. USE TypeParts, NextTypeParts
<1>1. ASSUME NEW id \in Buttons, HostUseItem(id)
      PROVE  TypeOK'
  <2>1. UseItem(World(link), id, TRUE) \in Worlds
    BY WorldTyped, UseItemTyped DEF Buttons, Ids
  <2>2. link' \in Links /\ actors' \in [Slot -> Actor] /\ fault' \in BOOLEAN
    BY <1>1, <2>1, SetsTyped DEF HostUseItem
  <2>. QED  BY <1>1, <2>2 DEF HostUseItem
<1>2. CASE HostSpawnBomb
  <2>. DEFINE s == SpawnSlot(actors)
  <2>1. s \in Slot
    BY <1>2, SpawnFinds, Pointing DEF HostSpawnBomb
  <2>. HIDE DEF s
  <2>2. [Fresh("bomb") EXCEPT !.parent = FALSE] \in Actor
    BY FreshTyped DEF Actor
  <2>3. actors' = [actors EXCEPT ![s] = [Fresh("bomb") EXCEPT !.parent = FALSE]]
    BY <1>2 DEF HostSpawnBomb, s
  <2>4. actors' \in [Slot -> Actor]
    BY <2>1, <2>2, <2>3
  <2>. QED  BY <1>2, <2>4 DEF HostSpawnBomb
<1>3. CASE PlayerUpdate
  <2>1. PICK in \in Inputs(link), shot \in {FALSE, link.shot} :
          Sets(PlayerUpdated(World([link EXCEPT !.shot = shot]), in))
    BY <1>3 DEF PlayerUpdate
  <2>2. [link EXCEPT !.shot = shot] \in Links
    BY DEF Links
  <2>3. World([link EXCEPT !.shot = shot]) \in Worlds /\ in \in Ins
    BY <2>2, WorldTyped, InputTyped
  <2>4. PlayerUpdated(World([link EXCEPT !.shot = shot]), in) \in Worlds
    BY <2>3, UpdateTyped
  <2>5. link' \in Links /\ actors' \in [Slot -> Actor] /\ fault' \in BOOLEAN
    BY <2>1, <2>4, SetsTyped
  <2>. QED  BY <1>3, <2>5 DEF PlayerUpdate
<1>. QED  BY <1>1, <1>2, <1>3

LEMMA ActorTyped ==
  ASSUME TypeOK, NEW s \in Slot, ActorUpdate(s)
  PROVE  TypeOK'
<1>. USE TypeParts, NextTypeParts
<1>1. /\ todo' \in SUBSET Slot /\ button' = button /\ turn' = turn /\ fault' = fault
  BY DEF ActorUpdate, Reap, BombBurns, BombExplodes, HookWaits, HookIsOnItsWay, ArrowNocked,
         ArrowFlies, Visit
<1>2. actors[s] \in Actor /\ Ticked(s) \in Timers
  BY Clocks DEF Ticked, Actor
<1>3. \A a \in Actor : Becomes(s, a) => actors' \in [Slot -> Actor]
  BY DEF Becomes
<1>4. Kill(s) \/ Stays(s) => actors' \in [Slot -> Actor]
  <2>1. [actors[s] EXCEPT !.phase = "dead"] \in Actor
    BY <1>2 DEF Actor
  <2>. QED  BY <1>2, <1>3, <2>1 DEF Kill, Stays
<1>5. s \in Pointer /\ NULL \in Pointer
  BY Pointing
<1>6. link' \in Links /\ actors' \in [Slot -> Actor]
  <2>1. CASE Reap(s)
    BY <1>3, <2>1, NowhereTyped DEF Reap
  <2>2. CASE BombBurns(s)
    <3>1. link' \in Links
      <4>1. Offered(s) \in Links
        BY <1>5 DEF Offered, Links
      <4>. QED  BY <2>2, <4>1 DEF BombBurns
    <3>2. [actors[s] EXCEPT !.phase = "explode", !.timer = Burst] \in Actor
      BY <1>2, Clocks DEF Actor
    <3>3. \A p \in {"dead", "move", "held"} :
            [actors[s] EXCEPT !.timer = Ticked(s), !.phase = p] \in Actor
      BY <1>2 DEF Actor
    <3>. QED  BY <1>3, <2>2, <3>1, <3>2, <3>3 DEF BombBurns
  <2>3. CASE BombExplodes(s)
    <3>1. link' \in Links
      <4>1. [link EXCEPT !.child = NULL, !.held = NULL, !.range = NULL, !.carrying = FALSE] \in Links
        BY <1>5 DEF Links
      <4>. QED  BY <2>3, <4>1 DEF BombExplodes
    <3>2. [actors[s] EXCEPT !.timer = Ticked(s)] \in Actor
      BY <1>2 DEF Actor
    <3>. QED  BY <1>3, <1>4, <2>3, <3>1, <3>2 DEF BombExplodes
  <2>4. CASE HookWaits(s)
    <3>1. [actors[s] EXCEPT !.phase = "shoot", !.parent = TRUE, !.timer = Reach] \in Actor
      BY <1>2, Clocks DEF Actor
    <3>. QED  BY <1>3, <1>4, <2>4, <3>1 DEF HookWaits
  <2>5. CASE HookIsOnItsWay(s)
    <3>1. CASE HookFlies(s)
      <4>1. [actors[s] EXCEPT !.timer = Ticked(s)] \in Actor
        BY <1>2 DEF Actor
      <4>2. \A b \in BOOLEAN : [actors[s] EXCEPT !.timer = 0, !.pulls = b] \in Actor
        BY <1>2, Clocks DEF Actor
      <4>3. [link EXCEPT !.parent = s] \in Links
        BY <1>5 DEF Links
      <4>. QED  BY <1>3, <3>1, <4>1, <4>2, <4>3 DEF HookFlies
    <3>2. CASE HookReturns(s)
      <4>1. HandedBack(s) \in Links
        BY <1>5 DEF HandedBack, Links
      <4>2. [actors[s] EXCEPT !.phase = "back", !.timer = 0] \in Actor
        BY <1>2, Clocks DEF Actor
      <4>3. [actors[s] EXCEPT !.phase = "wait", !.timer = 0, !.pulls = FALSE] \in Actor
        BY <1>2, Clocks DEF Actor
      <4>. QED  BY <1>3, <3>2, <4>1, <4>2, <4>3 DEF HookReturns
    <3>3. CASE Kill(s) /\ UNCHANGED link
      BY <1>4, <3>3
    <3>. QED  BY <2>5, <3>1, <3>2, <3>3 DEF HookIsOnItsWay
  <2>6. CASE ArrowNocked(s)
    <3>1. [actors[s] EXCEPT !.phase = "fly", !.timer = Flight] \in Actor
      BY <1>2, Clocks DEF Actor
    <3>. QED  BY <1>3, <1>4, <2>6, <3>1 DEF ArrowNocked
  <2>7. CASE ArrowFlies(s)
    <3>1. [actors[s] EXCEPT !.timer = Ticked(s)] \in Actor
      BY <1>2 DEF Actor
    <3>2. [actors[s] EXCEPT !.phase = "stuck", !.timer = Flight] \in Actor
      BY <1>2, Clocks DEF Actor
    <3>. QED  BY <1>3, <1>4, <2>7, <3>1, <3>2 DEF ArrowFlies
  <2>. QED  BY <2>1, <2>2, <2>3, <2>4, <2>5, <2>6, <2>7 DEF ActorUpdate
<1>. QED  BY <1>1, <1>6

\* Every reachable state is of its type: whatever the functions of z_player.c
\* are called on, in whatever order, they leave Link's fields and the actors'
\* tables of their types (the bow is never lowered twice, no pointer leaves
\* the table of actors).
THEOREM TypeCorrect == Spec => []TypeOK
<1>1. Init => TypeOK
  <2>. SUFFICES ASSUME Init
                PROVE  TypeOK
    OBVIOUS
  <2>1. link \in Links
    BY Pointing DEF Init, Links, Actions, Uppers
  <2>2. actors \in [Slot -> Actor]
    BY NowhereTyped DEF Init
  <2>. QED  BY <2>1, <2>2, TypeParts DEF Init, Buttons
<1>2. TypeOK /\ [Next]_vars => TypeOK'
  <2>. SUFFICES ASSUME TypeOK, [Next]_vars
                PROVE  TypeOK'
    OBVIOUS
  <2>1. CASE UNCHANGED vars
    BY <2>1 DEF TypeOK, vars
  <2>2. CASE EndTick
    BY <2>2, TypeParts, NextTypeParts DEF EndTick
  <2>. QED  BY <2>1, <2>2, HostTyped, ActorTyped DEF Next, Buttons
<1>. QED  BY <1>1, <1>2, PTL DEF Spec

-----------------------------------------------------------------------------
(* What is true of Link's hands between two functions of z_player.c.  The  *)
(* parts speak of the Player fields l and the actors a, so that they hold  *)
(* of a world in the middle of a tick as well as of a state.               *)

LiveHook(a, s) == a[s].kind = "hookshot" /\ a[s].phase # "dead"
Believes(a, s) == a[s].parent /\ a[s].phase # "dead"

\* Link's pointers lead to actors of the right kind.  A hookshot he holds
\* waits, and one that pulls him is on its way back or has just caught hold.
Pointers(l, a) ==
  /\ l.child = l.held
  /\ l.held # NULL /\ HoldsHookshot(l) =>
       a[l.held].kind = "hookshot" /\ a[l.held].phase = "wait" /\ a[l.held].parent
  /\ l.held # NULL /\ ~HoldsHookshot(l) => a[l.held].kind \notin {"none", "hookshot"}
  /\ l.range # NULL => a[l.range].kind = "bomb"
  /\ l.parent # NULL =>
       /\ HookIsOut(l) /\ LiveHook(a, l.parent) /\ a[l.parent].parent /\ a[l.parent].pulls
       /\ \/ a[l.parent].phase = "back"
          \/ a[l.parent].phase = "shoot" /\ a[l.parent].timer = 0

\* There is one hookshot, and only while its item action is in force.
OneHook(l, a) ==
  /\ \A s \in Slot : LiveHook(a, s) => HoldsHookshot(l) /\ l.held \in {NULL, s}
  /\ \A s, t \in Slot : LiveHook(a, s) /\ LiveHook(a, t) => s = t

Mutual(l, a) ==
  \A s \in Slot : Believes(a, s) => l.held = s \/ (a[s].kind = "hookshot" /\ HookIsOut(l))

\* While the hookshot is out nothing else is begun: no load, no change.
HookOut(l, a) == l.held = NULL /\ \E s \in Slot : LiveHook(a, s)
OutIsQuiet(l, a) == HookOut(l, a) => ~l.carrying /\ ~l.changing /\ ~ChangingOver(l)

\* What is held and not carried belongs to a bow or a hookshot.
Holding(l) == ~l.carrying /\ l.held # NULL => l.ia \in {"bow", "hookshot"}

\* Who aims has an item to aim with, and it is the one asked for or b, the
\* item on the button, unless a change is announced.
Aiming(l) == l.upper \in {"aim", "shot", "lower"}
Drawn(l, b) ==
  /\ l.ia = "bow" => l.draw # 0
  /\ Aiming(l) => /\ l.ia \in {"bow", "hookshot"}
                  /\ l.changing \/ ItemToAction(l.id) = l.ia \/ b = l.ia

\* An arrow in hand is drawn, or the bow is being put away: a bow that is
\* raised again never has a second arrow to find.
Nocked(l, b) ==
  l.ia = "bow" /\ l.held # NULL =>
    /\ \/ l.upper = "aim" /\ l.draw = 1
       \/ l.upper \in {"change", "changed", "ready"} /\ ItemToAction(l.id) # l.ia /\ b # l.ia
    /\ l.changing => ItemToAction(l.id) # l.ia /\ b # l.ia

\* The carrying flag: outside a lift it means a load; while an item is put
\* away for one, and while Link reaches for the load, it means the intention.
\* A fall or a hit that interrupts the putting away of a hookshot leaves it
\* over, until the hookshot is away and Link falls or is hit once more.
Settled(l) == l.carrying => l.held # NULL /\ l.ia \in {"bomb", "none"}
PuttingAway(l) ==
  /\ l.carrying
  /\ l.held # NULL => l.ia = "hookshot" /\ l.id = "none" /\ l.changing /\ l.upper = "ready"
  /\ l.held = NULL =>
       /\ l.ia \in {"none", "bow"} /\ l.upper # "carry"
       /\ l.changing \/ ChangingOver(l) => ItemToAction(l.id) = "none"
  /\ l.ia = "bow" => \/ l.changing /\ l.id = "none" /\ l.upper = "ready"
                     \/ l.upper = "change"
Reaching(l) == l.carrying /\ l.held = NULL /\ l.ia = "none" /\ l.upper # "carry"
Leftover(l) ==
  /\ l.carrying /\ l.act \in {"free", "air", "hurt"}
  /\ l.held # NULL =>
       /\ l.ia = "hookshot" /\ l.id = "none"
       /\ (l.changing /\ l.upper = "ready") \/ (~l.changing /\ l.upper = "change")
  /\ l.held = NULL =>
       /\ l.ia = "none" /\ ~l.changing /\ l.upper \in {"changed", "idle"}
       /\ l.upper = "changed" => l.id = "none"
Stance(l) ==
  /\ l.act = "putaway" => PuttingAway(l)
  /\ l.act = "lift" => Reaching(l)
  /\ l.act \notin {"putaway", "lift"} => Settled(l) \/ Leftover(l)
  /\ l.act = "lifted" => l.ia = "none"

\* A hand that is ready for a bomb is offered none.
NoOffer(l) == ~l.carrying /\ l.ia = "bomb" => l.range = NULL

Grip(w, b) == /\ ~w.fault /\ Pointers(w.l, w.a) /\ OneHook(w.l, w.a) /\ Mutual(w.l, w.a)
              /\ OutIsQuiet(w.l, w.a) /\ Holding(w.l) /\ Drawn(w.l, b)
Fit(w, b) == Grip(w, b) /\ Nocked(w.l, b)

\* From DropDead to the end of Player_Update nothing dead is held or offered.
Lively(w) == /\ w.l.held # NULL => w.a[w.l.held].phase # "dead"
             /\ w.l.range # NULL => w.a[w.l.range].phase # "dead"
Sound(w, b) == Fit(w, b) /\ Lively(w)

\* The same of the variables.  An actor killed in Player_Update is no longer
\* held, so that the reaping in the same tick leaves no pointer to it.
Visits ==
  /\ turn = "host" => todo = {}
  /\ \A s \in todo : actors[s] # NoActor /\ (actors[s].phase = "dead" => s \notin {link.held, link.range})
Hands == /\ ~fault /\ Pointers(link, actors) /\ OneHook(link, actors) /\ Mutual(link, actors)
         /\ OutIsQuiet(link, actors) /\ Holding(link) /\ Drawn(link, button) /\ Nocked(link, button)
         /\ Stance(link) /\ NoOffer(link) /\ Visits

\* Whether there is room for one actor more; and whether a bomb that Player_UseItem
\* does not refuse would find a place, as in b whenever it would in a.
Room(a) == \E s \in Slot : a[s] = NoActor
BombFits(a) == Cardinality(Explosives(a)) >= MaxExplosives \/ Room(a)
Frees(a, b) == \A s \in Slot : (b[s] = NoActor <=> a[s] = NoActor) /\ b[s].kind = a[s].kind

\* What a request for item id has to respect, and what the static
\* sUseHeldItem says of the button b.
Asks(w, id, b) ==
  /\ ~HookOut(w.l, w.a)
  /\ Aiming(w.l) => id # w.l.id \/ ItemToAction(id) = w.l.ia
  /\ w.l.ia = "bow" /\ w.l.held # NULL /\ id # w.l.id /\ ItemToAction(id) # "bow" => b # "bow"
Useful(w, b) == w.use => w.l.ia \in {"bow", "hookshot"} /\ b = w.l.ia

-----------------------------------------------------------------------------
(* Letting go of what is held.                                             *)

LEMMA HeldIsReal ==
  ASSUME NEW w \in Worlds, NEW b, Grip(w, b), w.l.held # NULL
  PROVE  /\ w.l.held \in Slot /\ w.l.held \in Pointer /\ w.a[w.l.held] # NoActor
         /\ ~Through(w, w.l.held).fault /\ Through(w, w.l.held) = w
<1>1. w.l.held \in Slot /\ w.l.held \in Pointer
  BY Pointing DEF Worlds, Links
<1>2. w.a[w.l.held] # NoActor
  BY DEF Grip, Pointers, NoActor
<1>3. ~w.fault /\ w.fault \in BOOLEAN
  BY DEF Grip, Worlds
<1>4. Through(w, w.l.held) = w
  BY <1>1, <1>2, <1>3 DEF Through, Worlds
<1>. QED  BY <1>1, <1>2, <1>3, <1>4

Loosed(l) == l.held # NULL /\ ~HoldsHookshot(l)

\* What Player_DetachHeldActor does to a world that is as it should be.
Detached(w, u) ==
  /\ u.a = IF Loosed(w.l) THEN [w.a EXCEPT ![w.l.held].parent = FALSE] ELSE w.a
  /\ u.l.held = (IF Loosed(w.l) THEN NULL ELSE w.l.held)
  /\ u.l.child = (IF Loosed(w.l) THEN NULL ELSE w.l.child)
  /\ u.l.range = (IF Loosed(w.l) THEN NULL ELSE w.l.range)
  /\ u.l.carrying = (IF Loosed(w.l) THEN FALSE ELSE w.l.carrying)
  /\ u.l.ia = (IF w.l.ia = "bomb" THEN "none" ELSE w.l.ia)
  /\ u.l.id = (IF w.l.ia = "bomb" THEN "none_fe" ELSE w.l.id)
  /\ u.l.draw = (IF w.l.ia = "bomb" THEN 0 ELSE w.l.draw)
  /\ u.l.act = w.l.act /\ u.l.upper = w.l.upper /\ u.l.changing = w.l.changing
  /\ u.l.parent = w.l.parent
  /\ u.use = w.use /\ u.hold = w.hold /\ u.fault = w.fault

LEMMA DetachEffect ==
  ASSUME NEW w \in Worlds, NEW b, Grip(w, b)
  PROVE  Detached(w, DetachHeldActor(w))
<1>1. \A x \in Worlds :
        LET y == HoldsNoBomb(x)
        IN  /\ y.a = x.a /\ y.use = x.use /\ y.hold = x.hold /\ y.fault = x.fault
            /\ y.l.held = x.l.held /\ y.l.child = x.l.child /\ y.l.range = x.l.range
            /\ y.l.carrying = x.l.carrying /\ y.l.act = x.l.act /\ y.l.upper = x.l.upper
            /\ y.l.changing = x.l.changing /\ y.l.parent = x.l.parent
            /\ y.l.ia = (IF x.l.ia = "bomb" THEN "none" ELSE x.l.ia)
            /\ y.l.id = (IF x.l.ia = "bomb" THEN "none_fe" ELSE x.l.id)
            /\ y.l.draw = (IF x.l.ia = "bomb" THEN 0 ELSE x.l.draw)
  BY DEF HoldsNoBomb, InitPlain, Worlds, Links
<1>2. CASE Loosed(w.l)
  <2>. DEFINE o == Orphan(w, w.l.held)
              v == [o EXCEPT !.l.held = NULL, !.l.child = NULL, !.l.range = NULL, !.l.carrying = FALSE]
  <2>1. w.l.held \in Slot /\ ~Through(w, w.l.held).fault /\ w.l.held \in Pointer
    BY <1>2, HeldIsReal DEF Loosed
  <2>2. o = [w EXCEPT !.a[w.l.held].parent = FALSE]
    BY <2>1 DEF Orphan
  <2>3. o \in Worlds
    BY <2>1, ThroughTyped
  <2>4. o.l = w.l /\ o.a = [w.a EXCEPT ![w.l.held].parent = FALSE]
        /\ o.use = w.use /\ o.hold = w.hold /\ o.fault = w.fault
    BY <2>2 DEF Worlds
  <2>. HIDE DEF o
  <2>5. v \in Worlds
    <3>1. NULL \in Pointer /\ o.l \in Links
      BY <2>3, Pointing DEF Worlds
    <3>2. [o.l EXCEPT !.held = NULL, !.child = NULL, !.range = NULL, !.carrying = FALSE] \in Links
      BY <3>1 DEF Links
    <3>. QED  BY <2>3, <3>2 DEF Worlds
  <2>6. /\ v.a = o.a /\ v.use = o.use /\ v.hold = o.hold /\ v.fault = o.fault
        /\ v.l = [o.l EXCEPT !.held = NULL, !.child = NULL, !.range = NULL, !.carrying = FALSE]
    BY <2>3 DEF Worlds, Links
  <2>7. DetachHeldActor(w) = HoldsNoBomb(v)
    BY <1>2 DEF DetachHeldActor, Loosed, v, o
  <2>. HIDE DEF v
  <2>8. w.l \in Links
    BY DEF Worlds
  <2>9. /\ v.l.held = NULL /\ v.l.child = NULL /\ v.l.range = NULL /\ v.l.carrying = FALSE
        /\ v.l.ia = w.l.ia /\ v.l.id = w.l.id /\ v.l.draw = w.l.draw /\ v.l.act = w.l.act
        /\ v.l.upper = w.l.upper /\ v.l.changing = w.l.changing /\ v.l.parent = w.l.parent
    BY <2>4, <2>6, <2>8 DEF Links
  <2>. DEFINE y == HoldsNoBomb(v)
  <2>10. /\ y.a = v.a /\ y.use = v.use /\ y.hold = v.hold /\ y.fault = v.fault
         /\ y.l.held = v.l.held /\ y.l.child = v.l.child /\ y.l.range = v.l.range
         /\ y.l.carrying = v.l.carrying /\ y.l.act = v.l.act /\ y.l.upper = v.l.upper
         /\ y.l.changing = v.l.changing /\ y.l.parent = v.l.parent
         /\ y.l.ia = (IF v.l.ia = "bomb" THEN "none" ELSE v.l.ia)
         /\ y.l.id = (IF v.l.ia = "bomb" THEN "none_fe" ELSE v.l.id)
         /\ y.l.draw = (IF v.l.ia = "bomb" THEN 0 ELSE v.l.draw)
    BY <1>1, <2>5
  <2>. HIDE DEF y
  <2>11. Detached(w, y)
    BY <1>2, <2>4, <2>6, <2>9, <2>10 DEF Detached
  <2>. QED  BY <2>7, <2>11 DEF y
<1>3. CASE ~Loosed(w.l)
  <2>1. DetachHeldActor(w) = HoldsNoBomb(w)
    BY <1>3 DEF DetachHeldActor, Loosed
  <2>. QED  BY <1>1, <1>3, <2>1 DEF Detached
<1>. QED  BY <1>2, <1>3

\* Room and the number of bombs are all that matters.
LEMMA SameFits ==
  ASSUME NEW a, NEW b, Frees(a, b)
  PROVE  BombFits(a) => BombFits(b)
<1>1. Explosives(b) = Explosives(a)
  BY DEF Frees, Explosives
<1>2. Room(a) => Room(b)
  BY DEF Frees, Room
<1>. QED  BY <1>1, <1>2 DEF BombFits

\* Detaching keeps everything in order and leaves at most a hookshot in hand.
LEMMA DetachSound ==
  ASSUME NEW w \in Worlds, NEW b, Grip(w, b), Settled(w.l)
  PROVE  LET u == DetachHeldActor(w)
         IN  /\ Fit(u, b) /\ Settled(u.l) /\ Frees(w.a, u.a)
             /\ u.l.held # NULL => HoldsHookshot(u.l)
             /\ Lively(w) => Lively(u)
<1>. DEFINE u == DetachHeldActor(w)
<1>1. Detached(w, u) /\ u \in Worlds
  BY DetachEffect, DetachTyped
<1>. HIDE DEF u
<1>2. w.l \in Links /\ w.a \in [Slot -> Actor] /\ u.l \in Links /\ u.a \in [Slot -> Actor]
  BY <1>1 DEF Worlds
<1>3. CASE Loosed(w.l)
  <2>. DEFINE h == w.l.held
  <2>1. h \in Slot /\ h # NULL /\ w.a[h] # NoActor /\ w.a[h].kind \notin {"none", "hookshot"}
    BY <1>3, HeldIsReal DEF Loosed, Grip, Pointers
  <2>2. /\ \A s \in Slot : s # h => u.a[s] = w.a[s]
        /\ u.a[h] = [w.a[h] EXCEPT !.parent = FALSE]
    BY <1>1, <1>2, <1>3, <2>1 DEF Detached
  <2>3. /\ u.a[h].parent = FALSE /\ u.a[h].kind = w.a[h].kind /\ u.a[h].phase = w.a[h].phase
    BY <1>2, <2>1, <2>2 DEF Actor
  <2>4. \A s \in Slot : LiveHook(w.a, s) <=> LiveHook(u.a, s)
    BY <2>1, <2>2, <2>3 DEF LiveHook
  <2>5. \A s \in Slot : ~LiveHook(w.a, s)
    BY <1>3, <2>1 DEF Grip, OneHook, Loosed
  <2>6. \A s \in Slot : ~Believes(u.a, s)
    <3>1. \A s \in Slot : Believes(w.a, s) => s = h
      BY <1>3 DEF Grip, Mutual, Loosed, HookIsOut
    <3>. QED  BY <2>2, <2>3, <3>1 DEF Believes
  <2>7. u.l.held = NULL /\ u.l.child = NULL /\ u.l.range = NULL /\ ~u.l.carrying /\ u.l.parent = NULL
    BY <1>1, <1>3 DEF Detached, Grip, Pointers, HookIsOut, Loosed
  <2>8. Pointers(u.l, u.a) /\ OneHook(u.l, u.a) /\ Mutual(u.l, u.a) /\ OutIsQuiet(u.l, u.a) /\ Holding(u.l)
    BY <2>4, <2>5, <2>6, <2>7 DEF Pointers, OneHook, Mutual, OutIsQuiet, HookOut, Holding
  <2>9. Drawn(u.l, b) /\ Nocked(u.l, b)
    BY <1>1, <2>7 DEF Detached, Drawn, Nocked, Grip, Aiming
  <2>10. Fit(u, b)
    BY <1>1, <2>8, <2>9 DEF Fit, Grip, Detached
  <2>11. Frees(w.a, u.a)
    <3>1. u.a[h] # NoActor
      BY <2>1, <2>3 DEF NoActor
    <3>. QED  BY <2>1, <2>2, <2>3, <3>1 DEF Frees
  <2>. QED  BY <2>7, <2>10, <2>11 DEF u, Lively, Settled
<1>4. CASE ~Loosed(w.l)
  <2>1. /\ u.a = w.a /\ u.l.held = w.l.held /\ u.l.child = w.l.child /\ u.l.range = w.l.range
        /\ u.l.carrying = w.l.carrying /\ u.l.parent = w.l.parent /\ u.l.upper = w.l.upper
        /\ u.l.changing = w.l.changing
        /\ HoldsHookshot(u.l) <=> HoldsHookshot(w.l)
    BY <1>1, <1>4 DEF Detached, HoldsHookshot
  <2>2. Settled(u.l) /\ (u.l.held # NULL => HoldsHookshot(u.l))
    BY <1>1, <1>4, <2>1 DEF Loosed, Settled, Detached
  <2>3. Pointers(u.l, u.a) /\ OneHook(u.l, u.a) /\ Mutual(u.l, u.a) /\ OutIsQuiet(u.l, u.a)
    BY <2>1 DEF Grip, Pointers, OneHook, Mutual, OutIsQuiet, HookOut, HookIsOut, ChangingOver
  <2>4. Holding(u.l)
    BY <2>2 DEF Holding, HoldsHookshot
  <2>5. Drawn(u.l, b) /\ Nocked(u.l, b)
    BY <1>1, <2>1, <2>2 DEF Detached, Drawn, Nocked, Grip, Aiming, HoldsHookshot
  <2>6. Fit(u, b)
    BY <1>1, <2>3, <2>4, <2>5 DEF Fit, Grip, Detached
  <2>7. Frees(w.a, u.a)
    BY <2>1 DEF Frees
  <2>8. Lively(w) => Lively(u)
    BY <2>1 DEF Lively
  <2>. QED  BY <2>2, <2>6, <2>7, <2>8 DEF u
<1>. QED  BY <1>3, <1>4

\* What is left when whatever Link holds has been put away.
Empty(w) ==
  /\ ~w.fault
  /\ w.l.held = NULL /\ w.l.child = NULL /\ w.l.parent = NULL /\ ~w.l.carrying
  /\ \A s \in Slot : ~LiveHook(w.a, s) /\ ~Believes(w.a, s)
  /\ w.l.range # NULL => w.a[w.l.range].kind = "bomb"

LEMMA DestroySound ==
  ASSUME NEW w \in Worlds, NEW b, Sound(w, b), Settled(w.l), ~HookOut(w.l, w.a)
  PROVE  LET u == DestroyHookshot(w)
         IN  /\ Sound(u, b) /\ Settled(u.l) /\ Frees(w.a, u.a)
             /\ HoldsHookshot(u.l) => u.l.held = NULL
             /\ \A s \in Slot : ~LiveHook(u.a, s)
             /\ u.l.act = w.l.act /\ u.l.upper = w.l.upper /\ u.l.changing = w.l.changing
             /\ u.l.ia = w.l.ia /\ u.l.id = w.l.id /\ u.use = w.use
<1>. DEFINE u == DestroyHookshot(w)
            h == w.l.held
<1>1. u \in Worlds
  BY DestroyTyped
<1>2. w.l \in Links /\ w.a \in [Slot -> Actor]
  BY DEF Worlds
<1>. USE DEF Sound, Fit, Grip
<1>3. CASE HoldsHookshot(w.l) /\ h # NULL
  <2>1. h \in Slot /\ Through(w, h) = w
    BY <1>3, HeldIsReal
  <2>2. u = [w EXCEPT !.a[h].phase = "dead", !.l.child = NULL, !.l.held = NULL]
    BY <1>3, <2>1 DEF DestroyHookshot
  <2>3. /\ u.a = [w.a EXCEPT ![h].phase = "dead"] /\ u.fault = w.fault /\ u.use = w.use
        /\ u.l = [w.l EXCEPT !.child = NULL, !.held = NULL]
    BY <2>1, <2>2 DEF Worlds, Links
  <2>. HIDE DEF u
  <2>4. /\ \A s \in Slot : s # h => u.a[s] = w.a[s]
        /\ u.a[h].kind = w.a[h].kind /\ u.a[h].phase = "dead"
    BY <1>2, <2>1, <2>3 DEF Actor
  <2>5. /\ u.l.held = NULL /\ u.l.child = NULL /\ u.l.range = w.l.range /\ u.l.parent = w.l.parent
        /\ u.l.carrying = w.l.carrying /\ u.l.ia = w.l.ia /\ u.l.id = w.l.id /\ u.l.draw = w.l.draw
        /\ u.l.act = w.l.act /\ u.l.upper = w.l.upper /\ u.l.changing = w.l.changing
    BY <1>2, <2>3 DEF Links
  <2>6. \A s \in Slot : ~LiveHook(u.a, s) /\ ~Believes(u.a, s)
    BY <1>3, <2>1, <2>4 DEF LiveHook, Believes, OneHook, Mutual, HookIsOut, NULL
  <2>7. w.a[h].kind = "hookshot" /\ ~w.l.carrying /\ w.l.parent = NULL
    BY <1>3 DEF Pointers, Settled, HoldsHookshot, HookIsOut
  <2>8. Frees(w.a, u.a)
    <3>1. w.a[h] # NoActor /\ u.a[h] # NoActor
      BY <2>4, <2>7 DEF NoActor
    <3>. QED  BY <2>4, <3>1 DEF Frees
  <2>9. u.l.range # NULL => u.l.range # h /\ u.a[u.l.range] = w.a[u.l.range]
    <3>. SUFFICES ASSUME u.l.range # NULL
                  PROVE  u.l.range # h /\ u.a[u.l.range] = w.a[u.l.range]
      OBVIOUS
    <3>1. w.a[w.l.range].kind = "bomb" /\ w.l.range \in Slot
      BY <2>5, <1>2, Pointing DEF Pointers, Links
    <3>. QED  BY <2>4, <2>5, <2>7, <3>1
  <2>10. Pointers(u.l, u.a) /\ OneHook(u.l, u.a) /\ Mutual(u.l, u.a) /\ OutIsQuiet(u.l, u.a)
    BY <2>5, <2>6, <2>7, <2>9 DEF Pointers, OneHook, Mutual, OutIsQuiet, HookOut
  <2>11. Holding(u.l) /\ Drawn(u.l, b) /\ Nocked(u.l, b) /\ Settled(u.l)
    BY <2>5, <2>7 DEF Holding, Drawn, Nocked, Aiming, Settled
  <2>12. Lively(u)
    BY <2>5, <2>9 DEF Lively
  <2>. QED  BY <2>3, <2>5, <2>6, <2>8, <2>10, <2>11, <2>12 DEF u
<1>4. CASE ~(HoldsHookshot(w.l) /\ h # NULL)
  <2>1. u = w
    BY <1>4 DEF DestroyHookshot
  <2>2. \A s \in Slot : ~LiveHook(w.a, s)
    BY <1>4 DEF HookOut, OneHook
  <2>. QED  BY <1>4, <2>1, <2>2 DEF Frees
<1>. QED  BY <1>3, <1>4

LEMMA PutAwaySound ==
  ASSUME NEW w \in Worlds, NEW b, Sound(w, b), Settled(w.l), ~HookOut(w.l, w.a)
  PROVE  LET e == DetachHeldActor(DestroyHookshot(w))
         IN  /\ Sound(e, b) /\ Empty(e) /\ Frees(w.a, e.a) /\ e.l.act = w.l.act
             /\ e.l.upper = w.l.upper /\ e.l.changing = w.l.changing
             /\ w.l.ia # "bomb" => e.l.id = w.l.id
             /\ e.l.ia # "bomb" /\ e.use = w.use
<1>. DEFINE d == DestroyHookshot(w)
            e == DetachHeldActor(d)
<1>1. /\ d \in Worlds /\ Sound(d, b) /\ Settled(d.l) /\ Frees(w.a, d.a)
      /\ HoldsHookshot(d.l) => d.l.held = NULL
      /\ \A s \in Slot : ~LiveHook(d.a, s)
      /\ d.l.act = w.l.act /\ d.l.upper = w.l.upper /\ d.l.changing = w.l.changing
      /\ d.l.ia = w.l.ia /\ d.l.id = w.l.id /\ d.use = w.use
  BY DestroySound, DestroyTyped
<1>. HIDE DEF d
<1>2. Grip(d, b) /\ Lively(d)
  BY <1>1 DEF Sound, Fit
<1>3. /\ Fit(e, b) /\ Settled(e.l) /\ Frees(d.a, e.a) /\ Lively(e)
      /\ e.l.held # NULL => HoldsHookshot(e.l)
  BY <1>1, <1>2, DetachSound
<1>4. Detached(d, e) /\ e \in Worlds
  BY <1>1, <1>2, DetachEffect, DetachTyped
<1>. HIDE DEF e
<1>5. e.l.held = NULL
  BY <1>1, <1>3, <1>4 DEF Detached, HoldsHookshot, Loosed
<1>6. ~e.l.carrying
  BY <1>3, <1>5, <1>4 DEF Settled, Worlds, Links
<1>7. \A s \in Slot : ~LiveHook(e.a, s)
  <2>1. CASE Loosed(d.l)
    <3>1. ~HoldsHookshot(e.l)
      BY <1>4, <2>1 DEF Detached, Loosed, HoldsHookshot
    <3>. QED  BY <1>3, <3>1 DEF Fit, Grip, OneHook
  <2>2. CASE ~Loosed(d.l)
    BY <1>1, <1>4, <2>2 DEF Detached
  <2>. QED  BY <2>1, <2>2
<1>8. e.l.child = NULL /\ e.l.parent = NULL
  <2>1. e.l.parent \in Pointer
    BY <1>4 DEF Worlds, Links
  <2>. QED  BY <1>3, <1>5, <1>7, <2>1, Pointing DEF Fit, Grip, Pointers
<1>9. \A s \in Slot : ~Believes(e.a, s)
  BY <1>3, <1>5, <1>7, Pointing DEF Fit, Grip, Mutual, Believes, LiveHook
<1>10. Empty(e)
  BY <1>3, <1>5, <1>6, <1>7, <1>8, <1>9 DEF Empty, Fit, Grip, Pointers
<1>11. Frees(w.a, e.a)
  BY <1>1, <1>3 DEF Frees
<1>12. /\ e.l.act = w.l.act /\ e.l.upper = w.l.upper /\ e.l.changing = w.l.changing
       /\ w.l.ia # "bomb" => e.l.id = w.l.id
       /\ e.l.ia # "bomb" /\ e.use = w.use
  BY <1>1, <1>4 DEF Detached
<1>. QED  BY <1>3, <1>10, <1>11, <1>12 DEF Sound, e, d

\* A fresh actor in a free slot of a world in which Link holds nothing.
Spawned(e, u, s) ==
  /\ s \in Slot /\ e.a[s] = NoActor
  /\ \A t \in Slot : t # s => u.a[t] = e.a[t]
  /\ u.l.held = s /\ u.l.child = s /\ u.l.parent = NULL /\ ~u.fault

LEMMA SpawnEffect ==
  ASSUME NEW e \in Worlds, NEW kind \in {"bomb", "hookshot", "arrow"}
  PROVE  LET s == SpawnSlot(e.a)
             u == SpawnAsChild(e, kind)
         IN  /\ s = NULL => u = e /\ \A t \in Slot : e.a[t] # NoActor
             /\ s # NULL => /\ s \in Slot /\ e.a[s] = NoActor
                            /\ u = [e EXCEPT !.a[s] = Fresh(kind), !.l.child = s]
                            /\ u.a[s] = Fresh(kind)
                            /\ \A t \in Slot : t # s => u.a[t] = e.a[t]
                            /\ u.l = [e.l EXCEPT !.child = s] /\ u.fault = e.fault
                            /\ u.use = e.use /\ u.hold = e.hold
<1>. DEFINE s == SpawnSlot(e.a)
<1>1. s \in Pointer /\ (s # NULL => e.a[s] = NoActor) /\ (s = NULL <=> \A t \in Slot : e.a[t] # NoActor)
  BY SpawnFinds DEF Worlds
<1>2. s # NULL => s \in Slot
  BY <1>1, Pointing
<1>. HIDE DEF s
<1>3. CASE s = NULL
  BY <1>1, <1>3 DEF SpawnAsChild, s
<1>4. CASE s # NULL
  <2>. DEFINE u == [e EXCEPT !.a[s] = Fresh(kind), !.l.child = s]
  <2>1. SpawnAsChild(e, kind) = u
    BY <1>4 DEF SpawnAsChild, s
  <2>2. u.a = [e.a EXCEPT ![s] = Fresh(kind)] /\ u.l = [e.l EXCEPT !.child = s]
        /\ u.fault = e.fault /\ u.use = e.use /\ u.hold = e.hold
    BY DEF Worlds
  <2>3. u.a[s] = Fresh(kind) /\ \A t \in Slot : t # s => u.a[t] = e.a[t]
    BY <1>2, <1>4, <2>2 DEF Worlds
  <2>. HIDE DEF u
  <2>. QED  BY <1>1, <1>2, <1>4, <2>1, <2>2, <2>3 DEF s, u
<1>. QED  BY <1>3, <1>4

LEMMA FreshIs ==
  /\ Fresh("bomb").kind = "bomb" /\ Fresh("bomb").phase = "move"
  /\ Fresh("hookshot").kind = "hookshot" /\ Fresh("hookshot").phase = "wait" /\ Fresh("hookshot").parent
  /\ Fresh("arrow").kind = "arrow" /\ Fresh("arrow").phase = "nocked"
  BY DEF Fresh

\* A world whose hands are empty but for what has just been spawned for them.
LEMMA HandedSound ==
  ASSUME NEW e \in Worlds, NEW u \in Worlds, NEW b, NEW s \in Slot,
         Empty(e), Lively(e), Spawned(e, u, s),
         \/ u.a[s].kind = "bomb" /\ ~HoldsHookshot(u.l)
         \/ u.a[s].kind = "arrow" /\ ~HoldsHookshot(u.l)
         \/ u.a[s].kind = "hookshot" /\ HoldsHookshot(u.l) /\ u.a[s].phase = "wait" /\ u.a[s].parent,
         u.a[s].phase # "dead",
         u.l.range = e.l.range \/ (u.l.range = s /\ u.a[s].kind = "bomb"),
         Holding(u.l), Drawn(u.l, b), Nocked(u.l, b)
  PROVE  Sound(u, b)
<1>. USE DEF Spawned
<1>1. s # NULL /\ u.l.held = s
  BY Pointing
<1>2. u.l.range # NULL => u.a[u.l.range].kind = "bomb" /\ u.a[u.l.range].phase # "dead"
  <2>1. CASE u.l.range = s /\ u.a[s].kind = "bomb"
    BY <2>1
  <2>2. CASE u.l.range = e.l.range
    <3>. SUFFICES ASSUME u.l.range # NULL
                  PROVE  u.a[u.l.range].kind = "bomb" /\ u.a[u.l.range].phase # "dead"
      OBVIOUS
    <3>1. e.a[e.l.range].kind = "bomb" /\ e.a[e.l.range].phase # "dead" /\ e.l.range \in Slot
      BY <2>2, Pointing DEF Empty, Lively, Worlds, Links
    <3>2. e.l.range # s
      BY <3>1 DEF NoActor
    <3>. QED  BY <2>2, <3>1, <3>2
  <2>. QED  BY <2>1, <2>2
<1>3. Pointers(u.l, u.a)
  BY <1>1, <1>2 DEF Pointers
<1>4. \A t \in Slot : (LiveHook(u.a, t) \/ Believes(u.a, t)) => t = s
  BY DEF Empty, LiveHook, Believes
<1>5. OneHook(u.l, u.a) /\ Mutual(u.l, u.a) /\ OutIsQuiet(u.l, u.a)
  BY <1>1, <1>4 DEF OneHook, Mutual, OutIsQuiet, HookOut, LiveHook
<1>. QED  BY <1>1, <1>2, <1>3, <1>5 DEF Sound, Fit, Grip, Lively

\* A world whose hands are empty.
LEMMA EmptySound ==
  ASSUME NEW u \in Worlds, NEW b, Empty(u), Lively(u), Drawn(u.l, b)
  PROVE  Sound(u, b) /\ Settled(u.l)
  BY DEF Empty, Sound, Fit, Grip, Pointers, OneHook, Mutual, OutIsQuiet, HookOut, Holding, Nocked, Settled

LEMMA PlainEmpty ==
  ASSUME NEW e \in Worlds, NEW b, Empty(e), Lively(e), ~Aiming(e.l), NEW ia \in Items \cup {"none"}
  PROVE  LET u == InitPlain(e, ia)
         IN  /\ u \in Worlds /\ Empty(u) /\ Lively(u) /\ Drawn(u.l, b) /\ ~Aiming(u.l)
             /\ u.a = e.a /\ u.l.ia = ia /\ u.l.act = e.l.act /\ u.l.upper = e.l.upper
             /\ u.l.id = e.l.id /\ u.l.changing = e.l.changing /\ u.l.range = e.l.range
             /\ u.use = e.use
<1>. DEFINE u == InitPlain(e, ia)
<1>1. u \in Worlds
  BY PlainTyped
<1>2. /\ u.a = e.a /\ u.use = e.use /\ u.fault = e.fault /\ e.l \in Links
      /\ u.l = [e.l EXCEPT !.ia = ia, !.draw = IF ia \in {"bow", "hookshot"} THEN -1 ELSE 0]
  BY DEF InitPlain, Worlds, Links
<1>. HIDE DEF u
<1>3. /\ u.l.ia = ia /\ u.l.draw = (IF ia \in {"bow", "hookshot"} THEN -1 ELSE 0)
      /\ u.l.act = e.l.act /\ u.l.upper = e.l.upper /\ u.l.id = e.l.id
      /\ u.l.changing = e.l.changing /\ u.l.range = e.l.range /\ u.l.held = e.l.held
      /\ u.l.child = e.l.child /\ u.l.parent = e.l.parent /\ u.l.carrying = e.l.carrying
  BY <1>2 DEF Links
<1>4. Empty(u) /\ Lively(u) /\ ~Aiming(u.l)
  BY <1>2, <1>3 DEF Empty, Lively, Aiming
<1>5. Drawn(u.l, b)
  BY <1>3, <1>4 DEF Drawn
<1>. QED  BY <1>1, <1>2, <1>3, <1>4, <1>5 DEF u

LEMMA InitSound ==
  ASSUME NEW e \in Worlds, NEW b, Empty(e), Lively(e), ~Aiming(e.l), NEW ia \in Items \cup {"none"}
  PROVE  LET u == InitItemAction(e, ia)
         IN  /\ Sound(u, b) /\ Settled(u.l)
             /\ Room(e.a) \/ ia # "bomb" => NoOffer(u.l)
             /\ u.l.act = e.l.act /\ u.l.upper = e.l.upper /\ u.use = e.use
<1>. DEFINE p == InitPlain(e, ia)
<1>1. /\ p \in Worlds /\ Empty(p) /\ Lively(p) /\ Drawn(p.l, b) /\ ~Aiming(p.l)
      /\ p.a = e.a /\ p.l.ia = ia /\ p.l.act = e.l.act /\ p.l.upper = e.l.upper
      /\ p.l.id = e.l.id /\ p.l.changing = e.l.changing /\ p.l.range = e.l.range
      /\ p.use = e.use
  BY PlainEmpty
<1>. HIDE DEF p
<1>2. Sound(p, b) /\ Settled(p.l)
  BY <1>1, EmptySound
<1>. DEFINE s == SpawnSlot(p.a)
<1>3. CASE ia \notin {"bomb", "hookshot"}
  BY <1>1, <1>2, <1>3 DEF InitItemAction, NoOffer, p
<1>4. CASE ia = "bomb"
  <2>. DEFINE c == SpawnAsChild(p, "bomb")
              u == [c EXCEPT !.l.range = s, !.l.held = s, !.l.carrying = TRUE]
  <2>1. InitItemAction(e, ia) = IF s = NULL THEN p ELSE u
    BY <1>1, <1>4 DEF InitItemAction, InitExplosiveIA, Empty, p
  <2>2. CASE s = NULL
    <3>1. ~Room(e.a)
      BY <1>1, <2>2, SpawnEffect DEF Room
    <3>. QED  BY <1>1, <1>2, <1>4, <2>1, <2>2, <3>1
  <2>3. CASE s # NULL
    <3>1. /\ c \in Worlds /\ s \in Slot /\ p.a[s] = NoActor /\ c.a[s] = Fresh("bomb")
          /\ \A t \in Slot : t # s => c.a[t] = p.a[t]
          /\ c.l = [p.l EXCEPT !.child = s] /\ c.fault = p.fault /\ c.use = p.use
      BY <1>1, <2>3, SpawnEffect, SpawnTyped
    <3>2. s \in Pointer /\ p.l \in Links
      BY <1>1, <3>1, Pointing DEF Worlds
    <3>. HIDE DEF c, s
    <3>3. u \in Worlds /\ u.a = c.a /\ u.fault = c.fault /\ u.use = c.use
          /\ u.l = [c.l EXCEPT !.range = s, !.held = s, !.carrying = TRUE]
      BY <3>1, <3>2 DEF Worlds, Links
    <3>. HIDE DEF u
    <3>4. /\ u.l.held = s /\ u.l.child = s /\ u.l.range = s /\ u.l.carrying /\ u.l.ia = "bomb"
          /\ u.l.parent = p.l.parent /\ u.l.act = p.l.act /\ u.l.upper = p.l.upper
      BY <1>1, <1>4, <3>1, <3>2, <3>3 DEF Links
    <3>5. Spawned(p, u, s)
      BY <1>1, <3>1, <3>3, <3>4 DEF Spawned, Empty
    <3>6. Holding(u.l) /\ Drawn(u.l, b) /\ Nocked(u.l, b) /\ Settled(u.l) /\ NoOffer(u.l)
      BY <1>1, <3>1, <3>4, Pointing DEF Holding, Drawn, Nocked, Settled, NoOffer, Aiming
    <3>7. u.a[s].kind = "bomb" /\ u.a[s].phase # "dead" /\ ~HoldsHookshot(u.l)
      BY <3>1, <3>3, <3>4, FreshIs DEF HoldsHookshot
    <3>8. Sound(u, b)
      BY <1>1, <3>1, <3>3, <3>4, <3>5, <3>6, <3>7, HandedSound
    <3>9. InitItemAction(e, ia) = u
      BY <2>1, <2>3 DEF s
    <3>10. u.l.act = e.l.act /\ u.l.upper = e.l.upper /\ u.use = e.use
      BY <1>1, <3>1, <3>3, <3>4
    <3>. QED  BY <3>6, <3>8, <3>9, <3>10
  <2>. QED  BY <2>2, <2>3
<1>5. CASE ia = "hookshot"
  <2>. DEFINE c == SpawnAsChild(p, "hookshot")
              u == [c EXCEPT !.l.held = s]
  <2>1. InitItemAction(e, ia) = u
    BY <1>1, <1>5 DEF InitItemAction, InitHookshotIA, p
  <2>2. CASE s = NULL
    <3>1. c = p
      BY <1>1, <2>2, SpawnEffect
    <3>2. u = p
      BY <1>1, <2>2, <3>1 DEF Empty, Worlds, Links
    <3>. QED  BY <1>1, <1>2, <1>5, <2>1, <3>2 DEF NoOffer
  <2>3. CASE s # NULL
    <3>1. /\ c \in Worlds /\ s \in Slot /\ p.a[s] = NoActor /\ c.a[s] = Fresh("hookshot")
          /\ \A t \in Slot : t # s => c.a[t] = p.a[t]
          /\ c.l = [p.l EXCEPT !.child = s] /\ c.fault = p.fault /\ c.use = p.use
      BY <1>1, <2>3, SpawnEffect, SpawnTyped
    <3>2. s \in Pointer /\ p.l \in Links
      BY <1>1, <3>1, Pointing DEF Worlds
    <3>. HIDE DEF c, s
    <3>3. u \in Worlds /\ u.a = c.a /\ u.fault = c.fault /\ u.use = c.use
          /\ u.l = [c.l EXCEPT !.held = s]
      BY <3>1, <3>2 DEF Worlds, Links
    <3>. HIDE DEF u
    <3>4. /\ u.l.held = s /\ u.l.child = s /\ u.l.range = p.l.range /\ ~u.l.carrying
          /\ u.l.ia = "hookshot" /\ u.l.draw = p.l.draw
          /\ u.l.parent = p.l.parent /\ u.l.act = p.l.act /\ u.l.upper = p.l.upper
      BY <1>1, <1>5, <3>1, <3>2, <3>3 DEF Links, Empty
    <3>5. Spawned(p, u, s)
      BY <1>1, <3>1, <3>3, <3>4 DEF Spawned, Empty
    <3>6. Holding(u.l) /\ Drawn(u.l, b) /\ Nocked(u.l, b) /\ Settled(u.l) /\ NoOffer(u.l)
      BY <1>1, <3>4 DEF Holding, Drawn, Nocked, Settled, NoOffer, Aiming
    <3>7. /\ u.a[s].kind = "hookshot" /\ u.a[s].phase = "wait" /\ u.a[s].parent
          /\ HoldsHookshot(u.l)
      BY <3>1, <3>3, <3>4, FreshIs DEF HoldsHookshot
    <3>8. u.l.range = e.l.range
      BY <1>1, <3>4
    <3>9. Sound(u, b)
      BY <1>1, <3>1, <3>3, <3>5, <3>6, <3>7, <3>8, HandedSound
    <3>10. u.l.act = e.l.act /\ u.l.upper = e.l.upper /\ u.use = e.use
      BY <1>1, <3>1, <3>3, <3>4
    <3>. QED  BY <2>1, <3>6, <3>9, <3>10
  <2>. QED  BY <2>2, <2>3
<1>. QED  BY <1>3, <1>4, <1>5

LEMMA SameHands ==
  ASSUME NEW w, NEW u, NEW b, Sound(w, b), u.l = w.l, u.a = w.a, u.fault = w.fault
  PROVE  Sound(u, b)
  BY DEF Sound, Fit, Grip, Lively

\* Announcing a change keeps everything in order, whatever has died meanwhile.
LEMMA AnnounceFit ==
  ASSUME NEW w \in Worlds, NEW b, Fit(w, b), Settled(w.l), NEW id \in Ids, ~HookOut(w.l, w.a),
         w.l.ia = "bow" /\ w.l.held # NULL => ItemToAction(id) # "bow" /\ b # "bow"
  PROVE  LET u == Announce(w, id)
         IN  /\ Fit(u, b) /\ Settled(u.l) /\ (NoOffer(w.l) => NoOffer(u.l))
             /\ Lively(w) => Lively(u)
             /\ u.l.act = w.l.act /\ u.l.upper = w.l.upper /\ u.use = w.use
<1>. DEFINE u == Announce(w, id)
<1>1. /\ u.a = w.a /\ u.fault = w.fault /\ u.use = w.use /\ w.l \in Links
      /\ u.l = [w.l EXCEPT !.id = id, !.changing = TRUE]
  BY DEF Announce, Worlds
<1>. HIDE DEF u
<1>2. /\ u.l.id = id /\ u.l.changing /\ u.l.held = w.l.held /\ u.l.child = w.l.child
      /\ u.l.range = w.l.range /\ u.l.parent = w.l.parent /\ u.l.ia = w.l.ia
      /\ u.l.carrying = w.l.carrying /\ u.l.draw = w.l.draw /\ u.l.act = w.l.act
      /\ u.l.upper = w.l.upper
  BY <1>1 DEF Links
<1>3. Pointers(u.l, u.a) /\ OneHook(u.l, u.a) /\ Mutual(u.l, u.a) /\ Holding(u.l)
  BY <1>1, <1>2 DEF Fit, Grip, Pointers, OneHook, Mutual, HookIsOut, HoldsHookshot, Holding
<1>4. OutIsQuiet(u.l, u.a)
  BY <1>1, <1>2 DEF OutIsQuiet, HookOut
<1>5. Drawn(u.l, b) /\ Nocked(u.l, b)
  BY <1>1, <1>2 DEF Fit, Grip, Drawn, Nocked, Aiming
<1>6. (Lively(w) => Lively(u)) /\ Settled(u.l) /\ (NoOffer(w.l) => NoOffer(u.l))
  BY <1>1, <1>2 DEF Lively, Settled, NoOffer
<1>. QED  BY <1>1, <1>2, <1>3, <1>4, <1>5, <1>6 DEF Fit, Grip, u

LEMMA AnnounceSound ==
  ASSUME NEW w \in Worlds, NEW b, Sound(w, b), Settled(w.l), NEW id \in Ids, ~HookOut(w.l, w.a),
         w.l.ia = "bow" /\ w.l.held # NULL => ItemToAction(id) # "bow" /\ b # "bow"
  PROVE  LET u == Announce(w, id)
         IN  /\ Sound(u, b) /\ Settled(u.l) /\ (NoOffer(w.l) => NoOffer(u.l))
             /\ u.l.act = w.l.act /\ u.l.upper = w.l.upper /\ u.use = w.use
  BY AnnounceFit DEF Sound

\* What a request for an item leaves behind.
Uses(w, u, id, b) ==
  /\ Sound(u, b) /\ Settled(u.l)
  /\ BombFits(w.a) /\ NoOffer(w.l) => NoOffer(u.l)
  /\ u.l.act = w.l.act /\ u.l.upper = w.l.upper
  /\ \/ u.use = w.use
     \/ u.l = w.l /\ w.l.ia = ItemToAction(id) /\ (w.l.ia = "bomb" => w.l.held # NULL)

LEMMA HeldUsed ==
  ASSUME NEW w \in Worlds, NEW b, NEW id, Sound(w, b), Settled(w.l), w.l.ia = ItemToAction(id),
         w.l.ia = "bomb" => w.l.held # NULL
  PROVE  Uses(w, UseHeldItem(w), id, b)
<1>1. /\ UseHeldItem(w).l = w.l /\ UseHeldItem(w).a = w.a /\ UseHeldItem(w).fault = w.fault
  BY DEF UseHeldItem, Worlds
<1>2. Sound(UseHeldItem(w), b)
  BY <1>1, SameHands
<1>. QED  BY <1>1, <1>2 DEF Uses

LEMMA UseNoneSound ==
  ASSUME NEW w \in Worlds, NEW b, NEW id \in {"none", "none_fe"}, Sound(w, b), Settled(w.l),
         Asks(w, id, b)
  PROVE  Uses(w, UseNone(w, id), id, b)
<1>1. ItemToAction(id) = "none" /\ id \in Ids
  BY DEF ItemToAction, Ids
<1>2. CASE w.l.ia = "none"
  BY <1>1, <1>2, HeldUsed DEF UseNone
<1>3. CASE w.l.ia # "none" /\ id # w.l.id
  <2>1. w.l.ia = "bow" /\ w.l.held # NULL => ItemToAction(id) # "bow" /\ b # "bow"
    BY <1>1, <1>3 DEF Asks
  <2>2. ~HookOut(w.l, w.a)
    BY DEF Asks
  <2>. QED  BY <1>1, <1>3, <2>1, <2>2, AnnounceSound DEF UseNone, Uses
<1>4. CASE w.l.ia # "none" /\ id = w.l.id
  <2>. DEFINE e == DetachHeldActor(DestroyHookshot(w))
              u == InitPlain(e, "none")
  <2>1. UseNone(w, id) = u
    BY <1>4 DEF UseNone
  <2>2. ~HookOut(w.l, w.a) /\ ~Aiming(w.l)
    BY <1>1, <1>4 DEF Asks, Sound, Fit, Grip, Drawn
  <2>3. e \in Worlds
    BY DestroyTyped, DetachTyped
  <2>4. /\ Sound(e, b) /\ Empty(e) /\ e.l.act = w.l.act /\ e.l.upper = w.l.upper
        /\ e.l.changing = w.l.changing /\ e.use = w.use
    BY <2>2, PutAwaySound
  <2>. HIDE DEF e
  <2>5. ~Aiming(e.l) /\ Lively(e)
    BY <2>2, <2>4 DEF Aiming, Sound
  <2>6. /\ u \in Worlds /\ Empty(u) /\ Lively(u) /\ Drawn(u.l, b) /\ u.l.ia = "none"
        /\ u.l.act = e.l.act /\ u.l.upper = e.l.upper /\ u.use = e.use
    BY <2>3, <2>4, <2>5, PlainEmpty
  <2>. HIDE DEF u
  <2>7. Sound(u, b) /\ Settled(u.l)
    BY <2>6, EmptySound
  <2>. QED  BY <2>1, <2>4, <2>6, <2>7 DEF Uses, NoOffer
<1>. QED  BY <1>2, <1>3, <1>4

LEMMA UseItemSound ==
  ASSUME NEW w \in Worlds, NEW b, NEW id \in Ids, NEW ammo, Sound(w, b), Settled(w.l),
         Asks(w, id, b)
  PROVE  Uses(w, UseItem(w, id, ammo), id, b)
<1>. DEFINE ia == ItemToAction(id)
<1>1. ia \in Items \cup {"none"}
  BY ActionOfItem
<1>2. CASE ia = "none"
  <2>1. id \in {"none", "none_fe"}
    BY <1>2 DEF ItemToAction
  <2>. QED  BY <1>2, <2>1, UseNoneSound DEF UseItem
<1>3. CASE ia # "none"
  <2>. DEFINE full == ia = "bomb" /\ (~ammo \/ Cardinality(Explosives(w.a)) >= MaxExplosives)
              new == ia # w.l.ia \/ (w.l.held = NULL /\ ia = "bomb")
              e == DetachHeldActor(DestroyHookshot(w))
  <2>1. UseItem(w, id, ammo) = IF full THEN w
                               ELSE IF new
                                 THEN IF id # w.l.id THEN Announce(w, id) ELSE InitItemAction(e, ia)
                               ELSE UseHeldItem(w)
    BY <1>3 DEF UseItem
  <2>2. CASE full
    BY <2>1, <2>2 DEF Uses
  <2>3. CASE ~full /\ new /\ id # w.l.id
    <3>1. w.l.ia = "bow" /\ w.l.held # NULL => ia # "bow" /\ b # "bow"
      BY <2>3 DEF Asks
    <3>. QED  BY <2>1, <2>3, <3>1, AnnounceSound DEF Uses, Asks
  <2>4. CASE ~full /\ new /\ id = w.l.id
    <3>1. ~HookOut(w.l, w.a) /\ ~Aiming(w.l)
      BY <2>4 DEF Asks, Sound, Fit, Grip, Drawn
    <3>2. e \in Worlds
      BY DestroyTyped, DetachTyped
    <3>3. /\ Sound(e, b) /\ Empty(e) /\ Frees(w.a, e.a) /\ e.l.act = w.l.act
          /\ e.l.upper = w.l.upper /\ e.use = w.use
      BY <3>1, PutAwaySound
    <3>. HIDE DEF e, ia
    <3>4. ~Aiming(e.l) /\ Lively(e)
      BY <3>1, <3>3 DEF Aiming, Sound
    <3>5. LET u == InitItemAction(e, ia)
          IN  /\ Sound(u, b) /\ Settled(u.l) /\ (Room(e.a) \/ ia # "bomb" => NoOffer(u.l))
              /\ u.l.act = e.l.act /\ u.l.upper = e.l.upper /\ u.use = e.use
      BY <1>1, <3>2, <3>3, <3>4, InitSound
    <3>6. BombFits(w.a) => Room(e.a) \/ ia # "bomb"
      BY <2>4, <3>3 DEF Frees, BombFits, Room
    <3>. QED  BY <2>1, <2>4, <3>3, <3>5, <3>6 DEF Uses
  <2>5. CASE ~full /\ ~new
    BY <2>1, <2>5, HeldUsed
  <2>. QED  BY <2>2, <2>3, <2>4, <2>5
<1>. QED  BY <1>2, <1>3

LEMMA NewUpperSound ==
  ASSUME NEW w \in Worlds, NEW b, Sound(w, b), Settled(w.l)
  PROVE  LET u == NewUpper(w)
         IN  /\ Sound(u, b) /\ Settled(u.l) /\ ~u.l.changing /\ ~ChangingOver(u.l) /\ u.l.ia # "bomb"
             /\ u.l.upper = ItemUpper(w.l.ia) /\ u.l.act = w.l.act /\ ~u.l.carrying
             /\ ~Loosed(w.l) /\ w.l.ia # "bomb" =>
                  /\ u.a = w.a /\ u.l.held = w.l.held /\ u.l.ia = w.l.ia /\ u.l.id = w.l.id
                  /\ u.l.range = w.l.range
<1>. DEFINE x == [w EXCEPT !.l.upper = ItemUpper(w.l.ia)]
            y == DetachHeldActor(x)
            u == [y EXCEPT !.l.changing = FALSE]
<1>1. ItemUpper(w.l.ia) \in {"idle", "carry", "ready"}
  BY UpperOf DEF Worlds, Links
<1>2. x \in Worlds
  BY <1>1 DEF Worlds, Links, Uppers
<1>3. /\ x.a = w.a /\ x.fault = w.fault /\ w.l \in Links
      /\ x.l = [w.l EXCEPT !.upper = ItemUpper(w.l.ia)]
  BY DEF Worlds
<1>4. NewUpper(w) = u
  BY DEF NewUpper
<1>. HIDE DEF x
<1>5. /\ x.l.held = w.l.held /\ x.l.child = w.l.child /\ x.l.range = w.l.range
      /\ x.l.parent = w.l.parent /\ x.l.carrying = w.l.carrying /\ x.l.ia = w.l.ia
      /\ x.l.id = w.l.id /\ x.l.draw = w.l.draw /\ x.l.act = w.l.act
      /\ x.l.changing = w.l.changing /\ x.l.upper = ItemUpper(w.l.ia)
  BY <1>3 DEF Links
<1>6. Grip(x, b) /\ Settled(x.l) /\ Lively(x)
  <2>1. Pointers(x.l, x.a) /\ OneHook(x.l, x.a) /\ Mutual(x.l, x.a)
    BY <1>3, <1>5 DEF Sound, Fit, Grip, Pointers, OneHook, Mutual, HookIsOut, HoldsHookshot
  <2>2. OutIsQuiet(x.l, x.a) /\ Holding(x.l) /\ Drawn(x.l, b) /\ Settled(x.l) /\ Lively(x)
    BY <1>1, <1>3, <1>5 DEF Sound, Fit, Grip, OutIsQuiet, HookOut, Holding, Drawn, Aiming, Settled,
       ChangingOver, Lively
  <2>. QED  BY <1>3, <2>1, <2>2 DEF Sound, Fit, Grip
<1>7. /\ Fit(y, b) /\ Settled(y.l) /\ Lively(y) /\ (y.l.held # NULL => HoldsHookshot(y.l))
  BY <1>2, <1>6, DetachSound
<1>8. Detached(x, y) /\ y \in Worlds
  BY <1>2, <1>6, DetachEffect, DetachTyped
<1>. HIDE DEF y
<1>9. /\ u.a = y.a /\ u.fault = y.fault /\ y.l \in Links /\ u.l = [y.l EXCEPT !.changing = FALSE]
  BY <1>8 DEF Worlds
<1>. HIDE DEF u
<1>10. /\ u.l.held = y.l.held /\ u.l.child = y.l.child /\ u.l.range = y.l.range
       /\ u.l.parent = y.l.parent /\ u.l.carrying = y.l.carrying /\ u.l.ia = y.l.ia
       /\ u.l.id = y.l.id /\ u.l.draw = y.l.draw /\ u.l.act = y.l.act
       /\ ~u.l.changing /\ u.l.upper = y.l.upper
  BY <1>9 DEF Links
<1>11. /\ u.l.upper = ItemUpper(w.l.ia) /\ u.l.act = w.l.act /\ u.l.ia # "bomb"
       /\ ~Aiming(u.l) /\ ~ChangingOver(u.l)
  BY <1>1, <1>5, <1>8, <1>10 DEF Detached, Aiming, ChangingOver
<1>12. Sound(u, b)
  <2>1. Pointers(u.l, u.a) /\ OneHook(u.l, u.a) /\ Mutual(u.l, u.a)
    BY <1>7, <1>9, <1>10 DEF Fit, Grip, Pointers, OneHook, Mutual, HookIsOut, HoldsHookshot
  <2>2. OutIsQuiet(u.l, u.a) /\ Holding(u.l)
    BY <1>7, <1>9, <1>10, <1>11 DEF Fit, Grip, OutIsQuiet, HookOut, Holding
  <2>3. Drawn(u.l, b) /\ Nocked(u.l, b)
    BY <1>7, <1>10, <1>11 DEF Fit, Grip, Drawn, Nocked, HoldsHookshot
  <2>4. Lively(u)
    BY <1>7, <1>9, <1>10 DEF Lively
  <2>. QED  BY <1>7, <1>9, <2>1, <2>2, <2>3, <2>4 DEF Sound, Fit, Grip
<1>13. Settled(u.l) /\ ~u.l.carrying
  BY <1>7, <1>8, <1>9, <1>10 DEF Settled, HoldsHookshot, Links
<1>14. ~Loosed(w.l) /\ w.l.ia # "bomb" =>
         /\ u.a = w.a /\ u.l.held = w.l.held /\ u.l.ia = w.l.ia /\ u.l.id = w.l.id
         /\ u.l.range = w.l.range
  BY <1>3, <1>5, <1>8, <1>9, <1>10 DEF Detached, Loosed, HoldsHookshot
<1>. QED  BY <1>4, <1>10, <1>11, <1>12, <1>13, <1>14

\* What FinishItemChange finds when the items change over.
LEMMA FinishAsks ==
  ASSUME NEW w, NEW b, Sound(w, b), ChangingOver(w.l)
  PROVE  Asks(w, w.l.id, b)
  BY DEF Asks, Sound, Fit, Grip, OutIsQuiet, Aiming, ChangingOver

LEMMA FinishSound ==
  ASSUME NEW w \in Worlds, NEW b, NEW in \in Ins, Sound(w, b), Settled(w.l), ChangingOver(w.l)
  PROVE  FinishItemChange(w, in) \in Worlds /\ Uses(w, FinishItemChange(w, in), w.l.id, b)
<1>1. w.l.id \in Ids
  BY DEF Worlds, Links, Ids
<1>2. Uses(w, FinishItemChange(w, in), w.l.id, b)
  BY <1>1, FinishAsks, UseItemSound DEF FinishItemChange
<1>. QED  BY <1>2, FinishTyped

LEMMA ResetSound ==
  ASSUME NEW w \in Worlds, NEW b, NEW in \in Ins, Sound(w, b), Settled(w.l)
  PROVE  LET u == ResetUpper(w, in)
         IN  /\ Sound(u, b) /\ Settled(u.l) /\ ~u.l.changing /\ ~ChangingOver(u.l) /\ u.l.ia # "bomb"
             /\ u.l.act = w.l.act /\ ~u.l.carrying
<1>1. CASE ChangingOver(w.l)
  <2>. DEFINE x == FinishItemChange(w, in)
  <2>1. x \in Worlds /\ Sound(x, b) /\ Settled(x.l) /\ x.l.act = w.l.act
    BY <1>1, FinishSound DEF Uses
  <2>2. ResetUpper(w, in) = NewUpper(x)
    BY <1>1 DEF ResetUpper
  <2>. HIDE DEF x
  <2>. QED  BY <2>1, <2>2, NewUpperSound
<1>2. CASE ~ChangingOver(w.l)
  <2>1. ResetUpper(w, in) = NewUpper(w)
    BY <1>2 DEF ResetUpper
  <2>. QED  BY <2>1, NewUpperSound
<1>. QED  BY <1>1, <1>2

LEMMA ActSound ==
  ASSUME NEW w \in Worlds, NEW b, NEW act \in Actions, Sound(w, b)
  PROVE  LET u == [w EXCEPT !.l.act = act]
         IN  /\ u \in Worlds /\ Sound(u, b) /\ u.a = w.a /\ u.l.act = act /\ u.busy = w.busy
             /\ Settled(w.l) <=> Settled(u.l)
             /\ NoOffer(w.l) <=> NoOffer(u.l)
             /\ Aiming(w.l) <=> Aiming(u.l)
             /\ ChangingOver(w.l) <=> ChangingOver(u.l)
             /\ u.l.held = w.l.held /\ u.l.child = w.l.child /\ u.l.range = w.l.range
             /\ u.l.parent = w.l.parent /\ u.l.carrying = w.l.carrying /\ u.l.ia = w.l.ia
             /\ u.l.id = w.l.id /\ u.l.changing = w.l.changing /\ u.l.upper = w.l.upper
<1>. DEFINE u == [w EXCEPT !.l.act = act]
<1>1. /\ u \in Worlds /\ u.a = w.a /\ u.fault = w.fault /\ u.busy = w.busy /\ w.l \in Links
      /\ u.l = [w.l EXCEPT !.act = act]
  BY DEF Worlds, Links
<1>. HIDE DEF u
<1>2. /\ u.l.held = w.l.held /\ u.l.child = w.l.child /\ u.l.range = w.l.range
      /\ u.l.parent = w.l.parent /\ u.l.carrying = w.l.carrying /\ u.l.ia = w.l.ia
      /\ u.l.id = w.l.id /\ u.l.draw = w.l.draw /\ u.l.act = act
      /\ u.l.changing = w.l.changing /\ u.l.upper = w.l.upper
  BY <1>1 DEF Links
<1>3. /\ Settled(w.l) <=> Settled(u.l)
      /\ NoOffer(w.l) <=> NoOffer(u.l)
      /\ Aiming(w.l) <=> Aiming(u.l)
      /\ ChangingOver(w.l) <=> ChangingOver(u.l)
  BY <1>2 DEF Settled, NoOffer, Aiming, ChangingOver
<1>4. Pointers(u.l, u.a) /\ OneHook(u.l, u.a) /\ Mutual(u.l, u.a)
  BY <1>1, <1>2 DEF Sound, Fit, Grip, Pointers, OneHook, Mutual, HookIsOut, HoldsHookshot
<1>5. OutIsQuiet(u.l, u.a) /\ Holding(u.l) /\ Drawn(u.l, b) /\ Nocked(u.l, b) /\ Lively(u)
  BY <1>1, <1>2 DEF Sound, Fit, Grip, OutIsQuiet, HookOut, Holding, Drawn, Nocked, Aiming,
     ChangingOver, Lively
<1>6. Sound(u, b)
  BY <1>1, <1>4, <1>5 DEF Sound, Fit, Grip
<1>. QED  BY <1>1, <1>2, <1>3, <1>6 DEF u

\* An action that keeps the upper body, or finds Link carrying, changes nothing else.
LEMMA KeptAction ==
  ASSUME NEW w \in Worlds, NEW act \in Actions, NEW in
  PROVE  /\ SetupAction(w, act, TRUE, in) = [w EXCEPT !.l.act = act]
         /\ w.l.carrying => SetupAction(w, act, FALSE, in) = [w EXCEPT !.l.act = act]
<1>1. CASE w.l.act = act
  BY <1>1 DEF SetupAction, Worlds, Links
<1>2. CASE w.l.act # act
  BY <1>2 DEF SetupAction
<1>. QED  BY <1>1, <1>2

LEMMA SetupSound ==
  ASSUME NEW w \in Worlds, NEW b, NEW act \in Actions, NEW in \in Ins, Sound(w, b), Settled(w.l)
  PROVE  /\ Sound(SetupAction(w, act, TRUE, in), b)
         /\ Settled(SetupAction(w, act, TRUE, in).l)
         /\ SetupAction(w, act, TRUE, in).l.act = act
         /\ Sound(SetupAction(w, act, FALSE, in), b)
         /\ Settled(SetupAction(w, act, FALSE, in).l)
         /\ SetupAction(w, act, FALSE, in).l.act = act
<1>. DEFINE x == [w EXCEPT !.l.act = act]
            r == ResetUpper(x, in)
<1>1. x \in Worlds /\ Sound(x, b) /\ Settled(x.l) /\ x.l.act = act
  BY ActSound
<1>2. SetupAction(w, act, TRUE, in) = x
  BY KeptAction
<1>3. SetupAction(w, act, FALSE, in) \in {w, x, r} /\ (w.l.act # act => SetupAction(w, act, FALSE, in) \in {x, r})
  BY DEF SetupAction
<1>. HIDE DEF x
<1>4. Sound(r, b) /\ Settled(r.l) /\ r.l.act = act
  BY <1>1, ResetSound
<1>. QED  BY <1>1, <1>2, <1>3, <1>4

\* A carrying flag without a load is cleared; one with a load is not.
Bare(l) == l.carrying /\ l.held = NULL

LEMMA StopSound ==
  ASSUME NEW w \in Worlds, NEW b, Sound(w, b), Settled(w.l) \/ Bare(w.l)
  PROVE  LET x == StopCarrying(w)
         IN  /\ x \in Worlds /\ Sound(x, b) /\ Settled(x.l) /\ x.l.act = w.l.act
             /\ x.a = w.a /\ x.use = w.use /\ x.l.held = w.l.held
             /\ NoOffer(w.l) => NoOffer(x.l)
<1>. DEFINE x == StopCarrying(w)
<1>1. CASE Bare(w.l)
  <2>1. x = [w EXCEPT !.l.carrying = FALSE, !.l.range = NULL]
    BY <1>1 DEF StopCarrying, Bare
  <2>2. x \in Worlds
    BY StopTyped
  <2>. HIDE DEF x
  <2>3. /\ x.a = w.a /\ x.fault = w.fault /\ x.use = w.use /\ w.l \in Links
        /\ x.l = [w.l EXCEPT !.carrying = FALSE, !.range = NULL]
    BY <2>1 DEF Worlds
  <2>4. /\ x.l.held = NULL /\ x.l.child = w.l.child /\ x.l.range = NULL
        /\ x.l.parent = w.l.parent /\ ~x.l.carrying /\ x.l.ia = w.l.ia
        /\ x.l.id = w.l.id /\ x.l.draw = w.l.draw /\ x.l.act = w.l.act
        /\ x.l.changing = w.l.changing /\ x.l.upper = w.l.upper
    BY <1>1, <2>3 DEF Links, Bare
  <2>5. Pointers(x.l, x.a) /\ OneHook(x.l, x.a) /\ Mutual(x.l, x.a)
    BY <1>1, <2>3, <2>4 DEF Bare, Sound, Fit, Grip, Pointers, OneHook, Mutual, HookIsOut, HoldsHookshot
  <2>6. OutIsQuiet(x.l, x.a) /\ Holding(x.l) /\ Drawn(x.l, b) /\ Nocked(x.l, b) /\ Lively(x)
    BY <1>1, <2>3, <2>4 DEF Bare, Sound, Fit, Grip, OutIsQuiet, HookOut, Holding, Drawn, Nocked,
       Aiming, ChangingOver, Lively
  <2>7. Sound(x, b) /\ Settled(x.l) /\ NoOffer(x.l)
    BY <2>3, <2>4, <2>5, <2>6 DEF Sound, Fit, Grip, Settled, NoOffer
  <2>. QED  BY <1>1, <2>2, <2>3, <2>4, <2>7 DEF x, Bare
<1>2. CASE ~Bare(w.l)
  <2>1. x = w
    BY <1>2 DEF StopCarrying, Bare
  <2>. QED  BY <1>2, <2>1
<1>. QED  BY <1>1, <1>2

LEMMA LetGoSound ==
  ASSUME NEW w \in Worlds, NEW b, Sound(w, b), Settled(w.l) \/ Bare(w.l)
  PROVE  LET u == LetGo(w)
         IN  /\ u \in Worlds /\ Sound(u, b) /\ Settled(u.l) /\ u.l.act = w.l.act /\ u.l.ia # "bomb"
             /\ u.use = w.use /\ (Bare(w.l) => u.a = w.a)
<1>. DEFINE x == StopCarrying(w)
            u == DetachHeldActor(x)
<1>1. /\ x \in Worlds /\ Sound(x, b) /\ Settled(x.l) /\ x.l.act = w.l.act
      /\ x.a = w.a /\ x.use = w.use /\ x.l.held = w.l.held
  BY StopSound
<1>2. LetGo(w) = u
  BY DEF LetGo
<1>. HIDE DEF x
<1>3. Grip(x, b) /\ Lively(x)
  BY <1>1 DEF Sound, Fit
<1>4. Fit(u, b) /\ Settled(u.l) /\ Lively(u)
  BY <1>1, <1>3, DetachSound
<1>5. Detached(x, u) /\ u \in Worlds
  BY <1>1, <1>3, DetachEffect, DetachTyped
<1>. HIDE DEF u
<1>6. /\ u.l.act = w.l.act /\ u.l.ia # "bomb" /\ u.use = w.use
      /\ Bare(w.l) => u.a = w.a
  BY <1>1, <1>5 DEF Detached, Bare, Loosed
<1>. QED  BY <1>2, <1>4, <1>5, <1>6 DEF Sound

LEMMA LostSound ==
  ASSUME NEW w \in Worlds, NEW b, NEW in \in Ins, Sound(w, b), Settled(w.l) \/ Bare(w.l)
  PROVE  LET u == LostIt(w, in)
         IN  /\ u \in Worlds /\ Sound(u, b) /\ Settled(u.l) /\ u.l.act = "free"
             /\ NoOffer(u.l) /\ u.use = w.use /\ (Bare(w.l) => u.a = w.a)
<1>. DEFINE x == LetGo(w)
            f == [x EXCEPT !.l.act = "free"]
<1>1. /\ x \in Worlds /\ Sound(x, b) /\ Settled(x.l) /\ x.l.ia # "bomb"
      /\ x.use = w.use /\ (Bare(w.l) => x.a = w.a)
  BY LetGoSound
<1>. HIDE DEF x
<1>2. "free" \in Actions
  BY DEF Actions
<1>3. LostIt(w, in) = f
  <2>1. LostIt(w, in) = SetupAction(x, "free", TRUE, in)
    BY DEF LostIt, x
  <2>. QED  BY <1>1, <1>2, <2>1, KeptAction
<1>4. f \in Worlds /\ Sound(f, b) /\ Settled(f.l) /\ f.l.act = "free" /\ f.l.ia = x.l.ia /\ f.a = x.a
  BY <1>1, <1>2, ActSound
<1>5. f.use = x.use
  BY <1>1 DEF Worlds
<1>. HIDE DEF f
<1>. QED  BY <1>1, <1>3, <1>4, <1>5 DEF NoOffer

\* Two worlds that hold the same things, whatever the upper body does.
SameGrasp(w, u) ==
  /\ u.a = w.a /\ u.fault = w.fault /\ u.l.act = w.l.act
  /\ u.l.held = w.l.held /\ u.l.child = w.l.child /\ u.l.range = w.l.range
  /\ u.l.parent = w.l.parent /\ u.l.carrying = w.l.carrying /\ u.l.ia = w.l.ia

LEMMA GraspSound ==
  ASSUME NEW w, NEW u, NEW b, Sound(w, b), SameGrasp(w, u),
         HookOut(w.l, w.a) => ~u.l.changing /\ ~ChangingOver(u.l),
         Drawn(u.l, b), Nocked(u.l, b)
  PROVE  /\ Sound(u, b)
         /\ Settled(w.l) => Settled(u.l)
         /\ NoOffer(w.l) => NoOffer(u.l)
<1>. USE DEF SameGrasp, Sound, Fit, Grip
<1>1. Pointers(u.l, u.a) /\ OneHook(u.l, u.a) /\ Mutual(u.l, u.a)
  BY DEF Pointers, OneHook, Mutual, HookIsOut, HoldsHookshot
<1>2. OutIsQuiet(u.l, u.a) /\ Holding(u.l) /\ Lively(u)
  BY DEF OutIsQuiet, HookOut, Holding, Lively
<1>. QED  BY <1>1, <1>2 DEF Settled, NoOffer

LEMMA BusySound ==
  ASSUME NEW w \in Worlds, NEW b, NEW x, Sound(w, b)
  PROVE  Sound(Busy(w, x), b) /\ Busy(w, x).l = w.l /\ Busy(w, x).a = w.a /\ Busy(w, x).busy = x
<1>1. Busy(w, x).l = w.l /\ Busy(w, x).a = w.a /\ Busy(w, x).fault = w.fault /\ Busy(w, x).busy = x
  BY DEF Busy, Worlds
<1>. QED  BY <1>1, SameHands

LEMMA BusyIs ==
  ASSUME NEW w \in Worlds, NEW b, Sound(w, b)
  PROVE  /\ Sound(Busy(w, TRUE), b) /\ Busy(w, TRUE).l = w.l /\ Busy(w, TRUE).busy = TRUE
         /\ Sound(Busy(w, FALSE), b) /\ Busy(w, FALSE).l = w.l
<1>1. \A z \in BOOLEAN : Sound(Busy(w, z), b) /\ Busy(w, z).l = w.l /\ Busy(w, z).busy = z
  BY BusySound
<1>. QED  BY <1>1

LEMMA UpperSet ==
  ASSUME NEW w \in Worlds, NEW up \in Uppers
  PROVE  LET u == [w EXCEPT !.l.upper = up]
         IN  /\ u \in Worlds /\ SameGrasp(w, u) /\ u.l.upper = up /\ u.l.id = w.l.id
             /\ u.l.changing = w.l.changing /\ u.l.draw = w.l.draw /\ u.use = w.use
<1>1. w.l \in Links
  BY DEF Worlds
<1>2. [w.l EXCEPT !.upper = up] \in Links
  BY <1>1 DEF Links
<1>. QED  BY <1>1, <1>2 DEF Worlds, Links, SameGrasp

-----------------------------------------------------------------------------
(* The buttons.                                                            *)

LEMMA ButtonsSound ==
  ASSUME NEW w \in Worlds, NEW in \in Ins, button \in Buttons, Sound(w, button), Settled(w.l),
         NoOffer(w.l), BombFits(w.a), ~w.use, ~w.l.changing
  PROVE  LET u == ProcessItemButtons(w, in)
         IN  /\ u \in Worlds /\ Sound(u, button) /\ Settled(u.l) /\ NoOffer(u.l) /\ Useful(u, button)
             /\ u.l.act = w.l.act /\ u.l.upper = w.l.upper
<1>. DEFINE u == ProcessItemButtons(w, in)
<1>0. w.l.carrying \in BOOLEAN /\ w.l.ia \in Items \cup {"none"} /\ ItemToAction(button) = button
  BY DEF Worlds, Links, Buttons, ItemToAction, Items
<1>1. CASE w.l.carrying \/ HookIsOut(w.l)
  <2>1. u = w
    BY <1>1 DEF ProcessItemButtons
  <2>. QED  BY <2>1 DEF Useful
<1>2. CASE ~(w.l.carrying \/ HookIsOut(w.l)) /\ w.l.ia # "none" /\ button # w.l.ia
  <2>1. u = UseNone(w, "none")
    BY <1>2 DEF ProcessItemButtons
  <2>2. Asks(w, "none", button)
    <3>1. ~HookOut(w.l, w.a)
      BY <1>2 DEF Sound, Fit, Grip, OneHook, HookOut, HookIsOut
    <3>2. Aiming(w.l) => w.l.id # "none"
      BY <1>2 DEF Sound, Fit, Grip, Drawn, ItemToAction
    <3>. QED  BY <1>2, <3>1, <3>2 DEF Asks
  <2>3. Uses(w, u, "none", button) /\ u \in Worlds
    BY <2>1, <2>2, UseNoneSound, UseNoneTyped
  <2>4. ~u.use
    BY <1>2, <2>3 DEF Uses, ItemToAction
  <2>. QED  BY <2>3, <2>4 DEF Uses, Useful
<1>3. CASE /\ ~(w.l.carrying \/ HookIsOut(w.l)) /\ ~(w.l.ia # "none" /\ button # w.l.ia)
           /\ in.item = "press" /\ button # "none"
  <2>1. u = UseItem(w, button, in.ammo)
    BY <1>3 DEF ProcessItemButtons
  <2>2. Asks(w, button, button)
    <3>1. ~HookOut(w.l, w.a)
      BY <1>3 DEF Sound, Fit, Grip, OneHook, HookOut, HookIsOut
    <3>2. Aiming(w.l) => ItemToAction(button) = w.l.ia
      BY <1>0, <1>3 DEF Sound, Fit, Grip, Drawn
    <3>. QED  BY <1>0, <1>3, <3>1, <3>2 DEF Asks
  <2>3. button \in Ids
    BY DEF Buttons, Ids
  <2>4. Uses(w, u, button, button) /\ u \in Worlds
    BY <2>1, <2>2, <2>3, UseItemSound, UseItemTyped
  <2>5. Useful(u, button)
    BY <1>0, <1>3, <2>4 DEF Uses, Useful, Sound, Fit, Grip, Holding, Items
  <2>. QED  BY <2>4, <2>5 DEF Uses
<1>4. CASE u = [w EXCEPT !.hold = TRUE] \/ u = w
  <2>1. u \in Worlds /\ u.l = w.l /\ u.a = w.a /\ u.fault = w.fault /\ u.use = w.use
    BY <1>4 DEF Worlds
  <2>2. Sound(u, button)
    BY <2>1, SameHands
  <2>. HIDE DEF u
  <2>. QED  BY <2>1, <2>2 DEF Useful, u
<1>. QED  BY <1>1, <1>2, <1>3, <1>4 DEF ProcessItemButtons

LEMMA ItemsSound ==
  ASSUME NEW w \in Worlds, NEW in \in Ins, button \in Buttons, Sound(w, button), Settled(w.l),
         NoOffer(w.l), BombFits(w.a), ~w.use
  PROVE  LET u == UpdateItems(w, in)
         IN  /\ u \in Worlds /\ Sound(u, button) /\ Settled(u.l) /\ NoOffer(u.l) /\ Useful(u, button)
             /\ ~u.l.changing /\ u.l.act = w.l.act
<1>. DEFINE x == IF w.l.changing THEN w ELSE ProcessItemButtons(w, in)
            u == StartChanging(x)
<1>1. /\ x \in Worlds /\ Sound(x, button) /\ Settled(x.l) /\ NoOffer(x.l) /\ Useful(x, button)
      /\ x.l.act = w.l.act
  BY ButtonsSound DEF Useful
<1>2. UpdateItems(w, in) = u
  BY DEF UpdateItems
<1>. HIDE DEF x
<1>3. CASE ~x.l.changing
  BY <1>1, <1>2, <1>3 DEF StartChanging
<1>4. CASE x.l.changing
  <2>1. u = [x EXCEPT !.l.upper = "change", !.l.changing = FALSE]
    BY <1>4 DEF StartChanging
  <2>. HIDE DEF u
  <2>2. x.l \in Links /\ [x.l EXCEPT !.upper = "change", !.changing = FALSE] \in Links
    <3>1. x.l \in Links
      BY <1>1 DEF Worlds
    <3>. QED  BY <3>1 DEF Links, Uppers
  <2>3. /\ u \in Worlds /\ SameGrasp(x, u) /\ u.l.upper = "change" /\ ~u.l.changing
        /\ u.l.id = x.l.id /\ u.l.draw = x.l.draw /\ u.use = x.use
    BY <1>1, <2>1, <2>2 DEF Worlds, Links, SameGrasp
  <2>4. ~HookOut(x.l, x.a)
    BY <1>1, <1>4 DEF Sound, Fit, Grip, OutIsQuiet
  <2>5. Drawn(u.l, button) /\ Nocked(u.l, button)
    BY <1>1, <1>4, <2>3 DEF Sound, Fit, Grip, Drawn, Nocked, Aiming, SameGrasp
  <2>6. Sound(u, button) /\ Settled(u.l) /\ NoOffer(u.l)
    BY <1>1, <2>3, <2>4, <2>5, GraspSound
  <2>. QED  BY <1>1, <1>2, <2>3, <2>6 DEF Useful, SameGrasp
<1>. QED  BY <1>3, <1>4

-----------------------------------------------------------------------------
(* The upper body.                                                         *)

UpperKeeps(w, u, b) ==
  Sound(u, b) /\ Settled(u.l) /\ (NoOffer(u.l) \/ ChangingOver(u.l)) /\ u.l.act = w.l.act

LEMMA NothingReceived ==
  ASSUME NEW w, NEW b, Sound(w, b)
  PROVE  Received(w) = w /\ ReceivedByHook(w) = w
  BY DEF Received, ReceivedByHook, Sound, Fit, Grip, Pointers

LEMMA BusyKeeps ==
  ASSUME NEW w, NEW u \in Worlds, NEW b, UpperKeeps(w, u, b)
  PROVE  UpperKeeps(w, Busy(u, TRUE), b) /\ UpperKeeps(w, Busy(u, FALSE), b)
<1>1. \A z \in BOOLEAN : UpperKeeps(w, Busy(u, z), b)
  BY BusySound DEF UpperKeeps
<1>. QED  BY <1>1

LEMMA ReadySound ==
  ASSUME NEW w \in Worlds, NEW b, NEW in \in Ins, Sound(w, b), Settled(w.l), NoOffer(w.l),
         w.l.upper = "ready",
         w.use => w.l.ia \in {"bow", "hookshot"} /\ (b = w.l.ia \/ ItemToAction(w.l.id) = w.l.ia)
  PROVE  UpperKeeps(w, UpperReady(w, in), b)
<1>. DEFINE x == Lowered(w)
            y == [x EXCEPT !.l.upper = "aim"]
<1>1. x \in Worlds
  BY LoweredTyped
<1>2. /\ SameGrasp(w, x) /\ x.l.upper = "ready" /\ x.l.id = w.l.id /\ x.l.changing = w.l.changing
      /\ x.l.draw <= 0 /\ (x.l.draw = 0 <=> w.l.draw = 0) /\ x.use = w.use
  BY DEF Lowered, Worlds, Links, SameGrasp
<1>. HIDE DEF x
<1>3. Sound(x, b) /\ Settled(x.l) /\ NoOffer(x.l)
  <2>1. Drawn(x.l, b) /\ Nocked(x.l, b)
    BY <1>2 DEF Sound, Fit, Grip, Drawn, Nocked, Aiming, SameGrasp
  <2>2. HookOut(w.l, w.a) => ~x.l.changing /\ ~ChangingOver(x.l)
    BY <1>2 DEF Sound, Fit, Grip, OutIsQuiet, ChangingOver
  <2>. QED  BY <1>2, <2>1, <2>2, GraspSound
<1>4. ReceivedByHook(x) = x
  BY <1>3, NothingReceived
<1>5. \A z : UpperKeeps(w, Busy(x, z), b)
  BY <1>1, <1>2, <1>3, BusySound DEF UpperKeeps, SameGrasp
<1>6. w.use => \A z : UpperKeeps(w, Busy(Raise(x, in), z), b)
  <2>. SUFFICES ASSUME w.use
                PROVE  \A z : UpperKeeps(w, Busy(Raise(x, in), z), b)
    OBVIOUS
  <2>1. Raise(x, in) = y
    <3>1. ~(x.l.draw >= 0 /\ ~HoldsHookshot(x.l))
      <4>1. w.l.ia = "bow" \/ w.l.ia = "hookshot"
        OBVIOUS
      <4>2. w.l.ia = "bow" => w.l.draw # 0
        BY DEF Sound, Fit, Grip, Drawn
      <4>3. x.l.draw \in {-1, 0, 1}
        BY <1>1 DEF Worlds, Links
      <4>. QED  BY <1>2, <4>1, <4>2, <4>3 DEF HoldsHookshot, SameGrasp
    <3>. QED  BY <3>1 DEF Raise
  <2>2. "aim" \in Uppers
    BY DEF Uppers
  <2>3. /\ y \in Worlds /\ SameGrasp(x, y) /\ y.l.upper = "aim" /\ y.l.id = x.l.id
        /\ y.l.changing = x.l.changing /\ y.l.draw = x.l.draw
    BY <1>1, <2>2, UpperSet
  <2>. HIDE DEF y
  <2>4. Drawn(y.l, b)
    BY <1>2, <1>3, <2>3 DEF Sound, Fit, Grip, Drawn, SameGrasp
  <2>5. Nocked(y.l, b)
    BY <1>2, <1>3, <2>3 DEF Sound, Fit, Grip, Nocked, SameGrasp
  <2>6. HookOut(x.l, x.a) => ~y.l.changing /\ ~ChangingOver(y.l)
    BY <1>3, <2>3 DEF Sound, Fit, Grip, OutIsQuiet, ChangingOver
  <2>7. Sound(y, b) /\ Settled(y.l) /\ NoOffer(y.l)
    BY <1>3, <2>3, <2>4, <2>5, <2>6, GraspSound
  <2>. QED  BY <1>2, <2>1, <2>3, <2>7, BusySound DEF UpperKeeps, SameGrasp
<1>7. UpperReady(w, in) \in {Busy(x, TRUE), Busy(x, FALSE)}
      \/ (w.use /\ UpperReady(w, in) = Busy(Raise(x, in), in.target))
  BY <1>4 DEF UpperReady, x
<1>. QED  BY <1>5, <1>6, <1>7

LEMMA CarrySound ==
  ASSUME NEW w \in Worlds, NEW b, NEW in \in Ins, Sound(w, b), Settled(w.l), NoOffer(w.l)
  PROVE  UpperKeeps(w, UpperCarry(w, in), b)
<1>1. CASE w.l.held = NULL
  <2>. DEFINE r == ResetUpper(w, in)
  <2>1. /\ r \in Worlds /\ Sound(r, b) /\ Settled(r.l) /\ ~r.l.carrying /\ r.l.ia # "bomb"
        /\ r.l.act = w.l.act
    BY ResetSound, ResetTyped
  <2>2. UpperCarry(w, in) = Carried(r, w.l.held)
    BY <1>1 DEF UpperCarry
  <2>. HIDE DEF r
  <2>3. UpperCarry(w, in) = Busy(r, r.l.carrying)
    BY <2>1, <2>2 DEF Carried
  <2>. QED  BY <2>1, <2>3, BusySound DEF UpperKeeps, NoOffer
<1>2. CASE w.l.held # NULL
  <2>1. Through(w, w.l.held) = w
    BY <1>2, HeldIsReal DEF Sound, Fit
  <2>2. UpperCarry(w, in) = Busy(w, w.l.carrying)
    BY <1>2, <2>1 DEF UpperCarry, Carried
  <2>. QED  BY <2>2, BusySound DEF UpperKeeps
<1>. QED  BY <1>1, <1>2

LEMMA OfItemSound ==
  ASSUME NEW w \in Worlds, NEW b, NEW in \in Ins, Sound(w, b), Settled(w.l), NoOffer(w.l),
         w.use /\ w.l.upper = "ready" =>
           w.l.ia \in {"bow", "hookshot"} /\ (b = w.l.ia \/ ItemToAction(w.l.id) = w.l.ia)
  PROVE  UpperKeeps(w, UpperOfItem(w, in), b)
<1>1. UpperKeeps(w, Busy(w, FALSE), b)
  BY BusyKeeps DEF UpperKeeps
<1>2. CASE w.l.upper = "ready"
  BY <1>2, ReadySound DEF UpperOfItem
<1>3. CASE w.l.upper = "carry"
  BY <1>3, CarrySound DEF UpperOfItem
<1>4. CASE w.l.upper \notin {"ready", "carry"}
  BY <1>1, <1>4 DEF UpperOfItem
<1>. QED  BY <1>2, <1>3, <1>4

LEMMA ChangeSound ==
  ASSUME NEW w \in Worlds, NEW b, NEW in \in Ins, Sound(w, b), Settled(w.l), NoOffer(w.l),
         Useful(w, b), ChangingOver(w.l)
  PROVE  UpperKeeps(w, UpperChange(w, in), b)
<1>. DEFINE done == ItemToAction(w.l.id) = w.l.ia
            over == w.l.upper = "changed" /\ in.upper = "end"
            use  == w.use \/ (~over /\ done)
<1>1. CASE over \/ done
  <2>. DEFINE x == [w EXCEPT !.l.upper = ItemUpper(w.l.ia), !.use = use, !.hold = use]
  <2>1. UpperChange(w, in) = UpperOfItem(x, in)
    BY <1>1 DEF UpperChange
  <2>2. ItemUpper(w.l.ia) \in {"idle", "carry", "ready"} /\ w.l \in Links /\ use \in BOOLEAN
    BY UpperOf DEF Worlds, Links
  <2>3. [w.l EXCEPT !.upper = ItemUpper(w.l.ia)] \in Links
    BY <2>2 DEF Links, Uppers
  <2>. HIDE DEF use
  <2>4. /\ x \in Worlds /\ x.a = w.a /\ x.fault = w.fault /\ x.use = use
        /\ x.l = [w.l EXCEPT !.upper = ItemUpper(w.l.ia)]
    BY <2>2, <2>3 DEF Worlds
  <2>. HIDE DEF x
  <2>5. /\ SameGrasp(w, x) /\ x.l.upper = ItemUpper(w.l.ia) /\ x.l.id = w.l.id
        /\ x.l.changing = w.l.changing /\ x.l.draw = w.l.draw
    BY <2>2, <2>4 DEF Links, SameGrasp
  <2>6. ~HookOut(w.l, w.a)
    BY DEF Sound, Fit, Grip, OutIsQuiet
  <2>7. Drawn(x.l, b)
    BY <2>2, <2>5 DEF Sound, Fit, Grip, Drawn, Aiming, SameGrasp
  <2>8. Nocked(x.l, b)
    BY <2>5 DEF Sound, Fit, Grip, Nocked, SameGrasp, ChangingOver, ItemUpper
  <2>9. Sound(x, b) /\ Settled(x.l) /\ NoOffer(x.l)
    BY <2>5, <2>6, <2>7, <2>8, GraspSound
  <2>10. x.use /\ x.l.upper = "ready" =>
           x.l.ia \in {"bow", "hookshot"} /\ (b = x.l.ia \/ ItemToAction(x.l.id) = x.l.ia)
    <3>1. x.l.ia = w.l.ia /\ x.l.id = w.l.id /\ x.l.upper = ItemUpper(w.l.ia) /\ x.use = use
          /\ w.l.ia \in Items \cup {"none"}
      BY <2>2, <2>4, <2>5 DEF SameGrasp, Links
    <3>2. x.l.upper = "ready" => w.l.ia \in {"bow", "hookshot"}
      BY <3>1 DEF ItemUpper, Items
    <3>3. use => b = w.l.ia \/ ItemToAction(w.l.id) = w.l.ia
      BY DEF use, Useful
    <3>. QED  BY <3>1, <3>2, <3>3
  <2>11. UpperKeeps(x, UpperOfItem(x, in), b)
    BY <2>4, <2>9, <2>10, OfItemSound
  <2>. QED  BY <2>1, <2>5, <2>11 DEF UpperKeeps, SameGrasp
<1>2. CASE ~(over \/ done) /\ w.l.upper = "change" /\ in.upper = "frame"
  <2>. DEFINE f == FinishItemChange(w, in)
              u == [f EXCEPT !.l.upper = "changed"]
  <2>1. UpperChange(w, in) = Busy(u, TRUE)
    BY <1>2 DEF UpperChange
  <2>2. /\ f \in Worlds /\ Sound(f, b) /\ Settled(f.l) /\ f.l.act = w.l.act
        /\ f.l.upper = "change"
    BY <1>2, FinishSound DEF Uses
  <2>. HIDE DEF f
  <2>3. "changed" \in Uppers
    BY DEF Uppers
  <2>4. /\ u \in Worlds /\ SameGrasp(f, u) /\ u.l.upper = "changed" /\ u.l.id = f.l.id
        /\ u.l.changing = f.l.changing /\ u.l.draw = f.l.draw
    BY <2>2, <2>3, UpperSet
  <2>. HIDE DEF u
  <2>5. ~HookOut(f.l, f.a)
    BY <2>2 DEF Sound, Fit, Grip, OutIsQuiet, ChangingOver
  <2>6. Drawn(u.l, b) /\ Nocked(u.l, b)
    BY <2>2, <2>4 DEF Sound, Fit, Grip, Drawn, Nocked, Aiming, SameGrasp
  <2>7. Sound(u, b) /\ Settled(u.l)
    BY <2>2, <2>4, <2>5, <2>6, GraspSound
  <2>8. UpperKeeps(w, u, b)
    BY <2>2, <2>4, <2>7 DEF UpperKeeps, SameGrasp, ChangingOver
  <2>. QED  BY <2>1, <2>4, <2>8, BusyKeeps
<1>3. CASE ~(over \/ done) /\ ~(w.l.upper = "change" /\ in.upper = "frame")
  <2>1. UpperChange(w, in) = Busy(w, TRUE)
    BY <1>3 DEF UpperChange
  <2>. QED  BY <2>1, BusyKeeps DEF UpperKeeps
<1>. QED  BY <1>1, <1>2, <1>3

LEMMA FireSound ==
  ASSUME NEW w \in Worlds, NEW b, Sound(w, b), Settled(w.l), NoOffer(w.l), w.l.upper = "aim",
         ~w.l.changing
  PROVE  UpperKeeps(w, Fire([w EXCEPT !.l.upper = "shot"]), b)
<1>. DEFINE x == [w EXCEPT !.l.upper = "shot"]
            h == x.l.held
<1>1. /\ x \in Worlds /\ SameGrasp(w, x) /\ x.l.upper = "shot" /\ x.l.id = w.l.id
      /\ x.l.changing = w.l.changing /\ x.l.draw = w.l.draw
  BY UpperSet DEF Uppers
<1>2. w.l.ia \in {"bow", "hookshot"} /\ ~w.l.carrying
  BY DEF Sound, Fit, Grip, Drawn, Aiming, Settled
<1>. HIDE DEF x
<1>3. Drawn(x.l, b)
  BY <1>1 DEF Sound, Fit, Grip, Drawn, Aiming, SameGrasp
<1>4. CASE h = NULL
  <2>1. Nocked(x.l, b)
    BY <1>4 DEF Nocked
  <2>2. Sound(x, b) /\ Settled(x.l) /\ NoOffer(x.l)
    BY <1>1, <1>3, <2>1, GraspSound DEF ChangingOver
  <2>3. Fire(x) = x
    BY <1>4 DEF Fire
  <2>. QED  BY <1>1, <2>2, <2>3 DEF UpperKeeps, SameGrasp, x
<1>5. CASE h # NULL
  <2>. DEFINE o == Orphan(x, h)
              u == [o EXCEPT !.l.shot = TRUE, !.l.child = NULL, !.l.held = NULL]
  <2>1. Fire(x) = u
    BY <1>5 DEF Fire
  <2>2. w.l.held = h /\ x.a = w.a /\ x.fault = w.fault
    BY <1>1 DEF SameGrasp
  <2>3. h \in Slot /\ h \in Pointer /\ w.a[h] # NoActor /\ ~w.fault /\ w.fault \in BOOLEAN
    BY <1>5, <2>2, HeldIsReal DEF Sound, Fit, Grip, Worlds
  <2>. HIDE DEF h
  <2>4. ~Through(x, h).fault
    BY <1>1, <2>2, <2>3 DEF Through, Worlds
  <2>5. o = [x EXCEPT !.a[h].parent = FALSE]
    BY <2>4 DEF Orphan
  <2>6. o.l = x.l /\ o.a = [w.a EXCEPT ![h].parent = FALSE] /\ o.fault = w.fault
    BY <1>1, <2>2, <2>5 DEF Worlds
  <2>7. o \in Worlds
    BY <1>1, <2>3, ThroughTyped
  <2>. HIDE DEF o
  <2>8. /\ u.a = o.a /\ u.fault = o.fault /\ o.l \in Links /\ o.a \in [Slot -> Actor]
        /\ u.l = [o.l EXCEPT !.shot = TRUE, !.child = NULL, !.held = NULL]
    BY <2>7 DEF Worlds, Links
  <2>. HIDE DEF u
  <2>9. /\ u.l.held = NULL /\ u.l.child = NULL /\ u.l.range = w.l.range /\ u.l.parent = w.l.parent
        /\ u.l.carrying = w.l.carrying /\ u.l.ia = w.l.ia /\ u.l.id = w.l.id
        /\ u.l.draw = w.l.draw /\ u.l.act = w.l.act /\ ~u.l.changing /\ u.l.upper = "shot"
    BY <1>1, <2>6, <2>8 DEF Links, SameGrasp
  <2>10. /\ \A s \in Slot : s # h => u.a[s] = w.a[s]
         /\ \A s \in Slot : u.a[s].kind = w.a[s].kind /\ u.a[s].phase = w.a[s].phase
         /\ ~u.a[h].parent
    <3>1. w.a \in [Slot -> Actor]
      BY DEF Worlds
    <3>2. u.a = [w.a EXCEPT ![h].parent = FALSE]
      BY <2>6, <2>8
    <3>. QED  BY <2>3, <3>1, <3>2 DEF Actor
  <2>11. w.l.parent = NULL
    BY <1>5, <2>2 DEF Sound, Fit, Grip, Pointers, HookIsOut
  <2>12. u.l.range # NULL => u.l.range \in Slot
    BY <2>9, Pointing DEF Worlds, Links
  <2>13. Pointers(u.l, u.a) /\ Lively(u)
    BY <2>9, <2>10, <2>11, <2>12 DEF Sound, Fit, Grip, Pointers, Lively
  <2>14. OneHook(u.l, u.a)
    BY <2>9, <2>10 DEF Sound, Fit, Grip, OneHook, LiveHook, HoldsHookshot
  <2>15. Mutual(u.l, u.a)
    BY <1>5, <2>2, <2>3, <2>10 DEF Sound, Fit, Grip, Mutual, Believes, HookIsOut
  <2>16. OutIsQuiet(u.l, u.a) /\ Holding(u.l) /\ Drawn(u.l, b) /\ Nocked(u.l, b) /\ Settled(u.l)
    BY <1>1, <1>2, <1>3, <2>9 DEF OutIsQuiet, HookOut, Holding, Drawn, Nocked, Settled, Aiming,
       ChangingOver, SameGrasp
  <2>17. Sound(u, b) /\ NoOffer(u.l)
    BY <1>2, <2>3, <2>6, <2>8, <2>9, <2>13, <2>14, <2>15, <2>16 DEF Sound, Fit, Grip, NoOffer
  <2>. QED  BY <2>1, <2>9, <2>16, <2>17 DEF UpperKeeps, x
<1>. QED  BY <1>4, <1>5

LEMMA AimSound ==
  ASSUME NEW w \in Worlds, NEW b, NEW in \in Ins, Sound(w, b), Settled(w.l), NoOffer(w.l),
         w.l.upper = "aim", ~w.l.changing
  PROVE  UpperKeeps(w, UpperAim(w, in), b)
<1>. DEFINE x == [w EXCEPT !.l.upper = "shot"]
            idle == ~(in.upper = "end" /\ (w.l.draw < 0 \/ ~w.hold))
            fires == w.l.draw >= 0 /\ (HoldsHookshot(w.l) => in.ground)
<1>1. /\ x \in Worlds /\ SameGrasp(w, x) /\ x.l.upper = "shot" /\ x.l.id = w.l.id
      /\ x.l.changing = w.l.changing /\ x.l.draw = w.l.draw
  BY UpperSet DEF Uppers
<1>2. UpperKeeps(w, Fire(x), b) /\ Fire(x) \in Worlds
  BY <1>1, FireSound, FireTyped
<1>3. UpperKeeps(w, w, b)
  BY DEF UpperKeeps
<1>4. UpperAim(w, in) = Busy(IF idle THEN w ELSE IF fires THEN Fire(x) ELSE x, TRUE)
  BY DEF UpperAim
<1>. HIDE DEF x
<1>5. ~fires => UpperKeeps(w, x, b)
  <2>. SUFFICES ASSUME ~fires
                PROVE  UpperKeeps(w, x, b)
    OBVIOUS
  <2>1. Drawn(x.l, b)
    BY <1>1 DEF Sound, Fit, Grip, Drawn, Aiming, SameGrasp
  <2>2. Nocked(x.l, b)
    <3>1. ~(w.l.ia = "bow" /\ w.l.held # NULL)
      BY DEF Sound, Fit, Nocked, HoldsHookshot
    <3>. QED  BY <1>1, <3>1 DEF Nocked, SameGrasp
  <2>3. Sound(x, b) /\ Settled(x.l) /\ NoOffer(x.l)
    BY <1>1, <2>1, <2>2, GraspSound DEF ChangingOver
  <2>. QED  BY <1>1, <2>3 DEF UpperKeeps, SameGrasp
<1>6. CASE idle
  BY <1>3, <1>4, <1>6, BusyKeeps
<1>7. CASE ~idle /\ fires
  BY <1>2, <1>4, <1>7, BusyKeeps
<1>8. CASE ~idle /\ ~fires
  BY <1>1, <1>4, <1>5, <1>8, BusyKeeps
<1>. QED  BY <1>6, <1>7, <1>8

\* Drawing the bow again: a new arrow for an empty hand.
LEMMA RaiseSound ==
  ASSUME NEW w \in Worlds, NEW b, NEW in \in Ins, Sound(w, b), Settled(w.l), NoOffer(w.l),
         w.l.upper = "shot", ~w.l.changing
  PROVE  LET u == Raise([w EXCEPT !.l.draw = Abs(@)], in)
         IN  u \in Worlds /\ UpperKeeps(w, u, b)
<1>. DEFINE x == [w EXCEPT !.l.draw = Abs(@)]
            y == [x EXCEPT !.l.upper = "aim"]
            c == SpawnAsChild(x, "arrow")
            s == SpawnSlot(x.a)
            u == [c EXCEPT !.l.held = s, !.l.upper = "aim"]
<1>1. w.l.ia \in {"bow", "hookshot"} /\ ~w.l.carrying
  BY DEF Sound, Fit, Grip, Drawn, Aiming, Settled
<1>2. /\ x \in Worlds /\ SameGrasp(w, x) /\ x.l.upper = "shot" /\ x.l.id = w.l.id
      /\ x.l.changing = w.l.changing /\ x.l.draw = Abs(w.l.draw)
  <2>1. w.l \in Links /\ Abs(w.l.draw) \in {-1, 0, 1}
    BY DEF Worlds, Links, Abs
  <2>2. [w.l EXCEPT !.draw = Abs(w.l.draw)] \in Links
    BY <2>1 DEF Links
  <2>. QED  BY <2>1, <2>2 DEF Worlds, Links, SameGrasp
<1>3. Raise(x, in) = IF x.l.draw >= 0 /\ ~HoldsHookshot(x.l) /\ in.ammo THEN u ELSE y
  BY DEF Raise
<1>4. Raise(x, in) \in Worlds
  BY <1>2, RaiseTyped
<1>. HIDE DEF x
<1>5. ~(w.l.ia = "bow" /\ w.l.held # NULL)
  BY DEF Sound, Fit, Nocked
<1>6. w.l.ia = "bow" => x.l.draw = 1
  <2>1. w.l.ia = "bow" => w.l.draw # 0
    BY DEF Sound, Fit, Grip, Drawn
  <2>. QED  BY <1>2, <2>1 DEF Abs, Worlds, Links
<1>7. "aim" \in Uppers
  BY DEF Uppers
<1>8. /\ y \in Worlds /\ SameGrasp(x, y) /\ y.l.upper = "aim" /\ y.l.id = x.l.id
      /\ y.l.changing = x.l.changing /\ y.l.draw = x.l.draw
  BY <1>2, <1>7, UpperSet
<1>. HIDE DEF y
<1>9. Drawn(y.l, b) /\ Nocked(y.l, b) /\ SameGrasp(w, y)
  BY <1>2, <1>5, <1>6, <1>8 DEF Sound, Fit, Grip, Drawn, Nocked, Aiming, SameGrasp
<1>10. UpperKeeps(w, y, b)
  <2>1. ~y.l.changing /\ ~ChangingOver(y.l)
    BY <1>2, <1>8 DEF ChangingOver
  <2>2. Sound(y, b) /\ Settled(y.l) /\ NoOffer(y.l)
    BY <1>9, <2>1, GraspSound
  <2>. QED  BY <1>9, <2>2 DEF UpperKeeps, SameGrasp
<1>11. ~HoldsHookshot(x.l) => UpperKeeps(w, u, b)
  <2>. SUFFICES ASSUME ~HoldsHookshot(x.l)
                PROVE  UpperKeeps(w, u, b)
    OBVIOUS
  <2>1. x.l.ia = "bow" /\ x.l.held = NULL /\ ~x.l.carrying /\ x.l.draw = 1 /\ ~x.l.changing
    BY <1>1, <1>2, <1>5, <1>6 DEF HoldsHookshot, SameGrasp
  <2>2. Empty(x) /\ Lively(x)
    BY <1>2, <2>1, Pointing DEF Empty, Lively, SameGrasp, Sound, Fit, Grip, Pointers, OneHook, Mutual,
       HookIsOut, HoldsHookshot
  <2>3. /\ s \in Pointer /\ c \in Worlds
    BY <1>2, SpawnTyped
  <2>4. CASE s = NULL
    <3>1. c = x
      BY <1>2, <2>4, SpawnEffect
    <3>2. u = y
      <4>1. x.l \in Links /\ [x.l EXCEPT !.held = NULL, !.upper = "aim"] = [x.l EXCEPT !.upper = "aim"]
        BY <1>2, <2>1 DEF Worlds, Links
      <4>2. u = [x EXCEPT !.l.held = NULL, !.l.upper = "aim"]
        BY <2>4, <3>1
      <4>. QED  BY <1>2, <4>1, <4>2 DEF y, Worlds
    <3>. QED  BY <1>10, <3>2
  <2>5. CASE s # NULL
    <3>1. /\ s \in Slot /\ x.a[s] = NoActor /\ c.a[s] = Fresh("arrow")
          /\ \A t \in Slot : t # s => c.a[t] = x.a[t]
          /\ c.l = [x.l EXCEPT !.child = s] /\ c.fault = x.fault
      BY <1>2, <2>5, SpawnEffect
    <3>. HIDE DEF c, s
    <3>2. c.l \in Links /\ x.l \in Links /\ [c.l EXCEPT !.held = s, !.upper = "aim"] \in Links
      BY <1>2, <2>3 DEF Worlds, Links, Uppers
    <3>3. /\ u \in Worlds /\ u.a = c.a /\ u.fault = c.fault
          /\ u.l = [c.l EXCEPT !.held = s, !.upper = "aim"]
      BY <2>3, <3>2 DEF Worlds
    <3>. HIDE DEF u
    <3>4. /\ u.l.held = s /\ u.l.child = s /\ u.l.range = x.l.range /\ u.l.parent = x.l.parent
          /\ u.l.carrying = x.l.carrying /\ u.l.ia = x.l.ia /\ u.l.id = x.l.id
          /\ u.l.draw = x.l.draw /\ u.l.act = x.l.act /\ u.l.changing = x.l.changing
          /\ u.l.upper = "aim"
      BY <3>1, <3>2, <3>3 DEF Links
    <3>5. Spawned(x, u, s)
      BY <2>2, <3>1, <3>3, <3>4 DEF Spawned, Empty
    <3>6. Holding(u.l) /\ Nocked(u.l, b) /\ Settled(u.l) /\ NoOffer(u.l)
      BY <2>1, <3>4 DEF Holding, Nocked, Settled, NoOffer
    <3>7. Drawn(u.l, b)
      BY <1>2, <2>1, <3>4 DEF Sound, Fit, Grip, Drawn, Aiming, SameGrasp
    <3>8. u.a[s].kind = "arrow" /\ u.a[s].phase # "dead" /\ ~HoldsHookshot(u.l)
      BY <2>1, <3>1, <3>3, <3>4, FreshIs DEF HoldsHookshot
    <3>9. Sound(u, b)
      BY <1>2, <2>2, <3>1, <3>3, <3>4, <3>5, <3>6, <3>7, <3>8, HandedSound
    <3>. QED  BY <1>2, <3>4, <3>6, <3>9 DEF UpperKeeps, SameGrasp
  <2>. QED  BY <2>4, <2>5
<1>. QED  BY <1>3, <1>4, <1>10, <1>11 DEF x

LEMMA ShotSound ==
  ASSUME NEW w \in Worlds, NEW b, NEW in \in Ins, Sound(w, b), Settled(w.l), NoOffer(w.l),
         w.l.upper = "shot", ~w.l.changing
  PROVE  UpperKeeps(w, UpperShot(w, in), b)
<1>. DEFINE u == IF HoldsHookshot(w.l) THEN "ready" ELSE "lower"
            x == [w EXCEPT !.l.upper = u]
            r == Raise([w EXCEPT !.l.draw = Abs(@)], in)
<1>1. UpperKeeps(w, w, b)
  BY DEF UpperKeeps
<1>2. r \in Worlds /\ UpperKeeps(w, r, b)
  BY RaiseSound
<1>3. x \in Worlds /\ UpperKeeps(w, x, b)
  <2>1. u \in Uppers
    BY DEF Uppers
  <2>. HIDE DEF u
  <2>2. /\ x \in Worlds /\ SameGrasp(w, x) /\ x.l.upper = u /\ x.l.id = w.l.id
        /\ x.l.changing = w.l.changing /\ x.l.draw = w.l.draw
    BY <2>1, UpperSet
  <2>. HIDE DEF x
  <2>3. ~ChangingOver(x.l)
    BY <2>2 DEF u, ChangingOver
  <2>4. Drawn(x.l, b)
    BY <2>2 DEF Sound, Fit, Grip, Drawn, Aiming, SameGrasp
  <2>5. Nocked(x.l, b)
    BY <2>2 DEF Sound, Fit, Nocked, SameGrasp
  <2>6. Sound(x, b) /\ Settled(x.l) /\ NoOffer(x.l)
    BY <2>2, <2>3, <2>4, <2>5, GraspSound
  <2>. QED  BY <2>2, <2>6 DEF UpperKeeps, SameGrasp
<1>4. ReceivedByHook(w) = w
  BY NothingReceived
<1>. HIDE DEF r, x
<1>5. UpperShot(w, in) \in {Busy(w, TRUE), Busy(r, TRUE), Busy(x, TRUE)}
  BY <1>4 DEF UpperShot, AfterShot, r, x
<1>. QED  BY <1>1, <1>2, <1>3, <1>5, BusyKeeps

LEMMA LowerSound ==
  ASSUME NEW w \in Worlds, NEW b, NEW in \in Ins, Sound(w, b), Settled(w.l), NoOffer(w.l),
         w.l.upper = "lower", ~w.l.changing
  PROVE  UpperKeeps(w, UpperLower(w, in), b)
<1>. DEFINE x == [w EXCEPT !.l.upper = "ready"]
<1>1. /\ x \in Worlds /\ SameGrasp(w, x) /\ x.l.upper = "ready" /\ x.l.id = w.l.id
      /\ x.l.changing = w.l.changing /\ x.l.draw = w.l.draw
  BY UpperSet DEF Uppers
<1>2. UpperLower(w, in) \in {Busy(w, TRUE), Busy(x, TRUE)}
  BY DEF UpperLower
<1>. HIDE DEF x
<1>3. Drawn(x.l, b) /\ Nocked(x.l, b)
  BY <1>1 DEF Sound, Fit, Grip, Drawn, Nocked, Aiming, SameGrasp
<1>4. Sound(x, b) /\ Settled(x.l) /\ NoOffer(x.l)
  BY <1>1, <1>3, GraspSound DEF ChangingOver
<1>5. UpperKeeps(w, x, b) /\ UpperKeeps(w, w, b)
  BY <1>1, <1>4 DEF UpperKeeps, SameGrasp
<1>. QED  BY <1>1, <1>2, <1>5, BusyKeeps

LEMMA UpperSound ==
  ASSUME NEW w \in Worlds, NEW b, NEW in \in Ins, Sound(w, b), Settled(w.l), NoOffer(w.l),
         Useful(w, b), w.l.changing => ChangingOver(w.l)
  PROVE  UpperKeeps(w, UpperAction(w, in), b)
<1>1. CASE ChangingOver(w.l)
  BY <1>1, ChangeSound DEF UpperAction, ChangingOver
<1>2. CASE w.l.upper = "aim"
  BY <1>2, AimSound DEF UpperAction, ChangingOver
<1>3. CASE w.l.upper = "shot"
  BY <1>3, ShotSound DEF UpperAction, ChangingOver
<1>4. CASE w.l.upper = "lower"
  BY <1>4, LowerSound DEF UpperAction, ChangingOver
<1>5. CASE ~ChangingOver(w.l) /\ w.l.upper \notin {"aim", "shot", "lower"}
  BY <1>5, OfItemSound DEF UpperAction, Useful
<1>. QED  BY <1>1, <1>2, <1>3, <1>4, <1>5

LEMMA BodySound ==
  ASSUME NEW w \in Worlds, NEW in \in Ins, button \in Buttons, Sound(w, button), Settled(w.l),
         NoOffer(w.l), BombFits(w.a), ~w.use, w.l.act \in {"free", "air"}
  PROVE  LET u == UpdateUpperBody(w, in)
         IN  /\ u \in Worlds /\ Sound(u, button) /\ Settled(u.l)
             /\ NoOffer(u.l) \/ ChangingOver(u.l)
             /\ u.l.act \in {w.l.act, "fly"}
<1>. DEFINE u == UpdateUpperBody(w, in)
            x == IF CanUpdateItems(w.l) THEN UpdateItems(w, in) ELSE w
<1>1. u \in Worlds
  BY UpdateUpperTyped
<1>2. CASE w.l.parent # NULL /\ HoldsHookshot(w.l)
  <2>. DEFINE f == [w EXCEPT !.l.act = "fly"]
  <2>1. "fly" \in Actions
    BY DEF Actions
  <2>2. SetupAction(w, "fly", TRUE, in) = f
    BY <2>1, KeptAction
  <2>3. /\ f \in Worlds /\ Sound(f, button) /\ Settled(f.l) /\ NoOffer(f.l) /\ f.l.act = "fly"
    BY <2>1, ActSound
  <2>4. u = Busy(f, TRUE)
    BY <1>2, <2>2 DEF UpdateUpperBody
  <2>. HIDE DEF f
  <2>5. UpperKeeps(f, f, button)
    BY <2>3 DEF UpperKeeps
  <2>6. UpperKeeps(f, Busy(f, TRUE), button)
    BY <2>3, <2>5, BusyKeeps
  <2>. QED  BY <1>1, <2>3, <2>4, <2>6 DEF UpperKeeps
<1>3. CASE ~(w.l.parent # NULL /\ HoldsHookshot(w.l))
  <2>1. u = UpperAction(x, in)
    BY <1>3 DEF UpdateUpperBody
  <2>2. /\ x \in Worlds /\ Sound(x, button) /\ Settled(x.l) /\ NoOffer(x.l) /\ Useful(x, button)
        /\ x.l.changing => ChangingOver(x.l)
        /\ x.l.act = w.l.act
    <3>1. CASE CanUpdateItems(w.l)
      BY <3>1, ItemsSound
    <3>2. CASE ~CanUpdateItems(w.l)
      <4>1. ChangingOver(w.l)
        BY <3>2 DEF CanUpdateItems
      <4>. QED  BY <3>2, <4>1 DEF Useful
    <3>. QED  BY <3>1, <3>2
  <2>. HIDE DEF x
  <2>3. UpperKeeps(x, u, button)
    BY <2>1, <2>2, UpperSound
  <2>. QED  BY <1>1, <2>2, <2>3 DEF UpperKeeps
<1>. QED  BY <1>2, <1>3

\* A flag that a fall or a hit left over: the hookshot in hand is put away all
\* the same, and empty hands stay so.
LEMMA LeftBodySound ==
  ASSUME NEW w \in Worlds, NEW b, NEW in \in Ins, Sound(w, b), Leftover(w.l)
  PROVE  LET u == UpdateUpperBody(w, in)
         IN  /\ u \in Worlds /\ Sound(u, b) /\ Leftover(u.l) /\ u.l.act = w.l.act
<1>. DEFINE u == UpdateUpperBody(w, in)
<1>0. /\ w.l.carrying /\ w.l.act \in {"free", "air", "hurt"} /\ w.l \in Links /\ w.a \in [Slot -> Actor]
  BY DEF Leftover, Worlds
<1>1. CASE w.l.held # NULL
  <2>. DEFINE x == [w EXCEPT !.l.upper = "change", !.l.changing = FALSE]
              y == IF w.l.changing THEN x ELSE w
              h == w.l.held
  <2>1. /\ w.l.ia = "hookshot" /\ w.l.id = "none" /\ w.l.parent = NULL
        /\ (w.l.changing /\ w.l.upper = "ready") \/ (~w.l.changing /\ w.l.upper = "change")
    BY <1>1 DEF Leftover, Sound, Fit, Grip, Pointers, HookIsOut
  <2>2. u = UpperAction(y, in)
    <3>1. CanUpdateItems(w.l) <=> w.l.changing
      BY <1>0, <2>1 DEF CanUpdateItems, ChangingOver, ItemToAction
    <3>2. w.l.changing => UpdateItems(w, in) = x
      BY DEF UpdateItems, StartChanging
    <3>. QED  BY <2>1, <3>1, <3>2 DEF UpdateUpperBody
  <2>3. /\ x \in Worlds /\ SameGrasp(w, x) /\ x.l.upper = "change" /\ ~x.l.changing /\ x.l.id = w.l.id
    <3>1. [w.l EXCEPT !.upper = "change", !.changing = FALSE] \in Links
      BY <1>0 DEF Links, Uppers
    <3>. QED  BY <1>0, <3>1 DEF Worlds, Links, SameGrasp
  <2>. HIDE DEF x
  <2>4. /\ y \in Worlds /\ Sound(y, b) /\ y.l.carrying /\ y.l.act = w.l.act /\ y.l.held = h
        /\ y.l.upper = "change" /\ ~y.l.changing /\ y.l.id = "none" /\ y.l.ia = "hookshot"
        /\ y.l.parent = NULL
    <3>1. CASE w.l.changing
      <4>1. Drawn(x.l, b) /\ Nocked(x.l, b)
        BY <2>1, <2>3 DEF Drawn, Nocked, Aiming, SameGrasp
      <4>2. ~HookOut(w.l, w.a)
        BY <1>1 DEF HookOut
      <4>3. Sound(x, b)
        BY <2>3, <4>1, <4>2, GraspSound
      <4>. QED  BY <1>0, <2>1, <2>3, <3>1, <4>3 DEF SameGrasp
    <3>2. CASE ~w.l.changing
      BY <1>0, <2>1, <3>2
    <3>. QED  BY <3>1, <3>2
  <2>. HIDE DEF y
  <2>5. Leftover(y.l)
    BY <1>0, <1>1, <2>4 DEF Leftover
  <2>. DEFINE f == FinishItemChange(y, in)
              c == [f EXCEPT !.l.upper = "changed"]
  <2>6. u \in {Busy(y, TRUE), Busy(c, TRUE)}
    BY <2>2, <2>4 DEF UpperAction, UpperChange, ChangingOver, ItemToAction
  <2>7. CASE u = Busy(y, TRUE)
    <3>1. Sound(Busy(y, TRUE), b) /\ Busy(y, TRUE).l = y.l /\ Busy(y, TRUE) \in Worlds
      BY <2>4, BusyIs, BusyTyped
    <3>. HIDE DEF u
    <3>. QED  BY <2>4, <2>5, <2>7, <3>1 DEF u
  <2>8. CASE u = Busy(c, TRUE)
    <3>. DEFINE d == DestroyHookshot(y)
    <3>1. h \in Slot /\ Through(y, h) = y /\ y.l \in Links /\ y.a \in [Slot -> Actor]
      BY <1>1, <2>4, HeldIsReal DEF Sound, Fit, Worlds
    <3>. HIDE DEF h
    <3>2. d \in Worlds
      BY <2>4, DestroyTyped
    <3>3. /\ d.a = [y.a EXCEPT ![h].phase = "dead"] /\ d.fault = y.fault
          /\ d.l = [y.l EXCEPT !.child = NULL, !.held = NULL]
      <4>1. d = [y EXCEPT !.a[h].phase = "dead", !.l.child = NULL, !.l.held = NULL]
        BY <1>1, <2>4, <3>1 DEF DestroyHookshot, HoldsHookshot, h
      <4>. QED  BY <2>4, <3>1, <4>1 DEF Worlds, Links
    <3>. HIDE DEF d
    <3>4. f = InitPlain(d, "none")
      <4>1. f = InitPlain(DetachHeldActor(d), "none")
        BY <2>4 DEF FinishItemChange, UseItem, UseNone, ItemToAction, d
      <4>2. d.l.held = NULL /\ d.l.ia = "hookshot"
        BY <2>4, <3>1, <3>3 DEF Links
      <4>3. DetachHeldActor(d) = d
        BY <4>2 DEF DetachHeldActor, HoldsNoBomb
      <4>. QED  BY <4>1, <4>3
    <3>5. /\ f \in Worlds /\ f.a = d.a /\ f.fault = d.fault
          /\ f.l = [d.l EXCEPT !.ia = "none", !.draw = 0]
      <4>1. f \in Worlds
        BY <3>2, <3>4, PlainTyped
      <4>. HIDE DEF f
      <4>. QED  BY <3>2, <3>4, <4>1 DEF InitPlain, Worlds
    <3>. HIDE DEF f
    <3>6. /\ c \in Worlds /\ SameGrasp(f, c) /\ c.l.upper = "changed" /\ c.l.id = f.l.id
          /\ c.l.changing = f.l.changing /\ c.l.draw = f.l.draw
      BY <3>5, UpperSet DEF Uppers
    <3>. HIDE DEF c
    <3>7. /\ c.a = [y.a EXCEPT ![h].phase = "dead"] /\ c.fault = y.fault
          /\ c.l.held = NULL /\ c.l.child = NULL /\ c.l.range = y.l.range /\ c.l.parent = NULL
          /\ c.l.carrying /\ c.l.ia = "none" /\ c.l.id = "none" /\ c.l.act = w.l.act
          /\ ~c.l.changing /\ c.l.upper = "changed"
      BY <2>4, <3>1, <3>3, <3>5, <3>6 DEF Links, SameGrasp
    <3>8. /\ \A s \in Slot : s # h => c.a[s] = y.a[s]
          /\ c.a[h].phase = "dead"
      BY <3>1, <3>7 DEF Actor
    <3>9. \A s \in Slot : ~LiveHook(c.a, s) /\ ~Believes(c.a, s)
      <4>1. h # NULL
        BY <3>1, Pointing
      <4>. QED  BY <2>4, <3>8, <4>1 DEF LiveHook, Believes, Sound, Fit, Grip, OneHook, Mutual, HookIsOut
    <3>10. c.l.range # NULL => c.a[c.l.range] = y.a[y.l.range]
      <4>. SUFFICES ASSUME c.l.range # NULL
                    PROVE  c.a[c.l.range] = y.a[y.l.range]
        OBVIOUS
      <4>1. y.a[y.l.range].kind = "bomb" /\ y.l.range \in Slot
        BY <2>4, <3>1, <3>7, Pointing DEF Sound, Fit, Grip, Pointers, Links
      <4>2. y.a[h].kind = "hookshot"
        BY <1>1, <2>4 DEF Sound, Fit, Grip, Pointers, HoldsHookshot, h
      <4>. QED  BY <3>7, <3>8, <4>1, <4>2
    <3>11. Pointers(c.l, c.a) /\ OneHook(c.l, c.a) /\ Mutual(c.l, c.a) /\ OutIsQuiet(c.l, c.a) /\ Lively(c)
      BY <2>4, <3>7, <3>9, <3>10 DEF Sound, Fit, Grip, Pointers, OneHook, Mutual, OutIsQuiet, HookOut, Lively
    <3>12. Holding(c.l) /\ Drawn(c.l, b) /\ Nocked(c.l, b)
      BY <3>7 DEF Holding, Drawn, Nocked, Aiming
    <3>13. Sound(c, b)
      BY <2>4, <3>7, <3>11, <3>12 DEF Sound, Fit, Grip
    <3>14. Leftover(c.l)
      BY <1>0, <3>7 DEF Leftover
    <3>15. Sound(Busy(c, TRUE), b) /\ Busy(c, TRUE).l = c.l /\ Busy(c, TRUE) \in Worlds
      BY <3>6, <3>13, BusyIs, BusyTyped
    <3>. HIDE DEF u
    <3>. QED  BY <2>8, <3>7, <3>14, <3>15 DEF u
  <2>. QED  BY <2>6, <2>7, <2>8
<1>2. CASE w.l.held = NULL
  <2>. DEFINE i(z) == [w EXCEPT !.l.upper = "idle", !.use = z, !.hold = z]
  <2>1. /\ w.l.ia = "none" /\ ~w.l.changing /\ w.l.upper \in {"changed", "idle"}
        /\ w.l.upper = "changed" => w.l.id = "none"
    BY <1>2 DEF Leftover
  <2>2. u = UpperAction(w, in)
    <3>1. UpdateItems(w, in) = w
      BY <1>0, <2>1 DEF UpdateItems, ProcessItemButtons, StartChanging
    <3>. QED  BY <2>1, <3>1 DEF UpdateUpperBody, HoldsHookshot
  <2>3. CASE w.l.upper = "idle"
    <3>1. u = Busy(w, FALSE)
      BY <2>2, <2>3 DEF UpperAction, UpperOfItem, ChangingOver
    <3>2. Sound(Busy(w, FALSE), b) /\ Busy(w, FALSE).l = w.l /\ Busy(w, FALSE) \in Worlds
      BY BusyIs, BusyTyped
    <3>. HIDE DEF u
    <3>. QED  BY <3>1, <3>2 DEF u
  <2>4. CASE w.l.upper = "changed"
    <3>1. PICK z \in BOOLEAN : u = Busy(i(z), FALSE)
      <4>1. \A z \in BOOLEAN : UpperOfItem(i(z), in) = Busy(i(z), FALSE)
        BY DEF UpperOfItem, Worlds, Links
      <4>2. \E z \in BOOLEAN : UpperChange(w, in) = UpperOfItem(i(z), in)
        BY <2>1, <2>4 DEF UpperChange, ItemUpper, ItemToAction, Worlds
      <4>3. u = UpperChange(w, in)
        BY <2>2, <2>4 DEF UpperAction, ChangingOver
      <4>. QED  BY <4>1, <4>2, <4>3
    <3>. DEFINE v == i(z)
    <3>2. v \in Worlds /\ v.a = w.a /\ v.fault = w.fault /\ v.l = [w.l EXCEPT !.upper = "idle"]
      <4>1. [w.l EXCEPT !.upper = "idle"] \in Links
        BY <1>0 DEF Links, Uppers
      <4>. QED  BY <4>1 DEF Worlds
    <3>3. u = Busy(v, FALSE)
      BY <3>1
    <3>. HIDE DEF v
    <3>4. /\ SameGrasp(w, v) /\ v.l.upper = "idle" /\ ~v.l.changing /\ v.l.id = w.l.id
      BY <1>0, <2>1, <3>2 DEF Links, SameGrasp
    <3>5. Drawn(v.l, b) /\ Nocked(v.l, b) /\ ~ChangingOver(v.l)
      BY <2>1, <3>4 DEF Drawn, Nocked, Aiming, ChangingOver, SameGrasp
    <3>6. Sound(v, b)
      BY <3>4, <3>5, GraspSound
    <3>7. Leftover(v.l) /\ v.l.act = w.l.act
      BY <1>0, <1>2, <2>1, <3>4 DEF Leftover, SameGrasp
    <3>8. Sound(Busy(v, FALSE), b) /\ Busy(v, FALSE).l = v.l /\ Busy(v, FALSE) \in Worlds
      BY <3>2, <3>6, BusyIs, BusyTyped
    <3>. HIDE DEF u
    <3>. QED  BY <3>3, <3>7, <3>8 DEF u
  <2>. QED  BY <2>1, <2>3, <2>4
<1>. QED  BY <1>1, <1>2

LEMMA SettledStance ==
  ASSUME NEW l, Settled(l), l.act \notin {"putaway", "lift", "lifted"}
  PROVE  Stance(l)
  BY DEF Stance

LEMMA LeftStance ==
  ASSUME NEW l, Leftover(l)
  PROVE  Stance(l)
  BY DEF Stance, Leftover

\* A beside something to lift: what Link holds has still to be put away.
LEMMA StartSound ==
  ASSUME NEW w \in Worlds, NEW b, NEW in \in Ins, Sound(w, b), NoOffer(w.l),
         w.l.act = "free", ~HookIsOut(w.l), ~w.l.changing, ~ChangingOver(w.l),
         w.l.range # NULL, ~w.l.carrying, w.l.held = NULL \/ HoldsHookshot(w.l)
  PROVE  LET u == StartLift(w, in) IN Sound(u, b) /\ Stance(u.l)
<1>. DEFINE x == [w EXCEPT !.l.act = "putaway"]
            y == NewUpper(x)
            p == PutAwayHeldItem(y)
            u == [p EXCEPT !.l.carrying = TRUE]
<1>1. "putaway" \in Actions /\ w.l.ia \in {"none", "hookshot", "bow"}
  BY DEF Actions, NoOffer, Worlds, Links, Items
<1>2. /\ x \in Worlds /\ Sound(x, b) /\ Settled(x.l) /\ x.l.act = "putaway"
      /\ ~ChangingOver(x.l) /\ ~Loosed(x.l) /\ x.l.ia = w.l.ia /\ x.l.held = w.l.held
      /\ ~HookIsOut(x.l)
  <2>1. Settled(w.l)
    BY DEF Settled
  <2>. QED  BY <1>1, <2>1, ActSound DEF Loosed, HoldsHookshot, HookIsOut
<1>3. SetupAction(w, "putaway", FALSE, in) = y
  BY <1>2 DEF SetupAction, ResetUpper
<1>. HIDE DEF x
<1>4. /\ y \in Worlds /\ Sound(y, b) /\ Settled(y.l) /\ ~y.l.changing /\ ~ChangingOver(y.l)
      /\ y.l.upper = ItemUpper(w.l.ia) /\ y.l.act = "putaway" /\ ~y.l.carrying
      /\ y.l.ia = w.l.ia /\ y.l.held = w.l.held
  BY <1>1, <1>2, NewUpperSound, NewUpperTyped
<1>5. StartLift(w, in) = u
  BY <1>3 DEF StartLift
<1>. HIDE DEF y
<1>6. ~HookOut(y.l, y.a)
  BY <1>2, <1>4 DEF HookOut, Sound, Fit, Grip, OneHook, HookIsOut, HoldsHookshot
<1>7. y.l.upper # "carry" /\ ~Aiming(y.l) /\ (y.l.ia = "none" => y.l.upper = "idle")
      /\ (y.l.ia # "none" => y.l.upper = "ready")
  BY <1>1, <1>4 DEF ItemUpper, Aiming
\* p is y, y that has announced the empty hand, or y with empty hands
<1>8. /\ p \in Worlds /\ Sound(p, b) /\ p.l.act = "putaway" /\ p.l.upper = y.l.upper
      /\ ~HookOut(p.l, p.a) /\ ~p.l.carrying
      /\ \/ p.l.ia = "none" /\ p.l.held = NULL /\ (p.l.changing => p.l.id = "none")
         \/ /\ p.l.changing /\ p.l.id = "none" /\ p.l.upper = "ready" /\ p.l.ia = y.l.ia
            /\ p.l.held = y.l.held /\ ~HookIsOut(p.l)
  <2>1. CASE y.l.ia = "none"
    <3>1. p = y /\ y.l.held = NULL
      BY <1>1, <1>2, <1>4, <2>1 DEF PutAwayHeldItem, HoldsHookshot
    <3>. QED  BY <1>4, <1>6, <2>1, <3>1
  <2>2. CASE y.l.ia # "none" /\ y.l.id # "none"
    <3>1. p = Announce(y, "none")
      BY <2>2 DEF PutAwayHeldItem, UseNone
    <3>2. "none" \in Ids /\ (y.l.ia = "bow" /\ y.l.held # NULL => ItemToAction("none") # "bow" /\ b # "bow")
      BY <1>2, <1>4 DEF Ids, Loosed, HoldsHookshot
    <3>3. Sound(p, b) /\ p.l.act = y.l.act /\ p.l.upper = y.l.upper
      BY <1>4, <1>6, <3>1, <3>2, AnnounceSound
    <3>4. /\ p \in Worlds /\ p.a = y.a /\ y.l \in Links
          /\ p.l = [y.l EXCEPT !.id = "none", !.changing = TRUE]
      <4>1. y.l \in Links /\ [y.l EXCEPT !.id = "none", !.changing = TRUE] \in Links
        BY <1>4 DEF Worlds, Links
      <4>. QED  BY <1>4, <3>1, <4>1 DEF Announce, Worlds
    <3>. HIDE DEF p
    <3>5. /\ p.l.held = y.l.held /\ p.l.ia = y.l.ia /\ p.l.id = "none" /\ p.l.changing
          /\ p.l.carrying = y.l.carrying
      BY <3>4 DEF Links
    <3>6. ~HookOut(p.l, p.a) /\ ~HookIsOut(p.l)
      BY <1>2, <1>4, <1>6, <3>4, <3>5 DEF HookOut, HookIsOut, HoldsHookshot
    <3>. QED  BY <1>4, <1>7, <2>2, <3>3, <3>4, <3>5, <3>6
  <2>3. CASE y.l.ia # "none" /\ y.l.id = "none"
    <3>. DEFINE e == DetachHeldActor(DestroyHookshot(y))
    <3>1. p = InitPlain(e, "none")
      BY <2>3 DEF PutAwayHeldItem, UseNone
    <3>2. /\ e \in Worlds /\ Sound(e, b) /\ Empty(e) /\ e.l.act = y.l.act
          /\ e.l.upper = y.l.upper /\ e.l.changing = y.l.changing
      BY <1>4, <1>6, PutAwaySound, DestroyTyped, DetachTyped
    <3>. HIDE DEF e
    <3>3. ~Aiming(e.l) /\ Lively(e)
      BY <1>7, <3>2 DEF Aiming, Sound
    <3>4. /\ p \in Worlds /\ Empty(p) /\ Lively(p) /\ Drawn(p.l, b) /\ p.l.ia = "none"
          /\ p.l.act = e.l.act /\ p.l.upper = e.l.upper /\ p.l.changing = e.l.changing
      BY <3>1, <3>2, <3>3, PlainEmpty
    <3>. HIDE DEF p
    <3>5. Sound(p, b)
      BY <3>4, EmptySound
    <3>6. ~HookOut(p.l, p.a) /\ p.l.held = NULL /\ ~p.l.carrying
      BY <3>4 DEF Empty, HookOut
    <3>. QED  BY <1>4, <3>2, <3>4, <3>5, <3>6
  <2>. QED  BY <2>1, <2>2, <2>3
<1>. HIDE DEF p
<1>9. /\ u.a = p.a /\ u.fault = p.fault /\ p.l \in Links /\ u.l = [p.l EXCEPT !.carrying = TRUE]
  BY <1>8 DEF Worlds
<1>. HIDE DEF u
<1>10. /\ u.l.held = p.l.held /\ u.l.child = p.l.child /\ u.l.range = p.l.range
       /\ u.l.parent = p.l.parent /\ u.l.carrying /\ u.l.ia = p.l.ia
       /\ u.l.id = p.l.id /\ u.l.draw = p.l.draw /\ u.l.act = p.l.act
       /\ u.l.changing = p.l.changing /\ u.l.upper = p.l.upper
  BY <1>9 DEF Links
<1>11. Sound(u, b)
  <2>1. Pointers(u.l, u.a) /\ OneHook(u.l, u.a) /\ Mutual(u.l, u.a)
    BY <1>8, <1>9, <1>10 DEF Sound, Fit, Grip, Pointers, OneHook, Mutual, HookIsOut, HoldsHookshot
  <2>2. OutIsQuiet(u.l, u.a) /\ Holding(u.l)
    BY <1>8, <1>9, <1>10 DEF OutIsQuiet, HookOut, Holding
  <2>3. Drawn(u.l, b) /\ Nocked(u.l, b) /\ Lively(u)
    BY <1>8, <1>9, <1>10 DEF Sound, Fit, Grip, Drawn, Nocked, Aiming, Lively
  <2>. QED  BY <1>8, <1>9, <2>1, <2>2, <2>3 DEF Sound, Fit, Grip
<1>12. PuttingAway(u.l)
  <2>1. CASE p.l.ia = "none" /\ p.l.held = NULL /\ (p.l.changing => p.l.id = "none")
    BY <1>7, <1>8, <1>10, <1>4, <1>1, <2>1 DEF PuttingAway, ChangingOver, ItemToAction
  <2>2. CASE /\ p.l.changing /\ p.l.id = "none" /\ p.l.upper = "ready" /\ p.l.ia = y.l.ia
             /\ p.l.held = y.l.held /\ ~HookIsOut(p.l)
    <3>1. y.l.held # NULL => y.l.ia = "hookshot"
      BY <1>2, <1>4 DEF Loosed, HoldsHookshot
    <3>2. u.l.held = NULL => u.l.ia \in {"none", "bow"}
      BY <1>1, <1>4, <1>10, <2>2 DEF HookIsOut, HoldsHookshot
    <3>. QED  BY <1>10, <2>2, <3>1, <3>2 DEF PuttingAway, ItemToAction
  <2>. QED  BY <1>8, <2>1, <2>2
<1>. QED  BY <1>5, <1>8, <1>10, <1>11, <1>12 DEF Stance

LEMMA TrySound ==
  ASSUME NEW w \in Worlds, NEW b, NEW in \in Ins, Sound(w, b), Settled(w.l),
         NoOffer(w.l) \/ ChangingOver(w.l), w.l.act \in {"free", "fly"}
  PROVE  LET u == TryActionHandlers(w, in) IN Sound(u, b) /\ Stance(u.l)
<1>. DEFINE u == TryActionHandlers(w, in)
            quiet == ~(w.l.act # "free" \/ HookIsOut(w.l) \/ w.l.changing \/ ChangingOver(w.l))
            lifts == in.a /\ w.l.range # NULL /\ ~w.l.carrying /\ (w.l.held = NULL \/ HoldsHookshot(w.l))
<1>1. Stance(w.l)
  BY SettledStance
<1>2. "release" \in Actions /\ "busy" \in Actions
  BY DEF Actions
<1>3. \A k \in BOOLEAN, act \in {"release", "busy"} :
        Sound(SetupAction(w, act, k, in), b) /\ Stance(SetupAction(w, act, k, in).l)
  <2>1. ASSUME NEW act \in {"release", "busy"}
        PROVE  /\ Sound(SetupAction(w, act, TRUE, in), b) /\ Stance(SetupAction(w, act, TRUE, in).l)
               /\ Sound(SetupAction(w, act, FALSE, in), b) /\ Stance(SetupAction(w, act, FALSE, in).l)
    <3>1. act \in Actions
      BY <1>2
    <3>2. /\ Sound(SetupAction(w, act, TRUE, in), b) /\ Settled(SetupAction(w, act, TRUE, in).l)
          /\ SetupAction(w, act, TRUE, in).l.act = act
          /\ Sound(SetupAction(w, act, FALSE, in), b) /\ Settled(SetupAction(w, act, FALSE, in).l)
          /\ SetupAction(w, act, FALSE, in).l.act = act
      BY <3>1, SetupSound, Zenon
    <3>. QED  BY <3>2, SettledStance
  <2>. QED  BY <2>1
<1>4. CASE quiet /\ lifts
  BY <1>4, StartSound DEF TryActionHandlers
<1>5. CASE ~(quiet /\ lifts)
  <2>1. u \in {w, SetupAction(w, "release", TRUE, in), SetupAction(w, "busy", FALSE, in)}
    BY <1>5 DEF TryActionHandlers
  <2>. HIDE DEF u
  <2>2. CASE u = w
    BY <1>1, <2>2 DEF u
  <2>3. CASE u = SetupAction(w, "release", TRUE, in)
    BY <1>3, <2>3 DEF u
  <2>4. CASE u = SetupAction(w, "busy", FALSE, in)
    BY <1>3, <2>4 DEF u
  <2>. QED  BY <2>1, <2>2, <2>3, <2>4
<1>. QED  BY <1>4, <1>5

LEMMA FreeAct ==
  ASSUME NEW w \in Worlds, NEW b, Sound(w, b), Settled(w.l), NEW act \in {"free", "air", "hurt", "fly", "busy"}
  PROVE  LET u == [w EXCEPT !.l.act = act]
         IN  u \in Worlds /\ Sound(u, b) /\ Settled(u.l) /\ Stance(u.l) /\ u.l.act = act
<1>1. act \in Actions
  BY DEF Actions
<1>. QED  BY <1>1, ActSound, SettledStance

LEMMA LeftAct ==
  ASSUME NEW w \in Worlds, NEW b, Sound(w, b), Leftover(w.l), NEW act \in {"free", "air", "hurt"}
  PROVE  LET u == [w EXCEPT !.l.act = act]
         IN  u \in Worlds /\ Sound(u, b) /\ Leftover(u.l) /\ Stance(u.l) /\ u.l.act = act
<1>. DEFINE u == [w EXCEPT !.l.act = act]
<1>1. act \in Actions
  BY DEF Actions
<1>2. /\ u \in Worlds /\ Sound(u, b) /\ u.l.act = act
      /\ u.l.held = w.l.held /\ u.l.carrying = w.l.carrying /\ u.l.ia = w.l.ia
      /\ u.l.id = w.l.id /\ u.l.changing = w.l.changing /\ u.l.upper = w.l.upper
  BY <1>1, ActSound
<1>. HIDE DEF u
<1>3. Leftover(u.l)
  BY <1>2 DEF Leftover
<1>. QED  BY <1>2, <1>3, LeftStance DEF u

\* Where a flag left over is found in the air, it is cleared.
LEMMA AirSound ==
  ASSUME NEW w \in Worlds, NEW in \in Ins, button \in Buttons, Sound(w, button),
         Settled(w.l) \/ Leftover(w.l), NoOffer(w.l), BombFits(w.a), ~w.use, w.l.act = "air"
  PROVE  LET u == ActionAir(w, in) IN Sound(u, button) /\ Stance(u.l)
<1>1. CASE in.ground
  <2>. DEFINE u == [w EXCEPT !.l.act = "free"]
  <2>1. "free" \in Actions
    BY DEF Actions
  <2>2. ActionAir(w, in) = u
    BY <1>1, <2>1, KeptAction DEF ActionAir
  <2>3. CASE Settled(w.l)
    <3>1. Sound(u, button) /\ Stance(u.l)
      BY <2>3, FreeAct
    <3>. QED  BY <2>2, <3>1
  <2>4. CASE Leftover(w.l)
    <3>1. Sound(u, button) /\ Stance(u.l)
      BY <2>4, LeftAct
    <3>. QED  BY <2>2, <3>1
  <2>. QED  BY <2>3, <2>4
<1>2. CASE ~in.ground /\ Settled(w.l)
  <2>1. ActionAir(w, in) = UpdateUpperBody(w, in)
    BY <1>2 DEF ActionAir, Settled
  <2>2. LET u == UpdateUpperBody(w, in)
        IN  Sound(u, button) /\ Settled(u.l) /\ u.l.act \in {w.l.act, "fly"}
    BY <1>2, BodySound
  <2>. QED  BY <2>1, <2>2, SettledStance
<1>3. CASE ~in.ground /\ Leftover(w.l) /\ Bare(w.l)
  <2>. DEFINE v == LostIt(w, in)
  <2>1. /\ v \in Worlds /\ Sound(v, button) /\ Settled(v.l) /\ v.l.act = "free"
        /\ NoOffer(v.l) /\ ~v.use /\ v.a = w.a
    BY <1>3, LostSound
  <2>2. ActionAir(w, in) = UpdateUpperBody(v, in)
    BY <1>3 DEF ActionAir, Bare
  <2>. HIDE DEF v
  <2>3. LET u == UpdateUpperBody(v, in)
        IN  Sound(u, button) /\ Settled(u.l) /\ u.l.act \in {v.l.act, "fly"}
    BY <2>1, BodySound
  <2>. QED  BY <2>1, <2>2, <2>3, SettledStance
<1>4. CASE ~in.ground /\ Leftover(w.l) /\ ~Bare(w.l)
  <2>1. ActionAir(w, in) = UpdateUpperBody(w, in)
    BY <1>4 DEF ActionAir, Bare
  <2>2. LET u == UpdateUpperBody(w, in) IN Sound(u, button) /\ Leftover(u.l)
    BY <1>4, LeftBodySound
  <2>. QED  BY <2>1, <2>2, LeftStance
<1>. QED  BY <1>1, <1>2, <1>3, <1>4

LEMMA FreeSound ==
  ASSUME NEW w \in Worlds, NEW in \in Ins, button \in Buttons, Sound(w, button),
         Settled(w.l) \/ Leftover(w.l), NoOffer(w.l), BombFits(w.a), ~w.use, w.l.act = "free"
  PROVE  LET u == ActionFree(w, in) IN Sound(u, button) /\ Stance(u.l)
<1>. DEFINE x == UpdateUpperBody(w, in)
<1>1. ActionFree(w, in) = TryActionHandlers(x, in)
  BY DEF ActionFree
<1>2. CASE Settled(w.l)
  <2>1. /\ x \in Worlds /\ Sound(x, button) /\ Settled(x.l) /\ (NoOffer(x.l) \/ ChangingOver(x.l))
        /\ x.l.act \in {"free", "fly"}
    BY <1>2, BodySound
  <2>. HIDE DEF x
  <2>. QED  BY <1>1, <2>1, TrySound
\* no handler runs: the hookshot is being put away, or the flag is in the way
<1>3. CASE Leftover(w.l)
  <2>1. Sound(x, button) /\ Leftover(x.l)
    BY <1>3, LeftBodySound
  <2>. HIDE DEF x
  <2>2. TryActionHandlers(x, in) = x
    BY <2>1 DEF TryActionHandlers, Leftover, ChangingOver
  <2>. QED  BY <1>1, <2>1, <2>2, LeftStance
<1>. QED  BY <1>2, <1>3

-----------------------------------------------------------------------------
(* While an item is put away for a lift.                                   *)

\* With nothing in hand: the upper body changes to the empty hand, and when it
\* has nothing left to do the hand is empty.
LEMMA WaitSound ==
  ASSUME NEW w \in Worlds, NEW b, NEW in \in Ins, Sound(w, b), w.l.act = "putaway",
         PuttingAway(w.l), w.l.held = NULL, ~w.use
  PROVE  LET u == UpdateUpperBody(w, in)
         IN  /\ u \in Worlds /\ Sound(u, b) /\ u.l.act = "putaway" /\ PuttingAway(u.l)
             /\ u.l.held = NULL /\ u.l.range = w.l.range
             /\ u.l.ia # "none" => u.busy = TRUE
<1>. DEFINE x == [w EXCEPT !.l.upper = "change", !.l.changing = FALSE]
            y == IF CanUpdateItems(w.l) THEN x ELSE w
            u == UpdateUpperBody(w, in)
<1>0. w.l.ia \in {"none", "bow"} /\ ~HoldsHookshot(w.l) /\ w.l.carrying /\ w.l.upper # "carry"
  BY DEF PuttingAway, HoldsHookshot
<1>1. u = UpperAction(y, in)
  <2>1. CanUpdateItems(w.l) => w.l.changing
    BY DEF CanUpdateItems
  <2>2. CanUpdateItems(w.l) => UpdateItems(w, in) = x
    BY <2>1 DEF UpdateItems, StartChanging
  <2>. QED  BY <1>0, <2>2 DEF UpdateUpperBody
<1>2. ~HookOut(w.l, w.a)
  BY <1>0 DEF Sound, Fit, Grip, OneHook, HookOut
<1>3. /\ x \in Worlds /\ SameGrasp(w, x) /\ x.l.upper = "change" /\ ~x.l.changing
      /\ x.l.id = w.l.id /\ x.l.draw = w.l.draw /\ ~x.use
  <2>1. w.l \in Links /\ [w.l EXCEPT !.upper = "change", !.changing = FALSE] \in Links
    BY DEF Worlds, Links, Uppers
  <2>. QED  BY <2>1 DEF Worlds, Links, SameGrasp
<1>. HIDE DEF x
<1>4. /\ y \in Worlds /\ Sound(y, b) /\ PuttingAway(y.l) /\ y.l.held = NULL /\ y.l.act = "putaway"
      /\ y.l.range = w.l.range /\ y.l.ia \in {"none", "bow"} /\ ~y.use
      /\ (y.l.ia = "bow" => y.l.upper = "change") /\ ~HookOut(y.l, y.a)
      /\ y.l.upper # "carry"
  <2>1. CASE CanUpdateItems(w.l)
    <3>1. Drawn(x.l, b) /\ Nocked(x.l, b)
      BY <1>3 DEF Sound, Fit, Grip, Drawn, Nocked, Aiming, SameGrasp
    <3>2. Sound(x, b)
      BY <1>2, <1>3, <3>1, GraspSound
    <3>3. w.l.changing /\ w.l.id = "none"
      BY <2>1 DEF CanUpdateItems
    <3>4. PuttingAway(x.l)
      BY <1>0, <1>3, <3>3 DEF PuttingAway, SameGrasp, ItemToAction
    <3>5. ~HookOut(x.l, x.a)
      BY <1>2, <1>3 DEF HookOut, SameGrasp
    <3>. QED  BY <1>0, <1>3, <2>1, <3>2, <3>4, <3>5 DEF SameGrasp
  <2>2. CASE ~CanUpdateItems(w.l)
    <3>1. w.l.ia = "bow" => w.l.upper = "change"
      BY <2>2 DEF PuttingAway, CanUpdateItems, ChangingOver
    <3>. QED  BY <1>0, <1>2, <2>2, <3>1
  <2>. QED  BY <2>1, <2>2
<1>. HIDE DEF y
<1>5. u \in Worlds
  BY <1>1, <1>4, UpperActionTyped
<1>6. CASE y.l.ia = "bow"
  <2>. DEFINE f == FinishItemChange(y, in)
              c == [f EXCEPT !.l.upper = "changed"]
  <2>1. y.l.upper = "change" /\ ItemToAction(y.l.id) = "none"
    BY <1>4, <1>6 DEF PuttingAway, ChangingOver
  <2>2. u \in {Busy(y, TRUE), Busy(c, TRUE)} /\ (u = Busy(y, TRUE) \/ in.upper = "frame")
    BY <1>1, <1>6, <2>1 DEF UpperAction, UpperChange, ChangingOver
  <2>3. CASE u = Busy(y, TRUE)
    <3>1. Sound(Busy(y, TRUE), b) /\ Busy(y, TRUE).l = y.l /\ Busy(y, TRUE).busy = TRUE
      BY <1>4, BusyIs
    <3>. HIDE DEF u
    <3>. QED  BY <1>4, <1>5, <2>3, <3>1 DEF u
  <2>4. CASE u = Busy(c, TRUE)
    <3>. DEFINE e == DetachHeldActor(DestroyHookshot(y))
    <3>1. y.l.id \in {"none", "none_fe"}
      BY <2>1 DEF ItemToAction
    <3>2. f = InitPlain(e, "none")
      BY <1>6, <2>1, <3>1 DEF FinishItemChange, UseItem, UseNone
    \* the hand is empty, so nothing is destroyed and nothing is let go
    <3>3. e = y
      BY <1>4, <1>6 DEF DestroyHookshot, DetachHeldActor, HoldsNoBomb, HoldsHookshot
    <3>4. f.a = y.a /\ f.fault = y.fault /\ y.l \in Links
          /\ f.l = [y.l EXCEPT !.ia = "none", !.draw = 0] /\ f \in Worlds
      <4>1. f = InitPlain(y, "none")
        BY <3>2, <3>3
      <4>2. f \in Worlds
        BY <1>4, <4>1, PlainTyped
      <4>. HIDE DEF f
      <4>. QED  BY <1>4, <4>1, <4>2 DEF InitPlain, Worlds
    <3>. HIDE DEF f
    <3>5. "changed" \in Uppers
      BY DEF Uppers
    <3>6. /\ c \in Worlds /\ SameGrasp(f, c) /\ c.l.upper = "changed" /\ c.l.id = f.l.id
          /\ c.l.changing = f.l.changing /\ c.l.draw = f.l.draw
      BY <3>4, <3>5, UpperSet
    <3>. HIDE DEF c
    <3>7. /\ c.a = y.a /\ c.fault = y.fault /\ c.l.held = NULL /\ c.l.child = y.l.child
          /\ c.l.range = y.l.range /\ c.l.parent = y.l.parent /\ c.l.carrying
          /\ c.l.ia = "none" /\ c.l.id = y.l.id /\ c.l.act = "putaway"
      BY <1>4, <3>4, <3>6 DEF Links, SameGrasp, PuttingAway
    <3>8. Sound(c, b)
      <4>1. y.l.parent = NULL /\ \A s \in Slot : ~LiveHook(y.a, s) /\ ~Believes(y.a, s)
        BY <1>4, <1>6, Pointing DEF Sound, Fit, Grip, Pointers, OneHook, Mutual, HookIsOut, HoldsHookshot
      <4>2. Pointers(c.l, c.a) /\ OneHook(c.l, c.a) /\ Mutual(c.l, c.a) /\ Lively(c)
        BY <1>4, <3>7, <4>1 DEF Sound, Fit, Grip, Pointers, OneHook, Mutual, Lively
      <4>3. OutIsQuiet(c.l, c.a) /\ Holding(c.l) /\ Drawn(c.l, b) /\ Nocked(c.l, b)
        BY <3>6, <3>7, <4>1 DEF OutIsQuiet, HookOut, Holding, Drawn, Nocked, Aiming
      <4>. QED  BY <1>4, <3>7, <4>2, <4>3 DEF Sound, Fit, Grip
    <3>9. PuttingAway(c.l)
      BY <2>1, <3>6, <3>7 DEF PuttingAway
    <3>10. /\ Sound(Busy(c, TRUE), b) /\ Busy(c, TRUE).l = c.l /\ Busy(c, TRUE).busy = TRUE
      BY <3>6, <3>8, BusyIs
    <3>. HIDE DEF u
    <3>. QED  BY <1>4, <1>5, <2>4, <3>7, <3>9, <3>10 DEF u
  <2>. QED  BY <2>2, <2>3, <2>4
<1>7. CASE y.l.ia = "none"
  <2>1. ~Aiming(y.l)
    BY <1>4, <1>7 DEF Sound, Fit, Grip, Drawn
  <2>. DEFINE use == y.use \/ (~(y.l.upper = "changed" /\ in.upper = "end") /\ ItemToAction(y.l.id) = "none")
              i == [y EXCEPT !.l.upper = "idle", !.use = use, !.hold = use]
              k == Lowered(y)
  <2>2. CASE ChangingOver(y.l)
    <3>1. ItemToAction(y.l.id) = "none"
      BY <1>4, <2>2 DEF PuttingAway
    <3>2. /\ i \in Worlds /\ SameGrasp(y, i) /\ i.l.upper = "idle" /\ i.l.changing = y.l.changing
          /\ i.l.id = y.l.id /\ i.l.draw = y.l.draw
      <4>1. use \in BOOLEAN /\ y.l \in Links /\ [y.l EXCEPT !.upper = "idle"] \in Links
        BY <1>4 DEF Worlds, Links, Uppers
      <4>. HIDE DEF use
      <4>2. i.l = [y.l EXCEPT !.upper = "idle"] /\ i.a = y.a /\ i.fault = y.fault /\ i \in Worlds
        BY <1>4, <4>1 DEF Worlds
      <4>. HIDE DEF i
      <4>. QED  BY <4>1, <4>2 DEF Links, SameGrasp
    <3>3. u = Busy(i, FALSE)
      <4>1. u = UpperOfItem(i, in)
        BY <1>1, <1>7, <2>2, <3>1 DEF UpperAction, UpperChange, ChangingOver, ItemUpper
      <4>2. i.l.upper = "idle"
        BY <3>2
      <4>. HIDE DEF i
      <4>. QED  BY <4>1, <4>2 DEF UpperOfItem
    <3>. HIDE DEF i
    <3>4. Drawn(i.l, b) /\ Nocked(i.l, b)
      BY <1>4, <1>7, <3>2 DEF Drawn, Nocked, Aiming, SameGrasp
    <3>5. Sound(i, b)
      BY <1>4, <3>2, <3>4, GraspSound
    <3>6. PuttingAway(i.l)
      BY <1>4, <1>7, <3>1, <3>2 DEF PuttingAway, SameGrasp
    <3>7. Sound(Busy(i, FALSE), b) /\ Busy(i, FALSE).l = i.l
      BY <3>2, <3>5, BusyIs
    <3>. HIDE DEF u
    <3>. QED  BY <1>4, <1>5, <1>7, <3>2, <3>3, <3>6, <3>7 DEF u, SameGrasp
  <2>3. CASE y.l.upper = "ready"
    <3>1. ReceivedByHook(k) = k
      BY <1>4, <1>7 DEF ReceivedByHook, Lowered, HoldsHookshot, Worlds, Links
    <3>2. u = Busy(k, FALSE)
      BY <1>1, <1>4, <1>7, <2>3, <3>1 DEF UpperAction, UpperOfItem, UpperReady, ChangingOver,
         HoldsHookshot, Lowered, Worlds, Links
    <3>3. /\ k \in Worlds /\ SameGrasp(y, k) /\ k.l.upper = "ready" /\ k.l.changing = y.l.changing
          /\ k.l.id = y.l.id
      <4>1. k \in Worlds
        BY <1>4, LoweredTyped
      <4>. QED  BY <1>4, <2>3, <4>1 DEF Lowered, Worlds, Links, SameGrasp
    <3>. HIDE DEF k
    <3>4. Drawn(k.l, b) /\ Nocked(k.l, b)
      BY <1>7, <3>3 DEF Drawn, Nocked, Aiming, SameGrasp
    <3>5. Sound(k, b)
      BY <1>4, <3>3, <3>4, GraspSound
    <3>6. PuttingAway(k.l)
      BY <1>4, <1>7, <2>3, <3>3 DEF PuttingAway, SameGrasp, ChangingOver
    <3>7. Sound(Busy(k, FALSE), b) /\ Busy(k, FALSE).l = k.l
      BY <3>3, <3>5, BusyIs
    <3>. HIDE DEF u
    <3>. QED  BY <1>4, <1>5, <1>7, <3>2, <3>3, <3>6, <3>7 DEF u, SameGrasp
  <2>4. CASE ~ChangingOver(y.l) /\ y.l.upper # "ready"
    <3>1. u = Busy(y, FALSE)
      BY <1>1, <1>4, <2>1, <2>4 DEF UpperAction, UpperOfItem, Aiming
    <3>2. /\ Sound(Busy(y, FALSE), b) /\ Busy(y, FALSE).l = y.l
      BY <1>4, BusyIs
    <3>. HIDE DEF u
    <3>. QED  BY <1>4, <1>5, <1>7, <3>1, <3>2 DEF u
  <2>. QED  BY <2>2, <2>3, <2>4
<1>. QED  BY <1>4, <1>6, <1>7

LEMMA OfferedIsReal ==
  ASSUME NEW w, NEW b, Sound(w, b), w.l.range # NULL
  PROVE  w.a[w.l.range].kind = "bomb" /\ w.a[w.l.range] # NoActor
<1>1. Pointers(w.l, w.a)
  BY DEF Sound, Fit, Grip
<1>. QED  BY <1>1 DEF Pointers, NoActor

LEMMA PutAwayDone ==
  ASSUME NEW w \in Worlds, NEW b, NEW in \in Ins, Sound(w, b), w.l.act = "putaway",
         PuttingAway(w.l), w.l.held # NULL \/ (w.l.ia # "none" => w.busy = TRUE),
         w.l.held # NULL => w.busy = FALSE
  PROVE  LET u == AfterPutAway(w, in) IN Sound(u, b) /\ Stance(u.l)
<1>. DEFINE t == Through(w, w.l.range)
            g == [t EXCEPT !.l.act = "lift"]
            f == [w EXCEPT !.l.act = "free"]
            u == [f EXCEPT !.l.carrying = FALSE]
<1>1. "lift" \in Actions /\ "free" \in Actions /\ w.l.carrying
  BY DEF Actions, PuttingAway
<1>2. CASE w.busy
  BY <1>2 DEF AfterPutAway, Stance
<1>3. CASE ~w.busy /\ w.l.range # NULL /\ w.l.held = NULL
  <2>1. t = w
    <3>1. w.l.range \in Slot
      BY <1>3, Pointing DEF Worlds, Links
    <3>2. w.a[w.l.range] # NoActor
      BY <1>3, OfferedIsReal
    <3>3. ~w.fault /\ w.fault \in BOOLEAN
      BY DEF Worlds, Sound, Fit, Grip
    <3>. QED  BY <3>1, <3>2, <3>3 DEF Through, Worlds
  <2>. HIDE DEF t
  <2>2. AfterPutAway(w, in) = g
    <3>1. AfterPutAway(w, in) = SetupAction(t, "lift", FALSE, in)
      BY <1>3 DEF AfterPutAway, t
    <3>2. SetupAction(w, "lift", FALSE, in) = [w EXCEPT !.l.act = "lift"]
      BY <1>1, KeptAction
    <3>. QED  BY <2>1, <3>1, <3>2
  <2>3. /\ Sound(g, b) /\ g.l.act = "lift" /\ g.l.held = NULL /\ g.l.carrying /\ g.l.ia = "none"
        /\ g.l.upper # "carry"
    BY <1>1, <1>3, <2>1, ActSound DEF PuttingAway
  <2>. QED  BY <2>2, <2>3 DEF Stance, Reaching
<1>4. CASE ~w.busy /\ ~(w.l.range # NULL /\ w.l.held = NULL)
  <2>1. AfterPutAway(w, in) = u
    <3>1. SetupAction(w, "free", TRUE, in) = f
      BY <1>1, KeptAction
    <3>. HIDE DEF f
    <3>. QED  BY <1>4, <3>1 DEF AfterPutAway
  <2>2. /\ f \in Worlds /\ Sound(f, b) /\ f.l.act = "free" /\ f.l.held = w.l.held /\ f.l.ia = w.l.ia
        /\ f.l.changing = w.l.changing /\ f.l.upper = w.l.upper /\ f.l.id = w.l.id
    BY <1>1, ActSound
  <2>. HIDE DEF f
  <2>3. /\ u.a = f.a /\ u.fault = f.fault /\ f.l \in Links /\ u.l = [f.l EXCEPT !.carrying = FALSE]
    BY <2>2 DEF Worlds
  <2>. HIDE DEF u
  <2>4. /\ u.l.held = f.l.held /\ u.l.child = f.l.child /\ u.l.range = f.l.range
        /\ u.l.parent = f.l.parent /\ ~u.l.carrying /\ u.l.ia = f.l.ia
        /\ u.l.id = f.l.id /\ u.l.draw = f.l.draw /\ u.l.act = f.l.act
        /\ u.l.changing = f.l.changing /\ u.l.upper = f.l.upper
    BY <2>3 DEF Links
  <2>5. Pointers(u.l, u.a) /\ OneHook(u.l, u.a) /\ Mutual(u.l, u.a)
    BY <2>2, <2>3, <2>4 DEF Sound, Fit, Grip, Pointers, OneHook, Mutual, HookIsOut, HoldsHookshot
  <2>6. OutIsQuiet(u.l, u.a)
    BY <2>2, <2>3, <2>4 DEF Sound, Fit, Grip, OutIsQuiet, HookOut, ChangingOver
  <2>7. Holding(u.l)
    BY <2>2, <2>4 DEF Holding, PuttingAway
  <2>8. Drawn(u.l, b) /\ Nocked(u.l, b) /\ Lively(u)
    BY <2>2, <2>3, <2>4 DEF Sound, Fit, Grip, Drawn, Nocked, Aiming, Lively
  <2>9. Sound(u, b)
    BY <2>2, <2>3, <2>5, <2>6, <2>7, <2>8 DEF Sound, Fit, Grip
  <2>. QED  BY <2>1, <2>2, <2>4, <2>9 DEF Stance, Settled
<1>. QED  BY <1>2, <1>3, <1>4

LEMMA PutAwaySteps ==
  ASSUME NEW w \in Worlds, NEW b, NEW in \in Ins, Sound(w, b), w.l.act = "putaway",
         PuttingAway(w.l), ~w.use, w.busy = FALSE
  PROVE  LET u == ActionPutAway(w, in) IN Sound(u, b) /\ Stance(u.l)
<1>0. w.l.carrying
  BY DEF PuttingAway
<1>1. CASE w.l.held # NULL
  <2>1. ActionPutAway(w, in) = AfterPutAway(w, in)
    BY <1>0, <1>1 DEF ActionPutAway
  <2>. QED  BY <1>1, <2>1, PutAwayDone
<1>2. CASE w.l.held = NULL
  <2>. DEFINE x == UpdateUpperBody(w, in)
  <2>1. /\ x \in Worlds /\ Sound(x, b) /\ x.l.act = "putaway" /\ PuttingAway(x.l)
        /\ x.l.held = NULL /\ (x.l.ia # "none" => x.busy = TRUE)
    <3>1. LET v == UpdateUpperBody(w, in)
          IN  /\ v \in Worlds /\ Sound(v, b) /\ v.l.act = "putaway" /\ PuttingAway(v.l)
              /\ v.l.held = NULL /\ v.l.range = w.l.range
              /\ v.l.ia # "none" => v.busy = TRUE
      BY <1>2, WaitSound
    <3>. QED  BY <3>1
  <2>2. ActionPutAway(w, in) = AfterPutAway(x, in)
    BY <1>2 DEF ActionPutAway
  <2>. HIDE DEF x
  <2>. QED  BY <2>1, <2>2, PutAwayDone
<1>. QED  BY <1>1, <1>2

-----------------------------------------------------------------------------
(* Lifting, letting go and flying.                                         *)

LEMMA LiftSound ==
  ASSUME NEW w \in Worlds, NEW b, NEW in \in Ins, Sound(w, b), w.l.act = "lift", Reaching(w.l)
  PROVE  LET u == ActionLift(w, in) IN Sound(u, b) /\ Stance(u.l)
<1>. DEFINE s == w.l.range
            u == [w EXCEPT !.l.held = s, !.l.child = s, !.a[s].parent = TRUE, !.l.act = "lifted"]
<1>1. CASE in.body # "frame"
  BY <1>1 DEF ActionLift, Stance
<1>2. CASE in.body = "frame" /\ s = NULL
  <2>1. ActionLift(w, in) = LostIt(w, in)
    BY <1>2 DEF ActionLift
  <2>2. LET v == LostIt(w, in) IN Sound(v, b) /\ Settled(v.l) /\ v.l.act = "free"
    <3>1. Bare(w.l)
      BY DEF Reaching, Bare
    <3>. QED  BY <3>1, LostSound
  <2>. QED  BY <2>1, <2>2 DEF Stance
<1>3. CASE in.body = "frame" /\ s # NULL
  <2>1. /\ s \in Slot /\ w.a[s].kind = "bomb" /\ w.a[s] # NoActor /\ w.a[s].phase # "dead"
        /\ ~w.fault /\ w.fault \in BOOLEAN
    <3>1. s \in Slot
      BY <1>3, Pointing DEF Worlds, Links
    <3>2. w.a[s].kind = "bomb" /\ w.a[s] # NoActor
      BY <1>3, OfferedIsReal
    <3>3. w.a[s].phase # "dead"
      BY <1>3 DEF Sound, Lively
    <3>4. ~w.fault /\ w.fault \in BOOLEAN
      BY DEF Worlds, Sound, Fit, Grip
    <3>. QED  BY <3>1, <3>2, <3>3, <3>4
  <2>2. ~Through(w, s).fault
    BY <2>1 DEF Through, Worlds
  <2>3. ActionLift(w, in) = u
    BY <1>3, <2>2 DEF ActionLift
  <2>4. w.l \in Links /\ w.a \in [Slot -> Actor]
    BY DEF Worlds
  <2>5. w.l.range = s
    OBVIOUS
  <2>. HIDE DEF s
  <2>6. /\ u.a = [w.a EXCEPT ![s].parent = TRUE] /\ u.fault = w.fault
        /\ u.l = [w.l EXCEPT !.held = s, !.child = s, !.act = "lifted"]
    BY <2>1, <2>4 DEF Worlds
  <2>. HIDE DEF u
  <2>7. /\ u.l.held = s /\ u.l.child = s /\ u.l.range = s /\ u.l.parent = w.l.parent
        /\ u.l.carrying = w.l.carrying /\ u.l.ia = w.l.ia
        /\ u.l.id = w.l.id /\ u.l.draw = w.l.draw /\ u.l.act = "lifted"
        /\ u.l.changing = w.l.changing /\ u.l.upper = w.l.upper
    BY <2>4, <2>5, <2>6 DEF Links
  <2>8. /\ \A t \in Slot : t # s => u.a[t] = w.a[t]
        /\ u.a[s].kind = "bomb" /\ u.a[s].phase # "dead"
    BY <2>1, <2>4, <2>6 DEF Actor
  <2>9. w.l.held = NULL /\ w.l.ia = "none" /\ w.l.carrying
    BY DEF Reaching
  <2>10. /\ w.l.parent = NULL
         /\ \A t \in Slot : ~LiveHook(w.a, t) /\ ~Believes(w.a, t)
    BY <2>9, Pointing DEF Sound, Fit, Grip, Pointers, OneHook, Mutual, HookIsOut, HoldsHookshot
  <2>11. \A t \in Slot : ~LiveHook(u.a, t) /\ (Believes(u.a, t) => t = s)
    BY <2>8, <2>10 DEF LiveHook, Believes
  <2>12. Pointers(u.l, u.a) /\ OneHook(u.l, u.a) /\ Mutual(u.l, u.a) /\ OutIsQuiet(u.l, u.a)
    BY <2>7, <2>8, <2>9, <2>10, <2>11 DEF Pointers, OneHook, Mutual, OutIsQuiet, HookOut, HoldsHookshot
  <2>13. Holding(u.l) /\ Drawn(u.l, b) /\ Nocked(u.l, b) /\ Lively(u)
    BY <2>7, <2>8, <2>9 DEF Sound, Fit, Grip, Holding, Drawn, Nocked, Aiming, Lively
  <2>14. Sound(u, b)
    BY <2>1, <2>6, <2>12, <2>13 DEF Sound, Fit, Grip
  <2>15. Stance(u.l)
    BY <2>1, <2>7, <2>9, Pointing DEF Stance, Settled
  <2>. QED  BY <2>3, <2>14, <2>15
<1>. QED  BY <1>1, <1>2, <1>3

LEMMA LiftedSound ==
  ASSUME NEW w \in Worlds, NEW b, NEW in \in Ins, Sound(w, b), w.l.act = "lifted", Settled(w.l),
         w.l.ia = "none"
  PROVE  LET u == ActionLifted(w, in) IN Sound(u, b) /\ Stance(u.l)
<1>. DEFINE f == [w EXCEPT !.l.act = "free"]
            u == [f EXCEPT !.l.upper = "carry"]
<1>1. "free" \in Actions /\ "carry" \in Uppers
  BY DEF Actions, Uppers
<1>2. SetupAction(w, "free", TRUE, in) = f
  BY <1>1, KeptAction
<1>3. /\ f \in Worlds /\ Sound(f, b) /\ Settled(f.l) /\ f.l.act = "free" /\ f.l.ia = "none"
  BY <1>1, ActSound
<1>4. ActionLifted(w, in) \in {w, LostIt(f, in), u}
  BY <1>2 DEF ActionLifted
<1>. HIDE DEF f
<1>5. LET v == LostIt(f, in) IN Sound(v, b) /\ Stance(v.l)
  <2>1. LET v == LostIt(f, in) IN Sound(v, b) /\ Settled(v.l) /\ v.l.act = "free"
    BY <1>3, LostSound
  <2>. QED  BY <2>1 DEF Stance
<1>6. Sound(u, b) /\ Stance(u.l)
  <2>1. /\ u \in Worlds /\ SameGrasp(f, u) /\ u.l.upper = "carry" /\ u.l.id = f.l.id
        /\ u.l.changing = f.l.changing /\ u.l.draw = f.l.draw
    BY <1>1, <1>3, UpperSet
  <2>. HIDE DEF u
  <2>2. Drawn(u.l, b) /\ Nocked(u.l, b)
    BY <1>3, <2>1 DEF Drawn, Nocked, Aiming, SameGrasp
  <2>3. HookOut(f.l, f.a) => ~u.l.changing /\ ~ChangingOver(u.l)
    BY <1>3, <2>1 DEF Sound, Fit, Grip, OutIsQuiet, ChangingOver
  <2>4. Sound(u, b) /\ Settled(u.l)
    BY <1>3, <2>1, <2>2, <2>3, GraspSound
  <2>. QED  BY <1>3, <2>1, <2>4 DEF Stance, SameGrasp
<1>7. Stance(w.l)
  BY DEF Stance
<1>. QED  BY <1>4, <1>5, <1>6, <1>7

LEMMA ReleaseSound ==
  ASSUME NEW w \in Worlds, NEW b, NEW in \in Ins, Sound(w, b), w.l.act = "release", Settled(w.l)
  PROVE  LET u == ActionRelease(w, in) IN Sound(u, b) /\ Stance(u.l)
<1>1. CASE in.body # "frame"
  BY <1>1 DEF ActionRelease, Stance
<1>2. CASE in.body = "frame" /\ w.l.held = NULL
  <2>1. ActionRelease(w, in) = LostIt(w, in)
    BY <1>2 DEF ActionRelease
  <2>2. LET v == LostIt(w, in) IN Sound(v, b) /\ Settled(v.l) /\ v.l.act = "free"
    BY LostSound
  <2>. QED  BY <2>1, <2>2 DEF Stance
<1>3. CASE in.body = "frame" /\ w.l.held # NULL
  <2>. DEFINE r == ResetUpper(w, in)
              u == [r EXCEPT !.l.act = "busy"]
  <2>1. Through(w, w.l.held) = w
    BY <1>3, HeldIsReal DEF Sound, Fit
  <2>2. ActionRelease(w, in) = u
    BY <1>3, <2>1 DEF ActionRelease
  <2>3. r \in Worlds /\ Sound(r, b) /\ Settled(r.l)
    BY ResetSound, ResetTyped
  <2>. HIDE DEF r
  <2>4. Sound(u, b) /\ Stance(u.l)
    BY <2>3, FreeAct
  <2>. QED  BY <2>2, <2>4
<1>. QED  BY <1>1, <1>2, <1>3

LEMMA FlySound ==
  ASSUME NEW w \in Worlds, NEW b, NEW in \in Ins, Sound(w, b), w.l.act = "fly", Settled(w.l)
  PROVE  LET u == ActionFly(w, in) IN Sound(u, b) /\ Stance(u.l)
<1>1. CASE w.l.child = NULL
  BY <1>1 DEF ActionFly, Stance
<1>2. CASE w.l.child # NULL
  <2>. DEFINE u == SetupAction(w, "air", FALSE, in)
  <2>1. ActionFly(w, in) = u
    BY <1>2, NothingReceived DEF ActionFly
  <2>2. "air" \in Actions
    BY DEF Actions
  <2>3. Sound(u, b) /\ Settled(u.l) /\ u.l.act = "air"
    BY <2>2, SetupSound
  <2>. QED  BY <2>1, <2>3 DEF Stance
<1>. QED  BY <1>1, <1>2

LEMMA ActionSound ==
  ASSUME NEW w \in Worlds, NEW in \in Ins, button \in Buttons, Sound(w, button), Stance(w.l),
         NoOffer(w.l), w.l.act \in {"free", "air"} => BombFits(w.a) /\ ~w.use,
         w.l.act = "putaway" => ~w.use /\ w.busy = FALSE
  PROVE  LET u == ActionFunc(w, in) IN Sound(u, button) /\ Stance(u.l)
<1>1. CASE w.l.act = "free"
  BY <1>1, FreeSound DEF ActionFunc, Stance
<1>2. CASE w.l.act = "air"
  BY <1>2, AirSound DEF ActionFunc, Stance
<1>3. CASE w.l.act = "putaway"
  BY <1>3, PutAwaySteps DEF ActionFunc, Stance
<1>4. CASE w.l.act = "lift"
  BY <1>4, LiftSound DEF ActionFunc, Stance
<1>5. CASE w.l.act = "lifted"
  BY <1>5, LiftedSound DEF ActionFunc, Stance, Leftover
<1>6. CASE w.l.act = "release"
  BY <1>6, ReleaseSound DEF ActionFunc, Stance, Leftover
<1>7. CASE w.l.act = "fly"
  BY <1>7, FlySound DEF ActionFunc, Stance, Leftover
<1>8. CASE w.l.act \notin {"free", "air", "putaway", "lift", "lifted", "release", "fly"}
  <2>. DEFINE u == [w EXCEPT !.l.act = "free"]
  <2>1. "free" \in Actions
    BY DEF Actions
  <2>2. SetupAction(w, "free", TRUE, in) = u
    BY <2>1, KeptAction
  <2>3. Settled(w.l) \/ Leftover(w.l)
    BY <1>8 DEF Stance
  <2>4. Sound(u, button) /\ Stance(u.l)
    BY <2>3, FreeAct, LeftAct
  <2>5. ActionFunc(w, in) \in {u, w}
    BY <1>8, <2>2 DEF ActionFunc
  <2>. QED  BY <2>4, <2>5
<1>. QED  BY <1>1, <1>2, <1>3, <1>4, <1>5, <1>6, <1>7, <1>8

-----------------------------------------------------------------------------
(* The rest of Player_Update.                                              *)

\* After DropDead nothing dead is held or in reach.
LEMMA DropDeadSound ==
  ASSUME NEW w \in Worlds, NEW b, Fit(w, b), Stance(w.l), NoOffer(w.l)
  PROVE  LET u == DropDead(w)
         IN  /\ u \in Worlds /\ Sound(u, b) /\ Stance(u.l) /\ NoOffer(u.l)
             /\ Frees(w.a, u.a) /\ u.l.act = w.l.act /\ u.use = w.use
             /\ w.l.act = "putaway" => u.busy = w.busy
<1>. DEFINE x == IF Dead(w, w.l.range) THEN [w EXCEPT !.l.range = NULL] ELSE w
<1>1. x \in Worlds
  BY Pointing DEF Worlds, Links
<1>2. DropDead(w) = IF Dead(x, x.l.held) THEN DetachHeldActor(x) ELSE x
  BY DEF DropDead, DropHeld
<1>3. /\ x.a = w.a /\ x.fault = w.fault /\ x.use = w.use /\ x.busy = w.busy
      /\ x.l.range = NULL \/ (x.l.range = w.l.range /\ w.a[x.l.range].phase # "dead")
      /\ x.l.held = w.l.held /\ x.l.child = w.l.child /\ x.l.parent = w.l.parent
      /\ x.l.carrying = w.l.carrying /\ x.l.ia = w.l.ia /\ x.l.id = w.l.id
      /\ x.l.draw = w.l.draw /\ x.l.act = w.l.act /\ x.l.changing = w.l.changing
      /\ x.l.upper = w.l.upper
  BY DEF Dead, Worlds, Links
<1>. HIDE DEF x
<1>4. Fit(x, b)
  <2>1. Pointers(x.l, x.a) /\ OneHook(x.l, x.a) /\ Mutual(x.l, x.a) /\ OutIsQuiet(x.l, x.a)
    BY <1>3 DEF Fit, Grip, Pointers, OneHook, Mutual, OutIsQuiet, HookOut, HookIsOut,
                HoldsHookshot, ChangingOver
  <2>2. Holding(x.l) /\ Drawn(x.l, b) /\ Nocked(x.l, b)
    BY <1>3 DEF Fit, Grip, Holding, Drawn, Nocked, Aiming
  <2>. QED  BY <1>3, <2>1, <2>2 DEF Fit, Grip
<1>5. Stance(x.l) /\ NoOffer(x.l)
  BY <1>3 DEF Stance, Settled, Leftover, Reaching, PuttingAway, NoOffer, ChangingOver
<1>6. CASE ~Dead(x, x.l.held)
  <2>1. Lively(x)
    BY <1>3, <1>6 DEF Dead, Lively
  <2>2. Frees(w.a, x.a)
    BY <1>3 DEF Frees
  <2>. QED  BY <1>1, <1>2, <1>3, <1>4, <1>5, <1>6, <2>1, <2>2 DEF Sound
<1>7. CASE Dead(x, x.l.held)
  <2>. DEFINE u == DetachHeldActor(x)
  <2>1. x.l.held # NULL /\ x.a[x.l.held].phase = "dead" /\ ~HoldsHookshot(x.l)
    BY <1>4, <1>7 DEF Dead, Fit, Grip, Pointers
  <2>2. x.l.act \notin {"putaway", "lift"} /\ Settled(x.l)
    BY <1>5, <2>1 DEF Stance, Leftover, PuttingAway, Reaching, HoldsHookshot
  <2>3. /\ Fit(u, b) /\ Settled(u.l) /\ Frees(x.a, u.a) /\ u \in Worlds
    BY <1>1, <1>4, <2>2, DetachSound, DetachTyped DEF Fit
  <2>4. Detached(x, u)
    BY <1>1, <1>4, DetachEffect DEF Fit
  <2>. HIDE DEF u
  <2>5. u.l.held = NULL /\ u.l.range = NULL /\ u.l.act = x.l.act /\ u.use = x.use
        /\ (x.l.ia = "none" => u.l.ia = "none")
    BY <2>1, <2>4 DEF Detached, Loosed
  <2>6. Lively(u) /\ NoOffer(u.l)
    BY <2>5 DEF Lively, NoOffer
  <2>7. Stance(u.l)
    BY <1>5, <2>2, <2>3, <2>5 DEF Stance
  <2>8. DropDead(w) = u
    BY <1>2, <1>7 DEF u
  <2>. QED  BY <1>3, <2>2, <2>3, <2>5, <2>6, <2>7, <2>8 DEF Sound
<1>. QED  BY <1>6, <1>7

\* A flag without a load, as a hit or a fall finds it, is cleared; with the
\* hookshot in hand it stays.
LEMMA StanceIs ==
  ASSUME NEW l, Stance(l)
  PROVE  \/ Settled(l)
         \/ Bare(l)
         \/ /\ l.carrying /\ l.held # NULL /\ l.ia = "hookshot" /\ l.id = "none"
            /\ (l.changing /\ l.upper = "ready") \/ (~l.changing /\ l.upper = "change")
  BY DEF Stance, Leftover, PuttingAway, Reaching, Bare

\* A hit or a fall leaves Link's hands in order.
LEMMA DisturbSound ==
  ASSUME NEW w \in Worlds, NEW b, NEW in \in Ins, Sound(w, b), Stance(w.l), NoOffer(w.l)
  PROVE  LET u == Disturb(w, in)
         IN  /\ u \in Worlds /\ Sound(u, b) /\ Stance(u.l) /\ NoOffer(u.l)
             /\ u.l.act \in {"free", "air"} => u.a = w.a /\ u.use = w.use
             /\ u.l.act = "putaway" => u = w
<1>0. "hurt" \in Actions /\ "air" \in Actions /\ FALSE \in BOOLEAN
  BY DEF Actions
<1>. DEFINE v(act) == [w EXCEPT !.l.act = act]
<1>1. \A act \in {"hurt", "air"} :
        /\ v(act) \in Worlds /\ Sound(v(act), b) /\ v(act).a = w.a /\ v(act).l.act = act
        /\ (Settled(w.l) <=> Settled(v(act).l)) /\ (NoOffer(w.l) <=> NoOffer(v(act).l))
        /\ v(act).l.held = w.l.held /\ v(act).l.carrying = w.l.carrying /\ v(act).l.ia = w.l.ia
        /\ v(act).l.id = w.l.id /\ v(act).l.changing = w.l.changing /\ v(act).l.upper = w.l.upper
        /\ v(act).use = w.use
  <2>1. ASSUME NEW act \in {"hurt", "air"}
        PROVE  v(act).use = w.use
    BY DEF Worlds
  <2>. QED  BY <1>0, <2>1, ActSound
<1>. HIDE DEF v
<1>. DEFINE kept == /\ w.l.carrying /\ w.l.held # NULL /\ w.l.ia = "hookshot" /\ w.l.id = "none"
                    /\ (w.l.changing /\ w.l.upper = "ready") \/ (~w.l.changing /\ w.l.upper = "change")
<1>2. Settled(w.l) \/ Bare(w.l) \/ kept
  BY StanceIs
<1>3. ASSUME NEW act \in {"hurt", "air"}, kept
      PROVE  Leftover(v(act).l) /\ Stance(v(act).l) /\ StopCarrying(v(act)) = v(act)
  <2>1. Leftover(v(act).l)
    BY <1>1, <1>3 DEF Leftover
  <2>. QED  BY <1>1, <1>3, <2>1, LeftStance DEF StopCarrying
<1>4. CASE in.event = "hit"
  <2>. DEFINE s == SetupAction(w, "hurt", FALSE, in)
  <2>1. Disturb(w, in) = LetGo(s)
    BY <1>4 DEF Disturb
  <2>2. w.l.carrying => s = v("hurt")
    BY <1>0, KeptAction DEF v
  <2>3. CASE Settled(w.l) \/ Bare(w.l)
    <3>. DEFINE u == LetGo(s)
    <3>1. s \in Worlds
      BY <1>0, SetupTyped
    <3>2. Sound(s, b) /\ (Settled(s.l) \/ Bare(s.l)) /\ s.l.act = "hurt"
      <4>1. CASE Settled(w.l)
        BY <1>0, <4>1, SetupSound, Zenon
      <4>2. CASE Bare(w.l)
        BY <1>1, <2>2, <4>2 DEF Bare
      <4>. QED  BY <2>3, <4>1, <4>2
    <3>. HIDE DEF s
    <3>3. u \in Worlds /\ Sound(u, b) /\ Settled(u.l) /\ u.l.act = "hurt" /\ u.l.ia # "bomb"
      BY <3>1, <3>2, LetGoSound
    <3>. HIDE DEF u
    <3>4. Stance(u.l) /\ NoOffer(u.l)
      BY <3>3, SettledStance DEF NoOffer
    <3>. QED  BY <2>1, <3>3, <3>4 DEF u
  <2>4. CASE kept
    <3>1. s = v("hurt")
      BY <2>2, <2>4
    <3>2. LetGo(v("hurt")) = v("hurt")
      BY <1>1, <1>3, <2>4 DEF LetGo, DetachHeldActor, HoldsNoBomb, HoldsHookshot
    <3>3. Stance(v("hurt").l) /\ NoOffer(v("hurt").l)
      BY <1>1, <1>3, <2>4 DEF NoOffer
    <3>. QED  BY <1>1, <2>1, <3>1, <3>2, <3>3
  <2>. QED  BY <1>2, <2>3, <2>4
<1>5. CASE in.event = "fall"
  <2>. DEFINE u == StopCarrying(v("air"))
  <2>1. Disturb(w, in) = u
    <3>1. SetupAction(w, "air", TRUE, in) = v("air")
      BY <1>0, KeptAction DEF v
    <3>. QED  BY <1>5, <3>1 DEF Disturb, Fallen
  <2>2. CASE Settled(w.l) \/ Bare(w.l)
    <3>1. Settled(v("air").l) \/ Bare(v("air").l)
      BY <1>1, <2>2 DEF Bare
    <3>2. /\ u \in Worlds /\ Sound(u, b) /\ Settled(u.l) /\ u.l.act = "air"
          /\ u.a = w.a /\ u.use = w.use /\ NoOffer(u.l)
      BY <1>1, <3>1, StopSound
    <3>. HIDE DEF u
    <3>. QED  BY <2>1, <3>2, SettledStance
  <2>3. CASE kept
    <3>1. u = v("air") /\ Stance(v("air").l)
      BY <1>3, <2>3
    <3>. HIDE DEF u
    <3>. QED  BY <1>1, <2>1, <3>1
  <2>. QED  BY <1>2, <2>2, <2>3
<1>6. CASE in.event \notin {"hit", "fall"}
  <2>1. Disturb(w, in) = w
    BY <1>6 DEF Disturb
  <2>. QED  BY <2>1
<1>. QED  BY <1>4, <1>5, <1>6

LEMMA EndSound ==
  ASSUME NEW w \in Worlds, NEW b, Sound(w, b), Stance(w.l)
  PROVE  LET u == EndOfUpdate(w) IN Sound(u, b) /\ Stance(u.l) /\ NoOffer(u.l)
<1>. DEFINE u == [w EXCEPT !.l.range = NULL]
<1>1. CASE w.l.carrying
  BY <1>1 DEF EndOfUpdate, NoOffer
<1>2. CASE ~w.l.carrying
  <2>1. EndOfUpdate(w) = u
    BY <1>2 DEF EndOfUpdate
  <2>2. /\ u.a = w.a /\ u.fault = w.fault /\ u.l.range = NULL
        /\ u.l.held = w.l.held /\ u.l.child = w.l.child /\ u.l.parent = w.l.parent
        /\ u.l.carrying = w.l.carrying /\ u.l.ia = w.l.ia /\ u.l.id = w.l.id
        /\ u.l.draw = w.l.draw /\ u.l.act = w.l.act /\ u.l.changing = w.l.changing
        /\ u.l.upper = w.l.upper
    BY DEF Worlds, Links
  <2>. HIDE DEF u
  <2>3. Pointers(u.l, u.a) /\ OneHook(u.l, u.a) /\ Mutual(u.l, u.a) /\ OutIsQuiet(u.l, u.a)
    BY <2>2 DEF Sound, Fit, Grip, Pointers, OneHook, Mutual, OutIsQuiet, HookOut, HookIsOut,
                HoldsHookshot, ChangingOver
  <2>4. Holding(u.l) /\ Drawn(u.l, b) /\ Nocked(u.l, b) /\ Lively(u)
    BY <2>2 DEF Sound, Fit, Grip, Holding, Drawn, Nocked, Aiming, Lively
  <2>5. Stance(u.l) /\ NoOffer(u.l)
    BY <1>2, <2>2 DEF Stance, Settled, Leftover, Reaching, PuttingAway, NoOffer, ChangingOver
  <2>. QED  BY <2>1, <2>2, <2>3, <2>4, <2>5 DEF Sound, Fit, Grip
<1>. QED  BY <1>1, <1>2

LEMMA UpdateSound ==
  ASSUME NEW w \in Worlds, NEW in \in Ins, button \in Buttons, Fit(w, button), Stance(w.l),
         NoOffer(w.l), BombFits(w.a), ~w.use, w.busy = FALSE
  PROVE  LET u == PlayerUpdated(w, in) IN Sound(u, button) /\ Stance(u.l) /\ NoOffer(u.l)
<1>. DEFINE x == DropDead(w)
            y == Disturb(x, in)
            z == ActionFunc(y, in)
<1>1. /\ x \in Worlds /\ Sound(x, button) /\ Stance(x.l) /\ NoOffer(x.l)
      /\ Frees(w.a, x.a) /\ x.l.act = w.l.act /\ x.use = w.use
      /\ w.l.act = "putaway" => x.busy = w.busy
  BY DropDeadSound
<1>. HIDE DEF x
<1>2. /\ y \in Worlds /\ Sound(y, button) /\ Stance(y.l) /\ NoOffer(y.l)
      /\ y.l.act \in {"free", "air"} => y.a = x.a /\ y.use = x.use
      /\ y.l.act = "putaway" => y = x
  BY <1>1, DisturbSound
<1>. HIDE DEF y
<1>3. y.l.act \in {"free", "air"} => BombFits(y.a) /\ ~y.use
  BY <1>1, <1>2, SameFits
<1>4. y.l.act = "putaway" => ~y.use /\ y.busy = FALSE
  BY <1>1, <1>2
<1>5. z \in Worlds /\ Sound(z, button) /\ Stance(z.l)
  BY <1>2, <1>3, <1>4, ActionSound, ActionTyped
<1>6. PlayerUpdated(w, in) = EndOfUpdate(z)
  BY DEF PlayerUpdated, x, y
<1>. HIDE DEF z
<1>. QED  BY <1>5, <1>6, EndSound

-----------------------------------------------------------------------------
(* The host's steps.                                                       *)

LEMMA WorldIs ==
  ASSUME NEW l
  PROVE  /\ World(l).l = l /\ World(l).a = actors /\ World(l).fault = fault
         /\ ~World(l).use /\ World(l).busy = FALSE
  BY DEF World

\* What a step leaves in the variables.
LEMMA HandsOf ==
  ASSUME NEW u, NEW b, Fit(u, b), Stance(u.l), NoOffer(u.l), Sets(u), button' = b, Visits'
  PROVE  Hands'
<1>1. link' = u.l /\ actors' = u.a /\ fault' = u.fault
  BY DEF Sets
<1>. QED  BY <1>1 DEF Hands, Fit, Grip

\* A host that waits until Link is at rest asks for nothing that cannot be had.
LEMMA HostUses ==
  ASSUME TypeOK, Hands, PatientHost, BombFits(actors), NEW id \in Buttons, HostUseItem(id)
  PROVE  Hands'
<1>. DEFINE w == World(link)
            u == UseItem(w, id, TRUE)
<1>1. /\ link.act = "free" /\ ~link.changing /\ ~ChangingOver(link)
      /\ ItemToAction(link.id) = link.ia /\ ~HookIsOut(link) /\ turn = "host"
      /\ link.carrying => link.held # NULL
  BY DEF HostUseItem, HandsAtRest
<1>2. w \in Worlds /\ link \in Links
  BY WorldTyped, TypeParts
<1>3. w.l = link /\ w.a = actors /\ w.fault = fault
  BY WorldIs
<1>4. id \in Ids /\ ItemToAction(id) = id
  BY DEF Buttons, Ids, Items, ItemToAction
<1>5. Settled(link) /\ NoOffer(link)
  BY <1>1 DEF Hands, Stance, Leftover, ChangingOver
<1>. HIDE DEF w
<1>6. Fit(w, id) /\ ~HookOut(w.l, w.a)
  <2>1. Drawn(link, id) /\ Nocked(link, id)
    BY <1>1 DEF Hands, Drawn, Nocked
  <2>2. ~HookOut(link, actors)
    BY <1>1 DEF HookOut, HookIsOut, Hands, OneHook
  <2>. QED  BY <1>3, <2>1, <2>2 DEF Hands, Fit, Grip
<1>7. Fit(u, id) /\ Settled(u.l) /\ NoOffer(u.l) /\ u.l.act = "free"
  <2>1. CASE link.ia = "bomb" /\ id = "bomb" /\ link.held = NULL
    <3>1. link.range = NULL
      BY <1>5, <2>1 DEF NoOffer, Settled
    <3>2. Sound(w, id)
      BY <1>3, <1>6, <2>1, <3>1 DEF Sound, Lively
    <3>3. Asks(w, id, id)
      BY <1>3, <1>4, <1>6, <2>1 DEF Asks
    <3>4. Uses(w, u, id, id)
      BY <1>2, <1>3, <1>4, <1>5, <3>2, <3>3, UseItemSound
    <3>. QED  BY <1>1, <1>3, <1>5, <3>4 DEF Uses, Sound
  <2>2. CASE id = link.ia /\ (id = "bomb" => link.held # NULL)
    <3>1. u \in {w, UseHeldItem(w)}
      BY <1>3, <1>4, <2>2 DEF UseItem, UseNone
    <3>2. UseHeldItem(w).l = w.l /\ UseHeldItem(w).a = w.a /\ UseHeldItem(w).fault = w.fault
      BY <1>2 DEF UseHeldItem, Worlds
    <3>3. u.l = w.l /\ u.a = w.a /\ u.fault = w.fault
      BY <3>1, <3>2
    <3>. QED  BY <1>1, <1>3, <1>5, <1>6, <3>3 DEF Fit, Grip
  <2>3. CASE id # link.ia
    <3>1. id # link.id
      BY <1>1, <1>4, <2>3
    <3>2. u \in {w, Announce(w, id)}
      BY <1>3, <1>4, <2>3, <3>1 DEF UseItem, UseNone
    <3>3. /\ Fit(Announce(w, id), id) /\ Settled(Announce(w, id).l) /\ NoOffer(Announce(w, id).l)
          /\ Announce(w, id).l.act = "free"
      BY <1>1, <1>2, <1>3, <1>4, <1>5, <1>6, <2>3, AnnounceFit
    <3>. QED  BY <1>1, <1>3, <1>5, <1>6, <3>2, <3>3
  <2>. QED  BY <2>1, <2>2, <2>3
<1>8. Sets(u) /\ button' = id /\ Visits'
  BY <1>1 DEF HostUseItem, Hands, Visits, w
<1>9. Stance(u.l)
  BY <1>7 DEF Stance
<1>. QED  BY <1>7, <1>8, <1>9, HandsOf

\* One actor changes: what Link's pointers ask of it, and what it may not become.
LEMMA ActorChanges ==
  ASSUME NEW l \in Links, NEW a \in [Slot -> Actor], NEW s \in Slot, NEW x \in Actor,
         NEW c, c = [a EXCEPT ![s] = x],
         Pointers(l, a), OneHook(l, a), Mutual(l, a), OutIsQuiet(l, a),
         s = l.held \/ s = l.range => x.kind = a[s].kind,
         s = l.held /\ HoldsHookshot(l) => x.phase = "wait" /\ x.parent,
         s = l.parent => /\ LiveHook(c, s) /\ x.parent /\ x.pulls
                         /\ x.phase = "back" \/ (x.phase = "shoot" /\ x.timer = 0),
         LiveHook(c, s) => LiveHook(a, s),
         Believes(c, s) => /\ x.kind = a[s].kind
                           /\ Believes(a, s) \/ (x.kind = "hookshot" /\ HookIsOut(l))
  PROVE  Pointers(l, c) /\ OneHook(l, c) /\ Mutual(l, c) /\ OutIsQuiet(l, c)
<1>1. c[s] = x /\ \A t \in Slot : t # s => c[t] = a[t]
  OBVIOUS
<1>2. Pointers(l, c)
  BY <1>1 DEF Pointers, LiveHook
<1>3. \A t \in Slot : LiveHook(c, t) => LiveHook(a, t)
  BY <1>1 DEF LiveHook
<1>4. OneHook(l, c) /\ OutIsQuiet(l, c)
  BY <1>3 DEF OneHook, OutIsQuiet, HookOut
<1>5. Mutual(l, c)
  BY <1>1 DEF Mutual, Believes
<1>. QED  BY <1>2, <1>4, <1>5

\* A bomb of the host's own is nobody's.
LEMMA HostSpawns ==
  ASSUME TypeOK, Hands, HostSpawnBomb
  PROVE  Hands'
<1>. DEFINE s == SpawnSlot(actors)
            x == [Fresh("bomb") EXCEPT !.parent = FALSE]
<1>1. /\ s \in Slot /\ actors[s] = NoActor /\ link \in Links /\ actors \in [Slot -> Actor]
  BY SpawnFinds, Pointing, TypeParts DEF HostSpawnBomb
<1>2. x \in Actor /\ x.kind = "bomb" /\ ~x.parent
  BY FreshTyped DEF Actor
<1>3. actors' = [actors EXCEPT ![s] = x] /\ link' = link /\ fault' = fault /\ button' = button
      /\ turn' = turn /\ todo' = todo /\ turn = "host"
  BY DEF HostSpawnBomb
<1>. HIDE DEF s, x
<1>4. s # link.held /\ s # link.range /\ s # link.parent
  BY <1>1, Pointing DEF Hands, Pointers, LiveHook, NoActor
<1>5. ~LiveHook(actors', s) /\ ~Believes(actors', s)
  BY <1>1, <1>2, <1>3 DEF LiveHook, Believes, NoActor
<1>6. /\ Pointers(link, actors') /\ OneHook(link, actors') /\ Mutual(link, actors')
      /\ OutIsQuiet(link, actors')
  BY <1>1, <1>2, <1>3, <1>4, <1>5, ActorChanges DEF Hands
<1>7. Visits'
  BY <1>3 DEF Hands, Visits
<1>. QED  BY <1>3, <1>6, <1>7 DEF Hands

\* Player_Update.
LEMMA PlayerUpdates ==
  ASSUME TypeOK, Hands, BombFits(actors), PlayerUpdate
  PROVE  Hands'
<1>1. PICK in \in Inputs(link), shot \in {FALSE, link.shot} :
        Sets(PlayerUpdated(World([link EXCEPT !.shot = shot]), in))
  BY DEF PlayerUpdate
<1>. DEFINE l == [link EXCEPT !.shot = shot]
            w == World(l)
            u == PlayerUpdated(w, in)
<1>2. /\ link \in Links /\ l \in Links /\ button \in Buttons
      /\ l.held = link.held /\ l.child = link.child /\ l.range = link.range
      /\ l.parent = link.parent /\ l.carrying = link.carrying /\ l.ia = link.ia
      /\ l.id = link.id /\ l.draw = link.draw /\ l.act = link.act
      /\ l.changing = link.changing /\ l.upper = link.upper
  BY TypeParts DEF Links
<1>. HIDE DEF l
<1>3. w \in Worlds /\ in \in Ins
  BY <1>2, WorldTyped, InputTyped
<1>4. w.l = l /\ w.a = actors /\ w.fault = fault /\ ~w.use /\ w.busy = FALSE
  BY WorldIs
<1>. HIDE DEF w
<1>5. Fit(w, button)
  <2>1. Pointers(l, actors) /\ OneHook(l, actors) /\ Mutual(l, actors) /\ OutIsQuiet(l, actors)
    BY <1>2 DEF Hands, Pointers, OneHook, Mutual, OutIsQuiet, HookOut, HookIsOut, HoldsHookshot,
                ChangingOver
  <2>2. Holding(l) /\ Drawn(l, button) /\ Nocked(l, button)
    BY <1>2 DEF Hands, Holding, Drawn, Nocked, Aiming
  <2>. QED  BY <1>4, <2>1, <2>2 DEF Hands, Fit, Grip
<1>6. Stance(w.l) /\ NoOffer(w.l)
  BY <1>2, <1>4 DEF Hands, Stance, Settled, Leftover, Reaching, PuttingAway, NoOffer, ChangingOver
<1>7. Sound(u, button) /\ Stance(u.l) /\ NoOffer(u.l)
  BY <1>2, <1>3, <1>4, <1>5, <1>6, UpdateSound
<1>8. Sets(u) /\ button' = button /\ turn' = "actors" /\ todo' = {s \in Slot : actors'[s] # NoActor}
  BY <1>1 DEF PlayerUpdate, w, l
<1>. HIDE DEF u
<1>9. Visits'
  <2>1. link' = u.l /\ actors' = u.a
    BY <1>8 DEF Sets
  <2>2. \A s \in Slot : actors'[s].phase = "dead" => s # link'.held /\ s # link'.range
    BY <1>7, <2>1, Pointing DEF Sound, Lively
  <2>. QED  BY <1>8, <2>2 DEF Visits
<1>. QED  BY <1>7, <1>8, <1>9, HandsOf DEF Sound

-----------------------------------------------------------------------------
(* The actors' steps.                                                      *)

\* An actor that has been visited is not visited again.
LEMMA VisitKept ==
  ASSUME TypeOK, Visits, NEW s \in Slot, Visit(s), NEW x, Becomes(s, x),
         link'.held \in {link.held, s, NULL}, link'.range \in {link.range, s, NULL}
  PROVE  Visits'
<1>1. /\ turn' = "actors" /\ todo' = todo \ {s} /\ todo \subseteq Slot
      /\ actors' = [actors EXCEPT ![s] = x] /\ actors \in [Slot -> Actor]
  BY TypeParts DEF Visit, Becomes
<1>2. ASSUME NEW t \in todo'
      PROVE  actors'[t] = actors[t] /\ t \in todo /\ t # s /\ t # NULL
  BY <1>1, <1>2, Pointing
<1>. QED  BY <1>1, <1>2 DEF Visits

\* A step of an actor that leaves Link alone.
LEMMA ActorStep ==
  ASSUME TypeOK, Hands, NEW s \in Slot, NEW x \in Actor, Visit(s), Becomes(s, x), link' = link,
         s = link.held \/ s = link.range => x.kind = actors[s].kind,
         s = link.held /\ HoldsHookshot(link) => x.phase = "wait" /\ x.parent,
         s = link.parent => /\ x.kind = "hookshot" /\ x.parent /\ x.pulls
                            /\ x.phase = "back" \/ (x.phase = "shoot" /\ x.timer = 0),
         x.kind = "hookshot" /\ x.phase # "dead" => LiveHook(actors, s),
         x.parent /\ x.phase # "dead" =>
           /\ x.kind = actors[s].kind
           /\ Believes(actors, s) \/ (x.kind = "hookshot" /\ HookIsOut(link))
  PROVE  Hands'
<1>1. /\ actors' = [actors EXCEPT ![s] = x] /\ actors \in [Slot -> Actor] /\ link \in Links
      /\ button' = button /\ fault' = fault /\ actors'[s] = x
  BY TypeParts DEF Visit, Becomes
<1>2. LiveHook(actors', s) <=> x.kind = "hookshot" /\ x.phase # "dead"
  BY <1>1 DEF LiveHook
<1>3. Believes(actors', s) <=> x.parent /\ x.phase # "dead"
  BY <1>1 DEF Believes
<1>4. /\ Pointers(link, actors') /\ OneHook(link, actors') /\ Mutual(link, actors')
      /\ OutIsQuiet(link, actors')
  BY <1>1, <1>2, <1>3, ActorChanges DEF Hands
<1>5. Visits'
  BY VisitKept DEF Hands
<1>. QED  BY <1>1, <1>4, <1>5 DEF Hands

\* What Link and a live hookshot know of each other.
LEMMA HookKnown ==
  ASSUME TypeOK, Hands, NEW s \in Slot, LiveHook(actors, s)
  PROVE  /\ HoldsHookshot(link) /\ link.held \in {NULL, s} /\ s # link.range
         /\ link.parent \in {NULL, s}
         /\ actors[s].phase # "wait" \/ ~actors[s].parent => HookIsOut(link) /\ s # link.held
         /\ link.parent = s => /\ actors[s].parent /\ actors[s].pulls
                              /\ \/ actors[s].phase = "back"
                                 \/ actors[s].phase = "shoot" /\ actors[s].timer = 0
<1>1. HoldsHookshot(link) /\ link.held \in {NULL, s} /\ s # link.range /\ s # NULL
  BY Pointing DEF Hands, OneHook, Pointers, LiveHook
<1>2. actors[s].phase # "wait" \/ ~actors[s].parent => s # link.held
  BY <1>1 DEF Hands, Pointers
<1>3. link.parent \in {NULL, s}
  <2>1. link.parent \in Pointer
    BY TypeParts DEF Links
  <2>. QED  BY <2>1, Pointing DEF Hands, Pointers, OneHook
<1>4. link.parent = s => /\ actors[s].parent /\ actors[s].pulls
                         /\ \/ actors[s].phase = "back"
                            \/ actors[s].phase = "shoot" /\ actors[s].timer = 0
  BY <1>1 DEF Hands, Pointers
<1>. QED  BY <1>1, <1>2, <1>3, <1>4 DEF HookIsOut

LEMMA Reaped ==
  ASSUME TypeOK, Hands, NEW s \in Slot, Reap(s)
  PROVE  Hands'
<1>1. Visit(s) /\ actors[s].phase = "dead" /\ Becomes(s, NoActor) /\ link' = link /\ s \in todo
  BY DEF Reap, Visit
<1>2. s # link.held /\ s # link.range /\ s # link.parent
  BY <1>1, Pointing DEF Hands, Visits, Pointers, LiveHook
<1>3. NoActor \in Actor /\ NoActor.kind = "none" /\ ~NoActor.parent
  BY NowhereTyped DEF NoActor
<1>. QED  BY <1>1, <1>2, <1>3, ActorStep

\* A bomb is no hookshot, so nothing else of Link's leads to it.
LEMMA BombKnown ==
  ASSUME TypeOK, Hands, NEW s \in Slot, actors[s].kind = "bomb"
  PROVE  /\ s # link.parent /\ ~LiveHook(actors, s)
         /\ s = link.held => ~HoldsHookshot(link)
<1>1. s # NULL
  BY Pointing
<1>. QED  BY <1>1 DEF Hands, Pointers, LiveHook

LEMMA Burns ==
  ASSUME TypeOK, Hands, NEW s \in Slot, BombBurns(s)
  PROVE  Hands'
<1>. DEFINE b == actors[s]
<1>1. Visit(s) /\ b.kind = "bomb" /\ b.phase # "dead" /\ b \in Actor /\ Ticked(s) \in Timers
  BY TypeParts, Clocks DEF BombBurns, Alive, Ticked, Actor
<1>2. PICK x \in Actor : /\ Becomes(s, x) /\ x.kind = "bomb" /\ x.parent = b.parent
  <2>. DEFINE e == [b EXCEPT !.phase = "explode", !.timer = Burst]
              m(p) == [b EXCEPT !.timer = Ticked(s), !.phase = p]
  <2>1. /\ e \in Actor /\ e.kind = "bomb" /\ e.parent = b.parent
        /\ \A p \in {"dead", "move", "held"} :
             m(p) \in Actor /\ m(p).kind = "bomb" /\ m(p).parent = b.parent
    BY <1>1, Clocks DEF Actor
  <2>2. Becomes(s, e) \/ \E p \in {"dead", "move", "held"} : Becomes(s, m(p))
    BY DEF BombBurns
  <2>. QED  BY <2>1, <2>2
<1>3. /\ link' = link \/ (link' = [link EXCEPT !.range = s] /\ link.ia # "bomb" /\ ~link.carrying)
      /\ link \in Links /\ actors \in [Slot -> Actor]
  BY TypeParts DEF BombBurns, Offered
<1>4. CASE link' = link
  BY <1>1, <1>2, <1>4, ActorStep, BombKnown DEF Believes
<1>5. CASE link' = [link EXCEPT !.range = s] /\ link.ia # "bomb" /\ ~link.carrying
  <2>1. actors' = [actors EXCEPT ![s] = x] /\ button' = button /\ fault' = fault
    BY <1>1, <1>2 DEF Becomes, Visit
  <2>2. /\ Pointers(link, actors') /\ OneHook(link, actors') /\ Mutual(link, actors')
        /\ OutIsQuiet(link, actors')
    <3>1. actors'[s] = x
      BY <1>3, <2>1
    <3>2. ~LiveHook(actors', s) /\ (Believes(actors', s) => Believes(actors, s))
      BY <1>1, <1>2, <3>1 DEF LiveHook, Believes
    <3>3. s # link.parent /\ (s = link.held => ~HoldsHookshot(link))
      BY <1>1, BombKnown
    <3>. QED  BY <1>1, <1>2, <1>3, <2>1, <3>2, <3>3, ActorChanges DEF Hands
  <2>3. /\ link'.range = s /\ link'.held = link.held /\ link'.child = link.child
        /\ link'.parent = link.parent /\ link'.carrying = link.carrying /\ link'.ia = link.ia
        /\ link'.id = link.id /\ link'.draw = link.draw /\ link'.act = link.act
        /\ link'.changing = link.changing /\ link'.upper = link.upper
    BY <1>3, <1>5 DEF Links
  <2>4. actors'[s].kind = "bomb"
    BY <1>2, <1>3, <2>1
  <2>5. /\ Pointers(link', actors') /\ OneHook(link', actors') /\ Mutual(link', actors')
        /\ OutIsQuiet(link', actors')
    BY <2>2, <2>3, <2>4 DEF Pointers, OneHook, Mutual, OutIsQuiet, HookOut, HookIsOut,
                            HoldsHookshot, ChangingOver
  <2>6. Holding(link') /\ Drawn(link', button') /\ Nocked(link', button')
    BY <2>1, <2>3 DEF Hands, Holding, Drawn, Nocked, Aiming
  <2>7. Stance(link') /\ NoOffer(link')
    BY <1>5, <2>3 DEF Hands, Stance, Settled, Leftover, Reaching, PuttingAway, NoOffer, ChangingOver
  <2>8. Visits'
    BY <1>1, <1>2, <2>3, VisitKept DEF Hands
  <2>. QED  BY <2>1, <2>5, <2>6, <2>7, <2>8 DEF Hands
<1>. QED  BY <1>3, <1>4, <1>5

LEMMA Explodes ==
  ASSUME TypeOK, Hands, NEW s \in Slot, BombExplodes(s)
  PROVE  Hands'
<1>. DEFINE b == actors[s]
            d == [b EXCEPT !.phase = "dead"]
            l == [link EXCEPT !.child = NULL, !.held = NULL, !.range = NULL, !.carrying = FALSE]
<1>1. /\ Visit(s) /\ b.kind = "bomb" /\ b.phase # "dead" /\ b \in Actor /\ Ticked(s) \in Timers
      /\ link \in Links /\ actors \in [Slot -> Actor]
  BY TypeParts, Clocks DEF BombExplodes, Alive, Ticked, Actor
<1>2. d \in Actor /\ d.kind = "bomb" /\ d.phase = "dead"
  BY <1>1 DEF Actor
<1>3. CASE Becomes(s, [b EXCEPT !.timer = Ticked(s)]) /\ link' = link
  <2>. DEFINE x == [b EXCEPT !.timer = Ticked(s)]
  <2>1. x \in Actor /\ x.kind = "bomb" /\ x.parent = b.parent
    BY <1>1 DEF Actor
  <2>. HIDE DEF x
  <2>. QED  BY <1>1, <1>3, <2>1, ActorStep, BombKnown DEF Believes, x
<1>4. CASE Becomes(s, d) /\ link' = link
  <2>. HIDE DEF d
  <2>. QED  BY <1>1, <1>2, <1>4, ActorStep, BombKnown
<1>5. CASE Becomes(s, d) /\ link' = l /\ link.carrying /\ link.held = s
  <2>1. actors' = [actors EXCEPT ![s] = d] /\ button' = button /\ fault' = fault
    BY <1>1, <1>5 DEF Becomes, Visit
  <2>. HIDE DEF d
  <2>2. /\ link'.range = NULL /\ link'.held = NULL /\ link'.child = NULL
        /\ link'.parent = link.parent /\ ~link'.carrying /\ link'.ia = link.ia
        /\ link'.id = link.id /\ link'.draw = link.draw /\ link'.act = link.act
        /\ link'.changing = link.changing /\ link'.upper = link.upper
    BY <1>1, <1>5 DEF Links
  <2>3. s # NULL /\ ~HoldsHookshot(link) /\ link.parent = NULL
    BY <1>1, <1>5, BombKnown, Pointing DEF Hands, Pointers, HookIsOut
  <2>4. \A t \in Slot : ~LiveHook(actors', t) /\ ~Believes(actors', t)
    <3>1. \A t \in Slot : ~LiveHook(actors, t) /\ (Believes(actors, t) => t = s)
      BY <1>5, <2>3 DEF Hands, OneHook, Mutual, HookIsOut
    <3>. QED  BY <1>1, <1>2, <2>1, <3>1 DEF LiveHook, Believes
  <2>5. /\ Pointers(link', actors') /\ OneHook(link', actors') /\ Mutual(link', actors')
        /\ OutIsQuiet(link', actors')
    BY <2>2, <2>3, <2>4 DEF Pointers, OneHook, Mutual, OutIsQuiet, HookOut
  <2>6. Holding(link') /\ Drawn(link', button') /\ Nocked(link', button')
    BY <2>1, <2>2 DEF Hands, Holding, Drawn, Nocked, Aiming
  <2>7. link.act \notin {"putaway", "lift"}
    BY <1>5, <2>3 DEF Hands, Stance, PuttingAway, Reaching, HoldsHookshot
  <2>8. Stance(link') /\ NoOffer(link')
    BY <2>2, <2>7 DEF Hands, Stance, Settled, NoOffer
  <2>9. Visits'
    BY <1>1, <1>5, <2>2, VisitKept DEF Hands
  <2>. QED  BY <2>1, <2>5, <2>6, <2>8, <2>9 DEF Hands
<1>. QED  BY <1>3, <1>4, <1>5 DEF BombExplodes, Kill

LEMMA Waits ==
  ASSUME TypeOK, Hands, NEW s \in Slot, HookWaits(s)
  PROVE  Hands'
<1>. DEFINE b == actors[s]
            x == [b EXCEPT !.phase = "shoot", !.parent = TRUE, !.timer = Reach]
<1>1. Visit(s) /\ LiveHook(actors, s) /\ b.phase = "wait" /\ b \in Actor /\ link' = link
  BY TypeParts DEF HookWaits, Alive, LiveHook
<1>2. x \in Actor /\ x.kind = b.kind /\ x.phase = "shoot" /\ x.parent
  BY <1>1, Clocks DEF Actor
<1>3. CASE b.parent /\ Becomes(s, b)
  BY <1>1, <1>3, HookKnown, ActorStep DEF Believes, LiveHook
<1>4. CASE ~b.parent /\ Becomes(s, x)
  <2>1. s # link.held /\ s # link.range /\ s # link.parent /\ HookIsOut(link)
    BY <1>1, <1>4, HookKnown
  <2>. HIDE DEF x
  <2>. QED  BY <1>1, <1>2, <1>4, <2>1, ActorStep DEF LiveHook
<1>. QED  BY <1>3, <1>4 DEF HookWaits, Stays

LEMMA Flies ==
  ASSUME TypeOK, Hands, NEW s \in Slot, Visit(s), LiveHook(actors, s), actors[s].phase # "wait",
         actors[s].parent, HookFlies(s)
  PROVE  Hands'
<1>. DEFINE b == actors[s]
            on == [b EXCEPT !.timer = Ticked(s)]
            x(p) == [b EXCEPT !.timer = 0, !.pulls = p]
<1>1. /\ b.phase = "shoot" /\ b.timer > 0 /\ b \in Actor /\ Ticked(s) \in Timers
      /\ actors \in [Slot -> Actor] /\ link \in Links
  BY TypeParts, Clocks DEF HookFlies, Ticked, Actor
<1>2. s # link.held /\ s # link.range /\ s # link.parent /\ HookIsOut(link)
  <2>1. b.timer # 0
    BY <1>1 DEF Actor, Timers
  <2>. QED  BY <1>1, <2>1, HookKnown
<1>3. CASE Becomes(s, on) /\ link' = link
  <2>1. on \in Actor /\ on.kind = "hookshot" /\ on.phase # "dead"
    BY <1>1 DEF Actor, LiveHook
  <2>. HIDE DEF on
  <2>. QED  BY <1>2, <1>3, <2>1, ActorStep DEF LiveHook
<1>4. CASE Becomes(s, x(FALSE)) /\ link' = link
  <2>. DEFINE y == x(FALSE)
  <2>1. y \in Actor /\ y.kind = "hookshot" /\ y.phase # "dead"
    BY <1>1, Clocks DEF Actor, LiveHook
  <2>2. Becomes(s, y)
    BY <1>4
  <2>. HIDE DEF y
  <2>. QED  BY <1>2, <1>4, <2>1, <2>2, ActorStep DEF LiveHook
<1>5. CASE Becomes(s, x(TRUE)) /\ link' = [link EXCEPT !.parent = s]
  <2>. DEFINE y == x(TRUE)
  <2>1. /\ y \in Actor /\ y.kind = "hookshot" /\ y.phase = "shoot" /\ y.timer = 0 /\ y.pulls
        /\ y.parent
    BY <1>1, Clocks DEF Actor, LiveHook
  <2>2. Becomes(s, y)
    BY <1>5
  <2>. HIDE DEF y
  <2>3. actors' = [actors EXCEPT ![s] = y] /\ button' = button /\ fault' = fault
    BY <2>2 DEF Becomes, Visit
  <2>4. /\ Pointers(link, actors') /\ OneHook(link, actors') /\ Mutual(link, actors')
        /\ OutIsQuiet(link, actors')
    BY <1>1, <1>2, <2>1, <2>3, ActorChanges DEF Hands, LiveHook
  <2>5. /\ link'.range = link.range /\ link'.held = link.held /\ link'.child = link.child
        /\ link'.parent = s /\ link'.carrying = link.carrying /\ link'.ia = link.ia
        /\ link'.id = link.id /\ link'.draw = link.draw /\ link'.act = link.act
        /\ link'.changing = link.changing /\ link'.upper = link.upper
    BY <1>1, <1>5 DEF Links
  <2>6. actors'[s] = y
    BY <1>1, <2>3
  <2>7. /\ Pointers(link', actors') /\ OneHook(link', actors') /\ Mutual(link', actors')
        /\ OutIsQuiet(link', actors')
    BY <1>2, <2>1, <2>4, <2>5, <2>6
    DEF Pointers, OneHook, Mutual, OutIsQuiet, HookOut, HookIsOut, HoldsHookshot, ChangingOver,
        LiveHook
  <2>8. Holding(link') /\ Drawn(link', button') /\ Nocked(link', button')
    BY <2>3, <2>5 DEF Hands, Holding, Drawn, Nocked, Aiming
  <2>9. Stance(link') /\ NoOffer(link')
    BY <2>5 DEF Hands, Stance, Settled, Leftover, Reaching, PuttingAway, NoOffer, ChangingOver
  <2>10. Visits'
    BY <2>2, <2>5, VisitKept DEF Hands
  <2>. QED  BY <2>3, <2>7, <2>8, <2>9, <2>10 DEF Hands
<1>. QED  BY <1>3, <1>4, <1>5 DEF HookFlies

LEMMA Returns ==
  ASSUME TypeOK, Hands, NEW s \in Slot, Visit(s), LiveHook(actors, s), actors[s].phase # "wait",
         actors[s].parent, HookReturns(s)
  PROVE  Hands'
<1>. DEFINE b == actors[s]
            x == [b EXCEPT !.phase = "back", !.timer = 0]
            y == [b EXCEPT !.phase = "wait", !.timer = 0, !.pulls = FALSE]
<1>1. /\ b \in Actor /\ b.kind = "hookshot" /\ b.parent
      /\ actors \in [Slot -> Actor] /\ link \in Links
  BY TypeParts DEF LiveHook
<1>2. /\ s # link.held /\ s # link.range /\ HookIsOut(link) /\ link.parent \in {NULL, s}
      /\ link.parent = s => b.pulls
  BY HookKnown
<1>3. CASE Becomes(s, x) /\ link' = link
  <2>1. /\ x \in Actor /\ x.kind = "hookshot" /\ x.phase = "back" /\ x.parent /\ x.pulls = b.pulls
    BY <1>1, Clocks DEF Actor
  <2>. HIDE DEF x
  <2>. QED  BY <1>1, <1>2, <1>3, <2>1, ActorStep
<1>4. CASE Becomes(s, y) /\ link' = HandedBack(s)
  <2>1. y \in Actor /\ y.kind = "hookshot" /\ y.phase = "wait" /\ y.parent
    BY <1>1, Clocks DEF Actor
  <2>. HIDE DEF y
  <2>2. actors' = [actors EXCEPT ![s] = y] /\ button' = button /\ fault' = fault /\ actors'[s] = y
    BY <1>1, <1>4 DEF Becomes, Visit
  <2>3. /\ link'.range = link.range /\ link'.held = s /\ link'.child = s
        /\ link'.parent = NULL /\ link'.carrying = link.carrying /\ link'.ia = link.ia
        /\ link'.id = link.id /\ link'.draw = link.draw /\ link'.act = link.act
        /\ link'.changing = link.changing /\ link'.upper = link.upper
    BY <1>1, <1>2, <1>4 DEF Links, HandedBack
  <2>4. s # NULL /\ HoldsHookshot(link) /\ link.held = NULL
    BY <1>2, Pointing DEF HookIsOut
  <2>5. \A t \in Slot : t # s => actors'[t] = actors[t] /\ ~LiveHook(actors, t)
    BY <1>1, <2>2 DEF Hands, OneHook
  <2>6. \A t \in Slot : t # s => ~Believes(actors, t)
    BY <2>4, <2>5, Pointing DEF Hands, Mutual, Believes, LiveHook
  <2>7. Pointers(link', actors')
    BY <1>2, <2>1, <2>2, <2>3, <2>4, <2>5 DEF Hands, Pointers, HoldsHookshot
  <2>8. OneHook(link', actors') /\ Mutual(link', actors') /\ OutIsQuiet(link', actors')
    BY <2>3, <2>4, <2>5, <2>6 DEF OneHook, Mutual, OutIsQuiet, HookOut, LiveHook, Believes,
                                  HoldsHookshot
  <2>9. Holding(link') /\ Drawn(link', button') /\ Nocked(link', button')
    BY <2>2, <2>3, <2>4 DEF Hands, Holding, Drawn, Nocked, Aiming, HoldsHookshot
  <2>10. ~link.carrying
    <3>1. HookOut(link, actors)
      BY <2>4 DEF HookOut
    <3>. QED  BY <3>1 DEF Hands, OutIsQuiet
  <2>11. Stance(link') /\ NoOffer(link')
    BY <2>3, <2>4, <2>10 DEF Hands, Stance, Settled, Leftover, Reaching, PuttingAway, NoOffer, HoldsHookshot
  <2>12. Visits'
    BY <1>4, <2>3, VisitKept DEF Hands
  <2>. QED  BY <2>2, <2>7, <2>8, <2>9, <2>11, <2>12 DEF Hands
<1>. QED  BY <1>3, <1>4 DEF HookReturns

LEMMA OnItsWay ==
  ASSUME TypeOK, Hands, NEW s \in Slot, HookIsOnItsWay(s)
  PROVE  Hands'
<1>. DEFINE d == [actors[s] EXCEPT !.phase = "dead"]
<1>1. /\ Visit(s) /\ LiveHook(actors, s) /\ actors[s].phase # "wait" /\ actors[s] \in Actor
  BY TypeParts DEF HookIsOnItsWay, Alive, LiveHook
<1>2. CASE ~actors[s].parent /\ Becomes(s, d) /\ link' = link
  <2>1. d \in Actor /\ d.kind = actors[s].kind /\ d.phase = "dead"
    BY <1>1 DEF Actor
  <2>2. s # link.held /\ s # link.range /\ s # link.parent
    BY <1>1, <1>2, HookKnown
  <2>. HIDE DEF d
  <2>. QED  BY <1>1, <1>2, <2>1, <2>2, ActorStep
<1>3. HoldsHookshot(link)
  BY <1>1, HookKnown
<1>. QED  BY <1>1, <1>2, <1>3, Flies, Returns DEF HookIsOnItsWay, Kill

\* An arrow is no hookshot either.
LEMMA ArrowStep ==
  ASSUME TypeOK, Hands, NEW s \in Slot, Visit(s), actors[s].kind = "arrow", link' = link,
         NEW x \in Actor, Becomes(s, x), x.kind = "arrow",
         x.parent /\ x.phase # "dead" => Believes(actors, s)
  PROVE  Hands'
<1>1. s # link.parent /\ (s = link.held => ~HoldsHookshot(link))
  <2>1. s # NULL
    BY Pointing
  <2>. QED  BY <2>1 DEF Hands, Pointers, LiveHook
<1>. QED  BY <1>1, ActorStep

LEMMA Nocks ==
  ASSUME TypeOK, Hands, NEW s \in Slot, ArrowNocked(s) \/ ArrowFlies(s)
  PROVE  Hands'
<1>. DEFINE b == actors[s]
<1>1. /\ Visit(s) /\ b.kind = "arrow" /\ b.phase # "dead" /\ b \in Actor /\ link' = link
      /\ Ticked(s) \in Timers
  BY TypeParts, Clocks DEF ArrowNocked, ArrowFlies, Alive, Ticked, Actor
<1>2. PICK x \in Actor : Becomes(s, x) /\ x.kind = "arrow" /\ x.parent = b.parent
  <2>. DEFINE d == [b EXCEPT !.phase = "dead"]
              f == [b EXCEPT !.phase = "fly", !.timer = Flight]
              k == [b EXCEPT !.phase = "stuck", !.timer = Flight]
              o == [b EXCEPT !.timer = Ticked(s)]
  <2>1. \A x \in {b, d, f, k, o} : x \in Actor /\ x.kind = "arrow" /\ x.parent = b.parent
    <3>1. d \in Actor /\ d.kind = "arrow" /\ d.parent = b.parent
      BY <1>1 DEF Actor
    <3>2. f \in Actor /\ f.kind = "arrow" /\ f.parent = b.parent
      BY <1>1, Clocks DEF Actor
    <3>3. k \in Actor /\ k.kind = "arrow" /\ k.parent = b.parent
      BY <1>1, Clocks DEF Actor
    <3>4. o \in Actor /\ o.kind = "arrow" /\ o.parent = b.parent
      BY <1>1 DEF Actor
    <3>. HIDE DEF d, f, k, o
    <3>. QED  BY <1>1, <3>1, <3>2, <3>3, <3>4
  <2>2. \E x \in {b, d, f, k, o} : Becomes(s, x)
    BY DEF ArrowNocked, ArrowFlies, Stays, Kill
  <2>. QED  BY <2>1, <2>2
<1>. QED  BY <1>1, <1>2, ArrowStep DEF Believes

-----------------------------------------------------------------------------
(* The theorems.                                                           *)

\* When it is the host's turn the actor list is not full, or it is so of bombs, and
\* Player_UseItem refuses another.
BombsFit == turn = "host" => BombFits(actors)

\* It is so when the list has room for as many bombs as Link may use beside all
\* hookshots and arrows, whatever the number of the host's bombs: a list that is
\* full then has at least MaxExplosives of them.
Others == {s \in Slot : actors[s] # NoActor} \ Explosives(actors)

LEMMA WideListFits ==
  ASSUME Cardinality(Others) + MaxExplosives <= Slots
  PROVE  BombsFit
<1>1. CASE Room(actors)
  BY <1>1 DEF BombsFit, BombFits
<1>2. CASE ~Room(actors)
  <2>1. IsFiniteSet(Slot) /\ Cardinality(Slot) = Slots /\ Slots \in Nat /\ MaxExplosives \in Nat
    <3>1. Slots \in Nat \ {0} /\ MaxExplosives \in Nat \ {0}
      BY HeldItemsAssumption
    <3>2. /\ IsFiniteSet(1 .. Slots)
          /\ Cardinality(1 .. Slots) = IF 1 > Slots THEN 0 ELSE Slots - 1 + 1
      <4>1. 1 \in Int /\ Slots \in Int
        BY <3>1
      <4>. QED  BY <4>1, FS_Interval
    <3>. QED  BY <3>1, <3>2 DEF Slot
  <2>. DEFINE bombs == Explosives(actors)
  <2>2. bombs \subseteq Slot /\ Others \subseteq Slot
    BY DEF Explosives, Others
  <2>3. IsFiniteSet(bombs) /\ IsFiniteSet(Others)
    BY <2>1, <2>2, FS_Subset
  <2>4. Slot = bombs \cup Others /\ bombs \cap Others = {}
    BY <1>2, <2>2 DEF Room, Others
  <2>. HIDE DEF bombs
  <2>5. Cardinality(Slot) = Cardinality(bombs) + Cardinality(Others)
        /\ Cardinality(bombs) \in Nat /\ Cardinality(Others) \in Nat
    <3>1. Cardinality({}) = 0
      BY FS_EmptySet
    <3>2. Cardinality(bombs) \in Nat /\ Cardinality(Others) \in Nat
      BY <2>3, FS_CardinalityType
    <3>3. Cardinality(bombs \cup Others)
            = Cardinality(bombs) + Cardinality(Others) - Cardinality(bombs \cap Others)
      BY <2>3, FS_Union
    <3>4. Cardinality(bombs \cap Others) = 0
      BY <2>4, <3>1
    <3>5. Cardinality(Slot) = Cardinality(bombs \cup Others)
      BY <2>4
    <3>. QED  BY <3>2, <3>3, <3>4, <3>5
  <2>6. Cardinality(bombs) >= MaxExplosives
    <3>1. Slots = Cardinality(bombs) + Cardinality(Others)
      BY <2>1, <2>5
    <3>. QED  BY <2>1, <2>5, <3>1
  <2>. QED  BY <2>6 DEF bombs, BombsFit, BombFits
<1>. QED  BY <1>1, <1>2

LEMMA HandsStep ==
  ASSUME PatientHost, TypeOK, BombsFit, Hands, [Next]_vars
  PROVE  Hands'
<1>1. CASE UNCHANGED vars
  BY <1>1 DEF vars, Hands, Visits
<1>2. ASSUME NEW id \in Buttons, HostUseItem(id)
      PROVE  Hands'
  BY <1>2, HostUses DEF BombsFit, HostUseItem
<1>3. CASE HostSpawnBomb
  BY <1>3, HostSpawns
<1>4. CASE PlayerUpdate
  BY <1>4, PlayerUpdates DEF BombsFit, PlayerUpdate
<1>5. ASSUME NEW s \in Slot, ActorUpdate(s)
      PROVE  Hands'
  BY <1>5, Reaped, Burns, Explodes, Waits, OnItsWay, Nocks DEF ActorUpdate
<1>6. CASE EndTick
  BY <1>6 DEF EndTick, Hands, Visits
<1>. QED  BY <1>1, <1>2, <1>3, <1>4, <1>5, <1>6 DEF Next, Buttons

LEMMA HandsAtFirst == Init => Hands
<1>. SUFFICES ASSUME Init
              PROVE  Hands
  OBVIOUS
<1>1. /\ link.act = "free" /\ link.upper = "idle" /\ link.ia = "none" /\ ~link.changing
      /\ ~link.carrying /\ link.held = NULL /\ link.child = NULL /\ link.range = NULL
      /\ link.parent = NULL /\ ~fault /\ todo = {}
      /\ \A s \in Slot : actors[s].kind = "none" /\ ~actors[s].parent
  BY DEF Init, NoActor
<1>2. Pointers(link, actors) /\ OneHook(link, actors) /\ Mutual(link, actors) /\ OutIsQuiet(link, actors)
  BY <1>1 DEF Pointers, OneHook, Mutual, OutIsQuiet, HookOut, LiveHook, Believes
<1>3. Holding(link) /\ Drawn(link, button) /\ Nocked(link, button)
  BY <1>1 DEF Holding, Drawn, Nocked, Aiming
<1>4. Stance(link) /\ NoOffer(link) /\ Visits
  BY <1>1 DEF Stance, Settled, NoOffer, Visits
<1>. QED  BY <1>1, <1>2, <1>3, <1>4 DEF Hands

\* The inductive invariant: if the host asks for items only when Link is at
\* rest and a bomb that is not refused finds a place, every step of Player_Update,
\* of the spawned actors and of the host leaves the hands in order, whenever the
\* floor ends under Link or a hit knocks him back.
THEOREM HandsAreKept ==
  PatientHost => (Spec /\ []BombsFit => []Hands)
<1>. SUFFICES ASSUME PatientHost
              PROVE  Spec /\ []BombsFit => []Hands
  OBVIOUS
<1>1. Init => Hands
  BY HandsAtFirst
<1>2. TypeOK /\ BombsFit /\ Hands /\ [Next]_vars => Hands'
  BY HandsStep
<1>. QED  BY <1>1, <1>2, TypeCorrect, PTL DEF Spec

\* So no NULL or freed actor is used (Player_UpperAction_CarryActor and the
\* rest of z_player.c trust their pointers), between two ticks Link's pointers
\* lead to allocated actors, and an actor that believes Link holds it is held.
THEOREM HoldIsKeptMutual ==
  PatientHost => (Spec /\ []BombsFit => []HoldIsMutual)
<1>. SUFFICES ASSUME PatientHost
              PROVE  Spec /\ []BombsFit => []HoldIsMutual
  OBVIOUS
<1>1. Hands => HoldIsMutual
  <2>. SUFFICES ASSUME Hands
                PROVE  HoldIsMutual
    OBVIOUS
  <2>1. \A p \in {link.held, link.child, link.range, link.parent} \ {NULL} : actors[p] # NoActor
    BY DEF Hands, Pointers, LiveHook, NoActor
  <2>2. \A s \in Slot : actors[s].parent /\ actors[s].phase # "dead" =>
          \/ link.held = s
          \/ actors[s].kind = "hookshot" /\ HookIsOut(link)
    BY DEF Hands, Mutual, Believes
  <2>. QED  BY <2>1, <2>2 DEF HoldIsMutual, Hands
<1>2. Spec /\ []BombsFit => []Hands
  BY HandsAreKept
<1>. QED  BY <1>1, <1>2, PTL

\* And what is put away is put away: a carrying flag without a load belongs to a
\* lift that is under way (Player_ActionHandler_2, Player_Action_WaitForPutAway)
\* or was left over by one that a fall or a hit interrupted, and then it meets
\* empty hands whose upper action does not look for a load; and nothing pulls a
\* Link who has no hookshot in hand.
THEOREM PutAwayIsKeptComplete ==
  PatientHost => (Spec /\ []BombsFit => []PutAwayIsComplete)
<1>. SUFFICES ASSUME PatientHost
              PROVE  Spec /\ []BombsFit => []PutAwayIsComplete
  OBVIOUS
<1>1. Hands => PutAwayIsComplete
  <2>. SUFFICES ASSUME Hands
                PROVE  PutAwayIsComplete
    OBVIOUS
  <2>1. CarryingIsMeant
    <3>1. CASE link.act \in {"putaway", "lift"}
      BY <3>1 DEF Hands, Stance, PuttingAway, Reaching, CarryingIsMeant
    <3>2. CASE link.act \notin {"putaway", "lift"}
      BY <3>2 DEF Hands, Stance, Settled, Leftover, CarryingIsMeant
    <3>. QED  BY <3>1, <3>2
  <2>2. NothingPullsHim
    BY DEF Hands, Pointers, HookIsOut, HoldsHookshot, NothingPullsHim
  <2>. QED  BY <2>1, <2>2 DEF PutAwayIsComplete
<1>2. Spec /\ []BombsFit => []Hands
  BY HandsAreKept
<1>. QED  BY <1>1, <1>2, PTL
===============================================================================
