---------------------------- MODULE EngineSession ----------------------------
(***************************************************************************)
(* One engine between creation and destruction, as a host drives it: a     *)
(* world, a Link in it, the fixed-step clock and the frame the engine      *)
(* publishes.  The wrapper keeps flags of its own beside the native game's *)
(* state (currentAge beside the save's linkAge, pendingButtons beside the  *)
(* pad); the properties are about the two staying in agreement.            *)
(*                                                                         *)
(* A call runs under the guard of EngineContexts, so it is one step here;  *)
(* only oot_engine_advance, which loops over ticks, is several.            *)
(***************************************************************************)
EXTENDS Integers

CONSTANTS
  Buttons,      \* Button bits of an input.
  Scenes,       \* Scene and room pairs of the ROM.
  Statics,      \* Collision worlds the host supplies itself.
  NoWorld,      \* No collision world, or no scene geometry.
  HasChild,     \* The ROM holds the child's object and skeleton.
  Step,         \* fixedStepSeconds, in the model's unit of time.
  Tolerance,    \* fixedStepSeconds * 1e-6, at least 0 and below Step.
  MaxSubsteps,  \* config.maxSubsteps.
  MaxElapsed    \* Bound on the time one call to oot_engine_advance hands in.

ASSUME WorldsDistinct == NoWorld \notin Scenes \cup Statics
ASSUME ChildAssumption == HasChild \in BOOLEAN
ASSUME StepAssumption == Step \in Nat \ {0}
ASSUME ToleranceAssumption == Tolerance \in Nat /\ Tolerance < Step
ASSUME SubstepsAssumption == MaxSubsteps \in Nat \ {0}
ASSUME ElapsedAssumption == MaxElapsed \in Nat

VARIABLES
  world,          \* The native collision world; NoWorld iff ~worldLoaded.
  layout,         \* How the dynamic collision objects stand in it (0 or 1).
  geometry,       \* The world whose scene geometry the engine has copied.
  linkActive,     \* engine->linkActive, and the native Player exists.
  currentAge,     \* engine->currentAge.
  linkAge,        \* gSaveContext.save.linkAge.
  frame,          \* What the published frame shows; meaningful if frameValid.
  frameValid,     \* engine->frameValid.
  accumulator,    \* engine->accumulator.
  pendingButtons, \* engine->pendingButtons.
  pad,            \* play->state.input[0].cur: the buttons of the last tick.
  call,           \* The oot_engine_advance in progress.
  answer          \* What the last request to use an item was told.

worldVars == <<world, layout, geometry>>
linkVars == <<linkActive, currentAge, linkAge>>
frameVars == <<frame, frameValid>>
clockVars == <<accumulator, pendingButtons>>
vars == <<worldVars, linkVars, frameVars, clockVars, pad, call, answer>>

Ages == {"ADULT", "CHILD"}
Worlds == Scenes \cup Statics
MaxAccumulator == Step * MaxSubsteps

\* Items by the ages that may use them.
Items == {"BOW", "DEKU_STICK", "BOMB"}
AllowedForAge(item, age) == CASE item = "BOW"        -> age = "ADULT"
                              [] item = "DEKU_STICK" -> age = "CHILD"
                              [] item = "BOMB"       -> TRUE

Idle == [running |-> FALSE, buttons |-> {}, steps |-> 0, due |-> 0]
Ready == ~call.running

Init ==
  /\ world = NoWorld /\ layout = 0 /\ geometry = NoWorld
  /\ linkActive = FALSE /\ currentAge = "ADULT" /\ linkAge = "ADULT"
  /\ frame = [age |-> "ADULT", world |-> NoWorld, layout |-> 0, alpha |-> 0]
  /\ frameValid = FALSE
  /\ accumulator = 0 /\ pendingButtons = {}
  /\ pad = {} /\ call = Idle /\ answer = "none"

(***************************************************************************)
(* The world.                                                              *)
(***************************************************************************)
\* oot_engine_static_world_load: a world without scene geometry.
StaticWorldLoad(w) ==
  /\ Ready
  /\ world' = w /\ geometry' = NoWorld
  /\ frameValid' = FALSE
  /\ answer' = "none"
  /\ UNCHANGED <<layout, linkVars, frame, clockVars, pad, call>>

\* A scene or room that has been committed.  Its collision is live even when
\* its geometry could not be decoded (native result -9) or copied.
CopiedGeometry(w) == geometry' \in {w, NoWorld}

SceneCommitted(w) ==
  /\ Ready
  /\ world' = w
  /\ CopiedGeometry(w)
  /\ frameValid' = FALSE
  /\ answer' = "none"
  /\ UNCHANGED <<layout, linkVars, frame, clockVars, pad, call>>

\* oot_engine_scene_load_ex.
SceneLoad(w) == w \in Scenes /\ SceneCommitted(w)

\* oot_engine_scene_set_room needs a ROM scene to be loaded.
SceneSetRoom(w) == w \in Scenes /\ world \in Scenes /\ SceneCommitted(w)

\* oot_engine_dynamic_collision_set_transform, _set_enabled and _delete.
MoveCollision ==
  /\ Ready /\ world # NoWorld
  /\ layout' = 1 - layout
  /\ frameValid' = FALSE
  /\ answer' = "none"
  /\ UNCHANGED <<world, geometry, linkVars, frame, clockVars, pad, call>>

(***************************************************************************)
(* Link.                                                                   *)
(***************************************************************************)
\* oot_engine_link_create.  The native linkAge is not touched.
LinkCreate ==
  /\ Ready /\ ~linkActive /\ world # NoWorld
  /\ linkActive' = TRUE
  /\ currentAge' = "ADULT"
  /\ frameValid' = FALSE
  /\ accumulator' = 0 /\ pendingButtons' = {}
  /\ answer' = "none"
  /\ UNCHANGED <<worldVars, linkAge, frame, pad, call>>

\* KeepsFrame is a mistake: the published frame outlives the Link it shows.
KeepsFrame == UNCHANGED <<frameValid, accumulator>> /\ pendingButtons' = {}
ForgetsLink == frameValid' = FALSE /\ accumulator' = 0 /\ pendingButtons' = {}

\* oot_engine_link_delete.
LinkDelete ==
  /\ Ready /\ linkActive
  /\ linkActive' = FALSE
  /\ ForgetsLink
  /\ answer' = "none"
  /\ UNCHANGED <<worldVars, currentAge, linkAge, frame, pad, call>>

\* oot_link_set_age: the child needs its assets, whatever the age was.
NativeSetAge(age) == age = "CHILD" => HasChild

\* oot_engine_link_set_age.  The wrapper's own copy decides whether there is
\* anything to do.
LinkSetAge(age) ==
  /\ Ready /\ linkActive
  /\ IF age = currentAge
     THEN UNCHANGED <<linkVars, frameValid, pendingButtons>>
     ELSE /\ NativeSetAge(age)
          /\ linkAge' = age /\ currentAge' = age
          /\ frameValid' = FALSE /\ pendingButtons' = {}
          /\ UNCHANGED linkActive
  /\ answer' = "none"
  /\ UNCHANGED <<worldVars, frame, accumulator, pad, call>>

\* oot_engine_link_use_item.  AnyItem is a mistake: no age check.
AnyItem(item) == TRUE
ItemAccepted(item) == AllowedForAge(item, currentAge)

UseItem(item) ==
  /\ Ready /\ linkActive
  /\ answer' = IF ItemAccepted(item) THEN "OK" ELSE "AGE_RESTRICTED"
  /\ UNCHANGED <<worldVars, linkVars, frameVars, clockVars, pad, call>>

(***************************************************************************)
(* The clock.                                                              *)
(***************************************************************************)
\* engine_tick_locked, with the buttons of the input and the latched ones.
Tick(buttons) ==
  /\ pad' = buttons
  /\ currentAge' = linkAge
  /\ frame' = [age |-> linkAge, world |-> world, layout |-> layout,
               alpha |-> accumulator]
  /\ frameValid' = TRUE
  /\ pendingButtons' = {}
  /\ UNCHANGED <<worldVars, linkActive, linkAge>>

\* oot_engine_step: one tick, outside the accumulator.
StepOnce(buttons) ==
  /\ Ready /\ linkActive
  /\ Tick(buttons \cup pendingButtons)
  /\ answer' = "none"
  /\ UNCHANGED <<accumulator, call>>

\* oot_engine_advance: latch the buttons, add the elapsed time and cap what a
\* stall has left.  call.due is not in the code: it is the number of ticks a
\* division would give.
Capped(t) == IF t > MaxAccumulator THEN MaxAccumulator ELSE t

AtMost(n, bound) == IF n > bound THEN bound ELSE n

Advance(elapsed, buttons) ==
  /\ Ready /\ linkActive
  /\ pendingButtons' = pendingButtons \cup buttons
  /\ accumulator' = Capped(accumulator + elapsed)
  /\ call' = [running |-> TRUE, buttons |-> buttons, steps |-> 0,
              due |-> AtMost((accumulator + elapsed + Tolerance) \div Step,
                             MaxSubsteps)]
  /\ answer' = "none"
  /\ UNCHANGED <<worldVars, linkVars, frameVars, pad>>

\* The loop's condition.  StrictlyDue is a mistake: it leaves a whole step.
StrictlyDue == accumulator > Step + Tolerance
TickDue == accumulator + Tolerance >= Step

Substep ==
  /\ call.running /\ TickDue /\ call.steps < MaxSubsteps
  /\ Tick(call.buttons \cup pendingButtons)
  /\ accumulator' = accumulator - Step
  /\ call' = [call EXCEPT !.steps = @ + 1]
  /\ UNCHANGED answer

\* A tick that ran early by the tolerance leaves no debt, and a frame that is
\* still valid shows the fraction that is left.  Two mistakes: the debt stays;
\* a press that no tick has seen is dropped.
InDebt == accumulator
Left == IF accumulator < 0 THEN 0 ELSE accumulator

ForgetsLatch == pendingButtons' = {}
KeepsLatch == UNCHANGED pendingButtons

FreshAlpha(left) == IF frameValid THEN [frame EXCEPT !.alpha = left] ELSE frame

AdvanceReturn ==
  /\ call.running /\ ~(TickDue /\ call.steps < MaxSubsteps)
  /\ accumulator' = Left /\ frame' = FreshAlpha(Left)
  /\ KeepsLatch
  /\ call' = Idle
  /\ UNCHANGED <<worldVars, linkVars, frameValid, pad, answer>>

\* oot_engine_reset_clock.
ResetClock ==
  /\ Ready
  /\ accumulator' = 0 /\ pendingButtons' = {}
  /\ frame' = FreshAlpha(0)
  /\ answer' = "none"
  /\ UNCHANGED <<worldVars, linkVars, frameValid, pad, call>>

-----------------------------------------------------------------------------
Next ==
  \/ \E w \in Statics : StaticWorldLoad(w)
  \/ \E w \in Scenes : SceneLoad(w) \/ SceneSetRoom(w)
  \/ MoveCollision
  \/ LinkCreate \/ LinkDelete
  \/ \E age \in Ages : LinkSetAge(age)
  \/ \E item \in Items : UseItem(item)
  \/ \E buttons \in SUBSET Buttons : StepOnce(buttons)
  \/ \E elapsed \in 0 .. MaxElapsed, buttons \in SUBSET Buttons :
       Advance(elapsed, buttons)
  \/ Substep \/ AdvanceReturn
  \/ ResetClock

Spec == Init /\ [][Next]_vars

-----------------------------------------------------------------------------
(***************************************************************************)
(* Properties.                                                             *)
(***************************************************************************)
\* The type of every variable.  The clock is never in debt outside a call.
TypeOK ==
  /\ world \in Worlds \cup {NoWorld} /\ layout \in {0, 1}
  /\ geometry \in Worlds \cup {NoWorld}
  /\ linkActive \in BOOLEAN /\ currentAge \in Ages /\ linkAge \in Ages
  /\ frame \in [age : Ages, world : Worlds \cup {NoWorld}, layout : {0, 1},
                alpha : Nat]
  /\ frameValid \in BOOLEAN
  /\ accumulator \in Int
  /\ accumulator < 0 => call.running
  /\ pendingButtons \in SUBSET Buttons /\ pad \in SUBSET Buttons
  /\ call \in [running : BOOLEAN, buttons : SUBSET Buttons,
               steps : 0 .. MaxSubsteps, due : Nat]
  /\ answer \in {"none", "OK", "AGE_RESTRICTED"}

\* A published frame shows the Link that exists now, at the age the game runs
\* him with, in the world that is loaded now; and the wrapper's own copy of
\* the age is right from then on.  A load, a new age or Link, and a dynamic
\* object that is moved, enabled or deleted withdraw the frame; a call that
\* creates an object or poses Link does not, it shows in the next tick.
\* Between calls its interpolation fraction is what is left on the clock.
\* Scene geometry handed to the renderer belongs to the collision world that
\* is loaded, or there is none.
PublishedIsCurrent ==
  /\ frameValid => /\ linkActive
                   /\ frame.age = linkAge /\ currentAge = linkAge
                   /\ frame.world = world /\ frame.layout = layout
                   /\ Ready => frame.alpha = accumulator
  /\ geometry \in {world, NoWorld}

\* The subtracting loop runs as many ticks as a division would, after stalls
\* and with a clock that is short of a step by the tolerance, and no call
\* leaves a tick on the clock that is already due: the debt of a stall is paid
\* or dropped, never carried into the next call.
StepsAreExact ==
  /\ call.running => /\ call.steps <= call.due
                     /\ ~TickDue => call.steps = call.due
  /\ Ready => accumulator + Tolerance < Step

\* A press that an earlier call has latched stays until a tick hands it to the
\* game; only a reset of the clock, a new Link or another age discards it.
LatchedPressSurvives ==
  [][\A b \in pendingButtons :
       \/ b \in pendingButtons'
       \/ b \in pad' /\ frameValid'
       \/ ResetClock \/ linkActive' # linkActive \/ currentAge' # currentAge]_vars

\* Once a frame of this Link has been published, an item is accepted only if
\* the age the game runs him with may use it, and refused only if not.
ItemsObeyAgeOnceShown ==
  [][\A item \in Items : UseItem(item) /\ frameValid =>
       (answer' = "OK" <=> AllowedForAge(item, linkAge))]_vars
=============================================================================
