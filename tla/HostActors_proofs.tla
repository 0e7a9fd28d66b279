-------------------------- MODULE HostActors_proofs ---------------------------
(***************************************************************************)
(* Proofs about a session and the actors in it.                            *)
(*                                                                         *)
(* The session, which HostActors extends: the fixed-step clock runs the    *)
(* ticks a division would give and a published frame is never out of date, *)
(* for every step, tolerance and number of substeps and for any buttons    *)
(* and worlds.                                                             *)
(*                                                                         *)
(* The actors: a handle reaches the actor it was made for or nothing, only *)
(* a change of age orphans an actor, and neither Link's lock-on nor a      *)
(* contact passes to another one, for any sizes of the tables, the pool    *)
(* and the ring.  Together they implement HostedActors.                    *)
(***************************************************************************)
EXTENDS HostActors, FiniteSetTheorems, SequenceTheorems, WellFoundedInduction, TLAPS

-----------------------------------------------------------------------------
(* The session.                                                            *)

\* While a call runs there is a Link, and the ticks it still owes are the
\* whole steps on the clock.  The cap is what makes this true after a stall.
Owed == call.due - call.steps
OwedOnClock ==
  call.running =>
    /\ linkActive
    /\ Owed >= 0
    /\ call.due <= MaxSubsteps
    /\ Step * Owed <= accumulator + Tolerance
    /\ accumulator + Tolerance < Step * (Owed + 1)

SessionInv ==
  /\ TypeOK
  /\ OwedOnClock
  /\ PublishedIsCurrent
  /\ StepsAreExact

-----------------------------------------------------------------------------
\* A step more or less on the clock.
LEMMA OneMore ==
  ASSUME NEW n \in Int
  PROVE  /\ Step * n \in Int /\ Step * (n + 1) = Step * n + Step
         /\ Step * (n - 1) = Step * n - Step
BY StepAssumption

\* No whole step fits into less than one.
LEMMA NoneOwed ==
  ASSUME NEW n \in Int, n >= 0, NEW t \in Int, Step * n <= t, t < Step * (n + 1)
  PROVE  t < Step <=> n = 0
<1>1. CASE n = 0
  BY <1>1, StepAssumption
<1>2. CASE n > 0
  <2>1. n - 1 \in Nat
    BY <1>2
  <2>2. Step * (n - 1) >= 0
    BY <2>1, StepAssumption
  <2>3. Step * n >= Step
    BY <2>2, OneMore, StepAssumption
  <2> QED BY <1>2, <2>3, OneMore, StepAssumption
<1> QED BY <1>1, <1>2

LEMMA DivMod ==
  ASSUME NEW x \in Nat, NEW d \in Nat, d > 0
  PROVE  /\ x \div d \in Nat
         /\ d * (x \div d) <= x /\ x < d * (x \div d) + d
<1>1. x \div d \in Nat
  BY SMT
<1>2. x % d \in 0 .. (d - 1)
  BY SMT
<1>3. x = d * (x \div d) + (x % d)
  BY SMT
<1>4. d * (x \div d) \in Int
  BY <1>1
<1> QED BY <1>1, <1>2, <1>3, <1>4

\* What a call owes when it begins: the quotient, or the bound where a stall
\* has been capped.
LEMMA Division ==
  ASSUME NEW t \in Nat
  PROVE  /\ (t + Tolerance) \div Step \in Nat
         /\ Step * ((t + Tolerance) \div Step) <= t + Tolerance
         /\ t + Tolerance < Step * (((t + Tolerance) \div Step) + 1)
<1>1. t + Tolerance \in Nat /\ Step \in Nat /\ Step > 0
  BY ToleranceAssumption, StepAssumption
<1>2. /\ (t + Tolerance) \div Step \in Nat
      /\ Step * ((t + Tolerance) \div Step) <= t + Tolerance
      /\ t + Tolerance < Step * ((t + Tolerance) \div Step) + Step
  BY <1>1, DivMod
<1> QED BY <1>2, OneMore

-----------------------------------------------------------------------------
LEMMA SessionInit == Init => SessionInv
<1> SUFFICES ASSUME Init PROVE SessionInv
  OBVIOUS
<1>1. call = Idle /\ accumulator = 0
  BY DEF Init
<1>2. TypeOK
  <2>1. call \in [running : BOOLEAN, buttons : SUBSET Buttons,
                   steps : 0 .. MaxSubsteps, due : Nat]
    BY <1>1, SubstepsAssumption DEF Idle
  <2>2. frame \in [age : Ages, world : Worlds \cup {NoWorld}, layout : {0, 1}, alpha : Nat]
    BY DEF Init, Ages
  <2>3. linkActive \in BOOLEAN /\ frameValid \in BOOLEAN
    BY DEF Init
  <2>4. /\ world \in Worlds \cup {NoWorld} /\ layout \in {0, 1}
        /\ geometry \in Worlds \cup {NoWorld}
        /\ currentAge \in Ages /\ linkAge \in Ages
        /\ accumulator = 0
        /\ pendingButtons \in SUBSET Buttons /\ pad \in SUBSET Buttons
        /\ answer \in {"none", "OK", "AGE_RESTRICTED"}
    BY DEF Init, Ages
  <2> QED BY <2>1, <2>2, <2>3, <2>4 DEF TypeOK
<1>3. OwedOnClock /\ StepsAreExact
  BY <1>1, ToleranceAssumption, StepAssumption DEF Idle, OwedOnClock, StepsAreExact, Ready
<1>4. PublishedIsCurrent
  BY DEF Init, PublishedIsCurrent
<1> QED BY <1>2, <1>3, <1>4 DEF SessionInv

\* A step between calls that leaves the clock alone or stops it.
LEMMA ClockAtRest ==
  ASSUME SessionInv, Ready, UNCHANGED call, accumulator' \in {accumulator, 0}
  PROVE  /\ OwedOnClock' /\ StepsAreExact'
         /\ accumulator' \in Int /\ (accumulator' < 0 => call'.running)
<1>1. ~call.running /\ ~call'.running
  BY DEF Ready
<1>2. accumulator \in Int /\ accumulator + Tolerance < Step /\ ~(accumulator < 0)
  BY <1>1 DEF SessionInv, TypeOK, StepsAreExact, Ready
<1>3. accumulator' \in Int /\ accumulator' + Tolerance < Step /\ accumulator' >= 0
  <2>1. CASE accumulator' = accumulator
    BY <1>2, <2>1
  <2>2. CASE accumulator' = 0
    BY <2>2, ToleranceAssumption, StepAssumption
  <2> QED BY <2>1, <2>2
<1>4. OwedOnClock'
  BY <1>1 DEF OwedOnClock
<1>5. StepsAreExact'
  BY <1>1, <1>3 DEF StepsAreExact
<1> QED BY <1>3, <1>4, <1>5

\* A change of world withdraws the frame.
LEMMA WorldKeeps ==
  ASSUME SessionInv,
         \/ \E w \in Statics : StaticWorldLoad(w)
         \/ \E w \in Scenes : SceneLoad(w) \/ SceneSetRoom(w)
         \/ MoveCollision
  PROVE  SessionInv'
<1>1. /\ Ready /\ UNCHANGED <<call, accumulator, linkVars, frame, pendingButtons, pad>>
      /\ frameValid' = FALSE /\ answer' = "none"
      /\ world' \in Worlds \cup {NoWorld} /\ geometry' \in {world', NoWorld}
      /\ layout' \in {layout, 1 - layout}
  BY DEF StaticWorldLoad, SceneLoad, SceneSetRoom, SceneCommitted, CopiedGeometry,
         MoveCollision, Worlds, clockVars, SessionInv, TypeOK, PublishedIsCurrent
<1>2. /\ OwedOnClock' /\ StepsAreExact'
      /\ accumulator' \in Int /\ (accumulator' < 0 => call'.running)
  BY <1>1, ClockAtRest
<1>3. TypeOK'
  <2>1. frameValid' \in BOOLEAN /\ linkActive' \in BOOLEAN
    BY <1>1 DEF SessionInv, TypeOK, linkVars
  <2>2. layout' \in {0, 1} /\ geometry' \in Worlds \cup {NoWorld}
    BY <1>1 DEF SessionInv, TypeOK
  <2>3. accumulator' < 0 => call'.running
    BY <1>2
  <2> QED BY <1>1, <1>2, <2>1, <2>2, <2>3 DEF SessionInv, TypeOK, linkVars
<1>4. PublishedIsCurrent'
  BY <1>1 DEF PublishedIsCurrent
<1> QED BY <1>2, <1>3, <1>4 DEF SessionInv

\* So does a new Link, his end or another age.
LEMMA LinkKeeps ==
  ASSUME SessionInv,
         LinkCreate \/ LinkDelete \/ \E age \in Ages : LinkSetAge(age)
  PROVE  SessionInv'
<1>1. /\ Ready /\ UNCHANGED <<call, worldVars, frame, pad>>
      /\ accumulator' \in {accumulator, 0} /\ answer' = "none"
      /\ pendingButtons' \in {pendingButtons, {}}
      /\ linkActive' \in BOOLEAN /\ currentAge' \in Ages /\ linkAge' \in Ages
      /\ \/ frameValid' = FALSE
         \/ UNCHANGED <<linkVars, frameValid, accumulator>>
  BY DEF LinkCreate, LinkDelete, LinkSetAge, ForgetsLink, linkVars, Ages, SessionInv, TypeOK
<1>2. /\ OwedOnClock' /\ StepsAreExact'
      /\ accumulator' \in Int /\ (accumulator' < 0 => call'.running)
  BY <1>1, ClockAtRest
<1>3. TypeOK'
  BY <1>1, <1>2 DEF SessionInv, TypeOK, worldVars
<1>4. PublishedIsCurrent'
  BY <1>1 DEF SessionInv, PublishedIsCurrent, worldVars, linkVars, Ready
<1> QED BY <1>2, <1>3, <1>4 DEF SessionInv

\* Using an item changes nothing but the answer.
LEMMA UseItemKeeps ==
  ASSUME SessionInv, NEW item \in Items, UseItem(item)
  PROVE  SessionInv'
<1>1. answer' \in {"OK", "AGE_RESTRICTED"}
      /\ UNCHANGED <<world, layout, geometry, linkActive, currentAge, linkAge, frame, frameValid,
                     accumulator, pendingButtons, pad, call>>
  BY DEF UseItem, worldVars, linkVars, frameVars, clockVars
<1> QED BY <1>1 DEF SessionInv, TypeOK, OwedOnClock, Owed, PublishedIsCurrent, StepsAreExact, Ready, TickDue

-----------------------------------------------------------------------------
\* A tick publishes a frame of what is.
LEMMA Ticked ==
  ASSUME SessionInv, NEW buttons \in SUBSET Buttons, Tick(buttons), linkActive, accumulator >= 0
  PROVE  /\ frame' \in [age : Ages, world : Worlds \cup {NoWorld}, layout : {0, 1}, alpha : Nat]
         /\ frameValid' = TRUE /\ pad' \in SUBSET Buttons /\ pendingButtons' \in SUBSET Buttons
         /\ linkActive' /\ frame'.age = linkAge' /\ currentAge' = linkAge' /\ currentAge' \in Ages
         /\ frame'.world = world' /\ frame'.layout = layout' /\ frame'.alpha = accumulator
         /\ UNCHANGED <<world, layout, geometry, linkActive, linkAge>>
<1>1. UNCHANGED <<world, layout, geometry, linkActive, linkAge>>
  BY DEF Tick, worldVars
<1>2. frame' = [age |-> linkAge, world |-> world, layout |-> layout, alpha |-> accumulator]
  BY DEF Tick
<1>3. accumulator \in Nat
  BY DEF SessionInv, TypeOK
<1> QED BY <1>1, <1>2, <1>3 DEF Tick, SessionInv, TypeOK

LEMMA StepOnceKeeps ==
  ASSUME SessionInv, NEW buttons \in SUBSET Buttons, StepOnce(buttons)
  PROVE  SessionInv'
<1>1. /\ Ready /\ linkActive /\ Tick(buttons \cup pendingButtons)
      /\ answer' = "none" /\ UNCHANGED <<accumulator, call>>
  BY DEF StepOnce
<1>2. accumulator >= 0 /\ buttons \cup pendingButtons \in SUBSET Buttons
  BY <1>1 DEF SessionInv, TypeOK, Ready
<1>3. /\ frame' \in [age : Ages, world : Worlds \cup {NoWorld}, layout : {0, 1}, alpha : Nat]
      /\ frameValid' = TRUE /\ pad' \in SUBSET Buttons /\ pendingButtons' \in SUBSET Buttons
      /\ linkActive' /\ frame'.age = linkAge' /\ currentAge' = linkAge' /\ currentAge' \in Ages
      /\ frame'.world = world' /\ frame'.layout = layout' /\ frame'.alpha = accumulator
      /\ UNCHANGED <<world, layout, geometry, linkActive, linkAge>>
  BY <1>1, <1>2, Ticked
<1>4. /\ OwedOnClock' /\ StepsAreExact'
      /\ accumulator' \in Int /\ (accumulator' < 0 => call'.running)
  BY <1>1, ClockAtRest
<1>5. TypeOK'
  BY <1>1, <1>3, <1>4 DEF SessionInv, TypeOK
<1>6. PublishedIsCurrent'
  BY <1>1, <1>3 DEF SessionInv, PublishedIsCurrent
<1> QED BY <1>4, <1>5, <1>6 DEF SessionInv

-----------------------------------------------------------------------------
LEMMA FewerSteps ==
  ASSUME NEW a \in Int, NEW b \in Int, Step * a < Step * b
  PROVE  a < b
<1> SUFFICES ASSUME a >= b PROVE FALSE
  OBVIOUS
<1>1. Step \in Nat /\ a - b \in Nat
  BY StepAssumption
<1>2. Step * (a - b) >= 0
  BY <1>1
<1>3. Step * (a - b) = Step * a - Step * b /\ Step * a \in Int /\ Step * b \in Int
  BY <1>1
<1> QED BY <1>2, <1>3

\* What a call is handed, capped, is owed in whole steps.
LEMMA CapOwes ==
  ASSUME NEW t \in Nat
  PROVE  LET due == AtMost((t + Tolerance) \div Step, MaxSubsteps) IN
         /\ due \in 0 .. MaxSubsteps /\ Capped(t) \in Nat
         /\ Step * due <= Capped(t) + Tolerance
         /\ Capped(t) + Tolerance < Step * (due + 1)
<1> DEFINE q == (t + Tolerance) \div Step
<1>1. q \in Nat /\ Step * q <= t + Tolerance /\ t + Tolerance < Step * (q + 1)
  BY Division
<1> HIDE DEF q
<1>2. /\ MaxSubsteps \in Nat /\ Step \in Nat /\ Tolerance \in Nat /\ Tolerance < Step
      /\ Step * MaxSubsteps \in Nat
      /\ Step * (MaxSubsteps + 1) = Step * MaxSubsteps + Step
      /\ Step * q \in Int /\ Step * (q + 1) \in Int
  BY <1>1, SubstepsAssumption, StepAssumption, ToleranceAssumption, OneMore
<1>3. CASE t > Step * MaxSubsteps
  <2>1. Step * MaxSubsteps < Step * (q + 1)
    BY <1>1, <1>2, <1>3
  <2>2. MaxSubsteps < q + 1
    BY <1>1, <1>2, <2>1, FewerSteps
  <2>3. AtMost(q, MaxSubsteps) = MaxSubsteps
    BY <1>1, <1>2, <2>2 DEF AtMost
  <2>4. Capped(t) = Step * MaxSubsteps
    BY <1>3 DEF Capped, MaxAccumulator
  <2> QED BY <1>2, <2>3, <2>4 DEF q
<1>4. CASE ~(t > Step * MaxSubsteps)
  <2>1. Step * q < Step * (MaxSubsteps + 1)
    BY <1>1, <1>2, <1>4
  <2>2. q < MaxSubsteps + 1
    BY <1>1, <1>2, <2>1, FewerSteps
  <2>3. AtMost(q, MaxSubsteps) = q
    BY <1>1, <1>2, <2>2 DEF AtMost
  <2>4. Capped(t) = t
    BY <1>4 DEF Capped, MaxAccumulator
  <2> QED BY <1>1, <1>2, <2>2, <2>3, <2>4 DEF q
<1> QED BY <1>3, <1>4

LEMMA AdvanceKeeps ==
  ASSUME SessionInv, NEW elapsed \in 0 .. MaxElapsed, NEW buttons \in SUBSET Buttons,
         Advance(elapsed, buttons)
  PROVE  SessionInv'
<1> DEFINE t == accumulator + elapsed
           due == AtMost((t + Tolerance) \div Step, MaxSubsteps)
<1>1. /\ Ready /\ linkActive
      /\ pendingButtons' = pendingButtons \cup buttons
      /\ accumulator' = Capped(t)
      /\ call' = [running |-> TRUE, buttons |-> buttons, steps |-> 0, due |-> due]
      /\ answer' = "none"
      /\ UNCHANGED <<world, layout, geometry, linkActive, currentAge, linkAge, frame, frameValid, pad>>
  BY DEF Advance, worldVars, linkVars, frameVars
<1>2. accumulator \in Int /\ ~(accumulator < 0)
  BY <1>1 DEF SessionInv, TypeOK, Ready
<1>3. t \in Nat
  BY <1>2, ElapsedAssumption
<1> HIDE DEF t
<1>4. /\ due \in 0 .. MaxSubsteps /\ Capped(t) \in Nat
      /\ Step * due <= Capped(t) + Tolerance
      /\ Capped(t) + Tolerance < Step * (due + 1)
  BY <1>3, CapOwes
<1> HIDE DEF due
<1>5. /\ call' \in [running : BOOLEAN, buttons : SUBSET Buttons, steps : 0 .. MaxSubsteps, due : Nat]
      /\ call'.running = TRUE /\ call'.steps = 0 /\ call'.due = due
  BY <1>1, <1>4, SubstepsAssumption
<1>6. TypeOK'
  <2>1. accumulator' \in Int /\ ~(accumulator' < 0)
    BY <1>1, <1>4
  <2>2. pendingButtons' \in SUBSET Buttons
    BY <1>1 DEF SessionInv, TypeOK
  <2> QED BY <1>1, <1>5, <2>1, <2>2 DEF SessionInv, TypeOK
<1>7. OwedOnClock'
  <2>1. due - 0 = due /\ MaxSubsteps \in Nat
    BY <1>4, SubstepsAssumption
  <2> QED BY <1>1, <1>4, <1>5, <2>1 DEF OwedOnClock, Owed
<1>8. StepsAreExact'
  <2>1. Capped(t) + Tolerance \in Int /\ Step \in Int
    BY <1>4, ToleranceAssumption, StepAssumption
  <2>2. Capped(t) + Tolerance < Step <=> due = 0
    BY <1>4, <2>1, NoneOwed, SubstepsAssumption
  <2>3. ~(Capped(t) + Tolerance >= Step) => 0 = due
    BY <2>1, <2>2
  <2>4. 0 <= due
    BY <1>4, SubstepsAssumption
  <2> QED BY <1>1, <1>5, <2>3, <2>4 DEF StepsAreExact, TickDue, Ready
<1>9. PublishedIsCurrent'
  BY <1>1, <1>5 DEF SessionInv, PublishedIsCurrent, Ready
<1> QED BY <1>6, <1>7, <1>8, <1>9 DEF SessionInv

\* A substep pays one of the steps the call owes, if there is one.
LEMMA SubstepKeeps ==
  ASSUME SessionInv, Substep
  PROVE  SessionInv'
<1>1. /\ call.running /\ accumulator + Tolerance >= Step /\ call.steps < MaxSubsteps
      /\ Tick(call.buttons \cup pendingButtons)
      /\ accumulator' = accumulator - Step
      /\ call' = [call EXCEPT !.steps = call.steps + 1]
      /\ answer' = answer
  BY DEF Substep, TickDue
<1>2. /\ accumulator \in Int /\ call.steps \in Int /\ call.due \in Int /\ Owed \in Int
      /\ call.steps >= 0 /\ accumulator + Tolerance \in Int
      /\ call.buttons \cup pendingButtons \in SUBSET Buttons
  BY SubstepsAssumption, ToleranceAssumption DEF SessionInv, TypeOK, Owed
<1>3. /\ Step \in Int /\ Step > 0 /\ Tolerance \in Int /\ Tolerance < Step /\ Tolerance >= 0
      /\ MaxSubsteps \in Int
  BY StepAssumption, ToleranceAssumption, SubstepsAssumption
<1>4. /\ Owed >= 0 /\ call.due <= MaxSubsteps
      /\ Step * Owed <= accumulator + Tolerance /\ accumulator + Tolerance < Step * (Owed + 1)
  BY <1>1 DEF SessionInv, OwedOnClock
<1>5. Owed # 0
  BY <1>1, <1>2, <1>3, <1>4, NoneOwed
<1>6. linkActive /\ accumulator >= 0
  <2>1. linkActive
    BY <1>1 DEF SessionInv, OwedOnClock
  <2>2. accumulator >= 0
    BY <1>1, <1>2, <1>3
  <2> QED BY <2>1, <2>2
<1>7. /\ frame' \in [age : Ages, world : Worlds \cup {NoWorld}, layout : {0, 1}, alpha : Nat]
      /\ frameValid' = TRUE /\ pad' \in SUBSET Buttons /\ pendingButtons' \in SUBSET Buttons
      /\ linkActive' /\ frame'.age = linkAge' /\ currentAge' = linkAge' /\ currentAge' \in Ages
      /\ frame'.world = world' /\ frame'.layout = layout' /\ frame'.alpha = accumulator
      /\ UNCHANGED <<world, layout, geometry, linkActive, linkAge>>
  BY <1>1, <1>2, <1>6, Ticked
<1>8. /\ call' \in [running : BOOLEAN, buttons : SUBSET Buttons, steps : 0 .. MaxSubsteps, due : Nat]
      /\ call'.running /\ call'.steps = call.steps + 1 /\ call'.due = call.due
  <2>1. call.steps + 1 \in 0 .. MaxSubsteps
    BY <1>1, <1>2, <1>3
  <2>2. call \in [running : BOOLEAN, buttons : SUBSET Buttons, steps : 0 .. MaxSubsteps, due : Nat]
    BY DEF SessionInv, TypeOK
  <2> QED BY <1>1, <2>1, <2>2
<1>9. TypeOK'
  <2>1. accumulator' \in Int
    BY <1>1, <1>2, <1>3
  <2> QED BY <1>1, <1>7, <1>8, <2>1 DEF SessionInv, TypeOK
<1>10. /\ Owed' = Owed - 1 /\ Owed' >= 0 /\ Owed' \in Int
       /\ Step * Owed' <= accumulator' + Tolerance
       /\ accumulator' + Tolerance < Step * (Owed' + 1)
  <2>1. Owed' = Owed - 1
    BY <1>2, <1>8 DEF Owed
  <2>2. accumulator' + Tolerance = (accumulator + Tolerance) - Step
    BY <1>1, <1>2, <1>3
  <2>3. Step * (Owed - 1) = Step * Owed - Step /\ Step * (Owed + 1) = Step * Owed + Step
    BY <1>2, OneMore
  <2>4. Step * Owed \in Int /\ Owed - 1 + 1 = Owed
    BY <1>2, <1>3
  <2>5. Step * (Owed - 1) <= accumulator' + Tolerance
    BY <1>2, <1>3, <1>4, <2>2, <2>3, <2>4
  <2>6. accumulator' + Tolerance < Step * Owed
    BY <1>2, <1>3, <1>4, <2>2, <2>3, <2>4
  <2>7. Owed - 1 >= 0 /\ Owed - 1 \in Int
    BY <1>2, <1>4, <1>5
  <2> HIDE DEF Owed
  <2> QED BY <2>1, <2>4, <2>5, <2>6, <2>7
<1>11. OwedOnClock'
  BY <1>4, <1>7, <1>8, <1>10 DEF OwedOnClock
<1>12. StepsAreExact'
  <2>1. accumulator' + Tolerance \in Int
    BY <1>1, <1>2, <1>3
  <2>2. accumulator' + Tolerance < Step <=> Owed' = 0
    BY <1>10, <2>1, NoneOwed
  <2>3. call'.steps <= call'.due /\ (Owed' = 0 => call'.steps = call'.due)
    BY <1>2, <1>8, <1>10 DEF Owed
  <2>4. ~(accumulator' + Tolerance >= Step) => Owed' = 0
    BY <1>3, <2>1, <2>2
  <2> QED BY <1>8, <2>3, <2>4 DEF StepsAreExact, TickDue, Ready
<1>13. PublishedIsCurrent'
  BY <1>7, <1>8 DEF SessionInv, PublishedIsCurrent, Ready
<1> QED BY <1>9, <1>11, <1>12, <1>13 DEF SessionInv

\* The end of a call and a reset leave a clock that is short of a step, and
\* the frame that is out shows what is left.
LEMMA ClockKeeps ==
  ASSUME SessionInv, AdvanceReturn \/ ResetClock
  PROVE  SessionInv'
<1> DEFINE left == accumulator'
<1>1. /\ ~call'.running /\ call' \in {call, Idle}
      /\ frame' = FreshAlpha(left)
      /\ pendingButtons' \in {pendingButtons, {}}
      /\ answer' \in {answer, "none"}
      /\ UNCHANGED <<world, layout, geometry, linkActive, currentAge, linkAge, frameValid, pad>>
  BY DEF AdvanceReturn, ResetClock, KeepsLatch, Idle, Ready, worldVars, linkVars
<1>2. left \in Nat /\ left + Tolerance < Step
  <2>1. /\ Step \in Int /\ Step > 0 /\ Tolerance \in Int /\ Tolerance < Step /\ Tolerance >= 0
        /\ MaxSubsteps \in Int
    BY StepAssumption, ToleranceAssumption, SubstepsAssumption
  <2>2. CASE ResetClock
    BY <2>1, <2>2 DEF ResetClock
  <2>3. CASE AdvanceReturn
    <3>1. /\ accumulator \in Int /\ call.steps \in Int /\ call.due \in Int /\ Owed \in Int
          /\ accumulator + Tolerance \in Int
      BY <2>1 DEF SessionInv, TypeOK, Owed
    <3>2. /\ Owed >= 0 /\ call.due <= MaxSubsteps
          /\ Step * Owed <= accumulator + Tolerance /\ accumulator + Tolerance < Step * (Owed + 1)
      BY <2>3 DEF AdvanceReturn, SessionInv, OwedOnClock
    <3>3. accumulator + Tolerance < Step
      <4>1. CASE ~(accumulator + Tolerance >= Step)
        BY <2>1, <3>1, <4>1
      <4>2. CASE ~(call.steps < MaxSubsteps)
        <5>1. call.due - call.steps >= 0
          BY <3>2 DEF Owed
        <5>2. call.due - call.steps = 0
          BY <2>1, <3>1, <3>2, <4>2, <5>1
        <5>3. Owed = 0
          BY <5>2 DEF Owed
        <5> QED BY <3>1, <3>2, <5>3, NoneOwed
      <4> QED BY <2>3, <4>1, <4>2 DEF AdvanceReturn, TickDue
    <3>4. left = IF accumulator < 0 THEN 0 ELSE accumulator
      BY <2>3 DEF AdvanceReturn, Left
    <3> QED BY <2>1, <3>1, <3>3, <3>4
  <2> QED BY <2>2, <2>3
<1>3. /\ frame' \in [age : Ages, world : Worlds \cup {NoWorld}, layout : {0, 1}, alpha : Nat]
      /\ frame'.age = frame.age /\ frame'.world = frame.world /\ frame'.layout = frame.layout
      /\ frameValid => frame'.alpha = left
  BY <1>1, <1>2 DEF FreshAlpha, SessionInv, TypeOK
<1>4. TypeOK'
  <2>1. call' \in [running : BOOLEAN, buttons : SUBSET Buttons, steps : 0 .. MaxSubsteps, due : Nat]
    <3>1. Idle \in [running : BOOLEAN, buttons : SUBSET Buttons,
                    steps : 0 .. MaxSubsteps, due : Nat]
      BY SubstepsAssumption DEF Idle
    <3> QED BY <1>1, <3>1 DEF SessionInv, TypeOK
  <2>2. accumulator' \in Int /\ ~(accumulator' < 0)
    BY <1>2
  <2>3. pendingButtons' \in SUBSET Buttons
    BY <1>1 DEF SessionInv, TypeOK
  <2> QED BY <1>1, <1>3, <2>1, <2>2, <2>3 DEF SessionInv, TypeOK
<1>5. OwedOnClock'
  BY <1>1 DEF OwedOnClock
<1>6. StepsAreExact'
  BY <1>1, <1>2 DEF StepsAreExact
<1>7. PublishedIsCurrent'
  BY <1>1, <1>3 DEF SessionInv, PublishedIsCurrent
<1> QED BY <1>4, <1>5, <1>6, <1>7 DEF SessionInv

-----------------------------------------------------------------------------
LEMMA SessionStep == SessionInv /\ [Next]_vars => SessionInv'
<1> SUFFICES ASSUME SessionInv, [Next]_vars PROVE SessionInv'
  OBVIOUS
<1>1. CASE \/ \E w \in Statics : StaticWorldLoad(w)
           \/ \E w \in Scenes : SceneLoad(w) \/ SceneSetRoom(w)
           \/ MoveCollision
  BY <1>1, WorldKeeps
<1>2. CASE LinkCreate \/ LinkDelete \/ \E age \in Ages : LinkSetAge(age)
  BY <1>2, LinkKeeps
<1>3. CASE \E item \in Items : UseItem(item)
  BY <1>3, UseItemKeeps
<1>4. CASE \E buttons \in SUBSET Buttons : StepOnce(buttons)
  BY <1>4, StepOnceKeeps
<1>5. CASE \E elapsed \in 0 .. MaxElapsed, buttons \in SUBSET Buttons : Advance(elapsed, buttons)
  BY <1>5, AdvanceKeeps
<1>6. CASE Substep
  BY <1>6, SubstepKeeps
<1>7. CASE AdvanceReturn \/ ResetClock
  BY <1>7, ClockKeeps
<1>8. CASE UNCHANGED vars
  <2>1. UNCHANGED <<world, layout, geometry, linkActive, currentAge, linkAge, frame, frameValid,
                    accumulator, pendingButtons, pad, call, answer>>
    BY <1>8 DEF vars, worldVars, linkVars, frameVars, clockVars
  <2> QED BY <2>1 DEF SessionInv, TypeOK, OwedOnClock, Owed, PublishedIsCurrent, StepsAreExact, Ready, TickDue
<1> QED BY <1>1, <1>2, <1>3, <1>4, <1>5, <1>6, <1>7, <1>8 DEF Next

\* The inductive invariant holds in every state.
THEOREM SessionInvariant == Spec => []SessionInv
<1>1. Init => SessionInv
  BY SessionInit
<1>2. SessionInv /\ [Next]_vars => SessionInv'
  BY SessionStep
<1> QED BY <1>1, <1>2, PTL DEF Spec

\* The session keeps its types, and its clock is in debt during a call only.
THEOREM SessionTypes == Spec => []TypeOK
<1>1. SessionInv => TypeOK
  BY DEF SessionInv
<1> QED BY <1>1, SessionInvariant, PTL

\* Whatever is published is about the world, the pose and the Link there are.
THEOREM FramesAreCurrent == Spec => []PublishedIsCurrent
<1>1. SessionInv => PublishedIsCurrent
  BY DEF SessionInv
<1> QED BY <1>1, SessionInvariant, PTL

\* Every call runs the ticks of the quotient, for every step and tolerance.
THEOREM ClockIsExact == Spec => []StepsAreExact
<1>1. SessionInv => StepsAreExact
  BY DEF SessionInv
<1> QED BY <1>1, SessionInvariant, PTL

\* Presses are handed over or discarded with the clock, the Link or the age.
THEOREM PressesSurvive == Spec => LatchedPressSurvives
<1> DEFINE Kept == \A b \in pendingButtons :
                     \/ b \in pendingButtons'
                     \/ b \in pad' /\ frameValid'
                     \/ ResetClock \/ linkActive' # linkActive \/ currentAge' # currentAge
<1>1. [Next]_vars => [Kept]_vars
  <2> SUFFICES ASSUME Next, NEW b \in pendingButtons, ~(b \in pendingButtons')
               PROVE  \/ b \in pad' /\ frameValid'
                      \/ ResetClock \/ linkActive' # linkActive \/ currentAge' # currentAge
    OBVIOUS
  <2>1. ASSUME NEW w, StaticWorldLoad(w) \/ SceneLoad(w) \/ SceneSetRoom(w) PROVE FALSE
    BY <2>1 DEF StaticWorldLoad, SceneLoad, SceneSetRoom, SceneCommitted, clockVars
  <2>2. CASE MoveCollision
    BY <2>2 DEF MoveCollision, clockVars
  <2>3. CASE LinkCreate \/ LinkDelete
    BY <2>3 DEF LinkCreate, LinkDelete
  <2>4. ASSUME NEW age \in Ages, LinkSetAge(age) PROVE currentAge' # currentAge
    BY <2>4 DEF LinkSetAge
  <2>5. ASSUME NEW item \in Items, UseItem(item) PROVE FALSE
    BY <2>5 DEF UseItem, clockVars
  <2>6. ASSUME NEW buttons \in SUBSET Buttons, StepOnce(buttons) PROVE b \in pad' /\ frameValid'
    BY <2>6 DEF StepOnce, Tick
  <2>7. CASE Substep
    BY <2>7 DEF Substep, Tick
  <2>8. ASSUME NEW elapsed, NEW buttons, Advance(elapsed, buttons) PROVE FALSE
    BY <2>8 DEF Advance
  <2>9. CASE AdvanceReturn
    BY <2>9 DEF AdvanceReturn, KeepsLatch
  <2> QED BY <2>1, <2>2, <2>3, <2>4, <2>5, <2>6, <2>7, <2>8, <2>9 DEF Next
<1> QED BY <1>1, PTL DEF Spec, LatchedPressSurvives

\* An item request is answered by the age the game has, once Link is shown.
THEOREM ItemsObeyTheGame == Spec => ItemsObeyAgeOnceShown
<1> DEFINE Obeyed == \A item \in Items : UseItem(item) /\ frameValid =>
                       (answer' = "OK" <=> AllowedForAge(item, linkAge))
<1>1. SessionInv => Obeyed
  <2> SUFFICES ASSUME SessionInv, NEW item \in Items, UseItem(item), frameValid
               PROVE  answer' = "OK" <=> AllowedForAge(item, linkAge)
    OBVIOUS
  <2>1. currentAge = linkAge
    BY DEF SessionInv, PublishedIsCurrent
  <2>2. answer' = IF AllowedForAge(item, currentAge) THEN "OK" ELSE "AGE_RESTRICTED"
    BY DEF UseItem, ItemAccepted
  <2> QED BY <2>1, <2>2
<1> QED BY <1>1, SessionInvariant, PTL DEF ItemsObeyAgeOnceShown

-----------------------------------------------------------------------------
(* The actors.                                                             *)

Slot == [active : BOOLEAN, nativeId : Pool \cup {NoId}, token : 0 .. MaxToken]
NativeActor == [inUse : BOOLEAN, legacy : BOOLEAN, hurt : BOOLEAN,
                overlap : BOOLEAN, who : 0 .. MaxToken]

\* The types of the tables, which are all that handles depend on.
Tables ==
  /\ slots = [kind \in Kinds |-> slots[kind]]
  /\ \A kind \in Kinds : slots[kind] \in [SlotsOf(kind) -> Slot]
  /\ pool \in [Pool -> NativeActor]
  /\ reference \in [id : Pool \cup {NoId}, who : 0 .. MaxToken]
  /\ nextToken \in 0 .. MaxToken
  /\ linkActive \in BOOLEAN
  /\ held \subseteq Handles /\ retired \subseteq Handles

\* A slot in use points to a native actor in use that carries its token.
Owned ==
  \A k \in Kinds : \A s \in SlotsOf(k) : slots[k][s].active =>
    /\ slots[k][s].nativeId \in Pool
    /\ pool[slots[k][s].nativeId].inUse
    /\ pool[slots[k][s].nativeId].who = slots[k][s].token
    /\ slots[k][s].token <= nextToken

\* No two slots in use have the same token, so that no two share an actor.
Apart ==
  \A k, l \in Kinds : \A s \in SlotsOf(k), t \in SlotsOf(l) :
    slots[k][s].active /\ slots[l][t].active
      /\ slots[k][s].token = slots[l][t].token => k = l /\ s = t

\* A token that will be given out is not in any handle the host knows.
Known == \A h \in held \cup retired : h.token <= nextToken

\* Without a Link there are no handles, which is why his creation may leave the
\* tables alone.
NoLinkNoActors ==
  ~linkActive => \A k \in Kinds : \A s \in SlotsOf(k) : ~slots[k][s].active

\* HandlesAreExact, slot by slot.
Exact ==
  /\ \A h \in held : h.slot \in SlotsOf(h.kind)
                     /\ slots[h.kind][h.slot].active
                     /\ slots[h.kind][h.slot].token = h.token
  /\ \A h \in retired : h.slot \in SlotsOf(h.kind) =>
                          ~(slots[h.kind][h.slot].active
                            /\ slots[h.kind][h.slot].token = h.token)

AInv == Tables /\ Owned /\ Apart /\ Known /\ NoLinkNoActors /\ Exact

-----------------------------------------------------------------------------
\* A set of natural numbers that is not empty has a least element.
LEMMA LeastExists ==
  ASSUME NEW S, S \subseteq Nat, S # {}
  PROVE  Min(S) \in S /\ \A y \in S : Min(S) <= y
<1> DEFINE R == OpToRel(<, Nat)
<1>1. IsWellFoundedOn(R, Nat)
  BY NatLessThanWellFounded
<1>2. \A x, y \in Nat : <<y, x>> \in R <=> y < x
  BY DEF OpToRel
<1> HIDE DEF R
<1>3. PICK x \in S : \A y \in S : ~(<<y, x>> \in R)
  BY <1>1, WFMin
<1>4. \A y \in S : x <= y
  <2> SUFFICES ASSUME NEW y \in S PROVE x <= y
    OBVIOUS
  <2>1. ~(y < x)
    BY <1>2, <1>3
  <2> QED BY <2>1
<1> QED BY <1>4 DEF Min

\* The sizes of the tables.
LEMMA Sizes ==
  /\ \A k \in Kinds : SlotsOf(k) \subseteq Nat
  /\ Pool \subseteq Nat /\ NoId \notin Pool
  /\ MaxToken \in Nat
BY SlotsAssumption DEF SlotsOf, Pool, NoId, Kinds

-----------------------------------------------------------------------------
(* Sequences.  AscendingExists and AscendingAll argue by a least           *)
(* counterexample, because the induction theorems cannot be instantiated.  *)

\* A finite set of numbers can be put in order.
LEMMA AscendingExists ==
  ASSUME NEW S, S \subseteq Nat, IsFiniteSet(S)
  PROVE  \E f \in [1 .. Cardinality(S) -> S] :
           \A m, n \in DOMAIN f : m < n => f[m] < f[n]
<1> DEFINE Sorted(T, c) == \E f \in [1 .. c -> T] : \A m, n \in 1 .. c : m < n => f[m] < f[n]
           Bad == {c \in Nat : \E T \in SUBSET Nat : IsFiniteSet(T) /\ Cardinality(T) = c /\ ~Sorted(T, c)}
<1>1. Bad = {}
  <2>1. SUFFICES ASSUME Bad # {} PROVE FALSE
    OBVIOUS
  <2>2. PICK c \in Bad : \A d \in Bad : c <= d
    BY <2>1, LeastExists
  <2>3. PICK T \in SUBSET Nat : IsFiniteSet(T) /\ Cardinality(T) = c /\ ~Sorted(T, c)
    BY <2>2
  <2>4. CASE T = {}
    <3>1. c = 0
      BY <2>3, <2>4, FS_EmptySet
    <3>2. 1 .. 0 = {}
      OBVIOUS
    <3>3. [k \in 1 .. 0 |-> k] \in [1 .. 0 -> T]
      BY <3>2
    <3> QED BY <2>3, <3>1, <3>2, <3>3
  <2>5. CASE T # {}
    <3>1. PICK least \in T : \A y \in T : least <= y
      BY <2>5, LeastExists
    <3> DEFINE rest == T \ {least}
    <3>2. IsFiniteSet(rest) /\ Cardinality(rest) = c - 1 /\ c - 1 \in Nat /\ c \in Nat
      <4>1. IsFiniteSet(rest) /\ Cardinality(rest) = Cardinality(T) - 1
        BY <2>3, FS_RemoveElement
      <4>2. Cardinality(rest) \in Nat
        BY <4>1, FS_CardinalityType
      <4> QED BY <2>2, <2>3, <4>1, <4>2
    <3>3. rest \in SUBSET Nat /\ \A y \in rest : least < y
      <4>1. ASSUME NEW y \in rest PROVE y \in Nat /\ least < y
        <5>1. y \in Nat /\ least \in Nat /\ least <= y /\ y # least
          BY <3>1
        <5> QED BY <5>1
      <4> QED BY <4>1
    <3> HIDE DEF rest
    <3>4. c - 1 \notin Bad
      BY <2>2, <3>2
    <3>5. Sorted(rest, c - 1)
      BY <3>2, <3>3, <3>4
    <3>6. PICK g \in [1 .. c - 1 -> rest] : \A m, n \in 1 .. c - 1 : m < n => g[m] < g[n]
      BY <3>5
    <3> DEFINE f == [k \in 1 .. c |-> IF k = 1 THEN least ELSE g[k - 1]]
    <3>7. \A k \in 1 .. c : k # 1 => k - 1 \in 1 .. c - 1
      BY <3>2
    <3>8. f \in [1 .. c -> T]
      <4>1. rest \subseteq T
        BY DEF rest
      <4>2. ASSUME NEW k \in 1 .. c
            PROVE  (IF k = 1 THEN least ELSE g[k - 1]) \in T
        BY <3>6, <3>7, <4>1
      <4> QED BY <4>2
    <3>9. ASSUME NEW m \in 1 .. c, NEW n \in 1 .. c, m < n
          PROVE  f[m] < f[n]
      <4>1. n # 1 /\ n - 1 \in 1 .. c - 1 /\ f[n] = g[n - 1] /\ g[n - 1] \in rest
        BY <3>2, <3>6, <3>7, <3>9
      <4>2. CASE m = 1
        BY <3>3, <4>1, <4>2
      <4>3. CASE m # 1
        <5>1. m - 1 \in 1 .. c - 1 /\ f[m] = g[m - 1] /\ m - 1 < n - 1
          BY <3>2, <3>7, <3>9, <4>3
        <5> QED BY <3>6, <4>1, <5>1
      <4> QED BY <4>2, <4>3
    <3> HIDE DEF f
    <3>10. Sorted(T, c)
      BY <3>8, <3>9
    <3> QED BY <2>3, <3>10
  <2> QED BY <2>4, <2>5
<1>2. Cardinality(S) \in Nat
  BY FS_CardinalityType
<1>3. Sorted(S, Cardinality(S))
  BY <1>1, <1>2
<1> QED BY <1>3

LEMMA AscendingIs ==
  ASSUME NEW S, S \subseteq Nat, IsFiniteSet(S)
  PROVE  /\ Cardinality(S) \in Nat
         /\ Ascending(S) \in [1 .. Cardinality(S) -> S]
         /\ \A m, n \in 1 .. Cardinality(S) : m < n => Ascending(S)[m] < Ascending(S)[n]
<1>1. Cardinality(S) \in Nat
  BY FS_CardinalityType
<1>2. /\ Ascending(S) \in [1 .. Cardinality(S) -> S]
      /\ \A m, n \in DOMAIN Ascending(S) : m < n => Ascending(S)[m] < Ascending(S)[n]
  BY AscendingExists DEF Ascending
<1> QED BY <1>1, <1>2

\* A function on 1 .. n is a sequence.
LEMMA FunctionIsSeq ==
  ASSUME NEW T, NEW n \in Nat, NEW f \in [1 .. n -> T]
  PROVE  f \in Seq(T) /\ Len(f) = n
OBVIOUS

LEMMA PickedIs ==
  ASSUME NEW T, NEW q \in Seq(T), NEW P \in SUBSET DOMAIN q
  PROVE  /\ Picked(q, P) \in Seq(T)
         /\ Len(Picked(q, P)) = Cardinality(P) /\ Cardinality(P) <= Len(q)
         /\ \A n \in DOMAIN Picked(q, P) :
              Ascending(P)[n] \in P /\ Picked(q, P)[n] = q[Ascending(P)[n]]
<1>1. Len(q) \in Nat /\ DOMAIN q = 1 .. Len(q) /\ q \in [1 .. Len(q) -> T]
  BY LenProperties
<1>2. P \subseteq Nat /\ IsFiniteSet(P) /\ Cardinality(P) <= Len(q)
  <2>1. IsFiniteSet(1 .. Len(q)) /\ Cardinality(1 .. Len(q)) = Len(q)
    <3>1. 1 \in Int /\ Len(q) \in Int /\ Len(q) >= 0
      BY <1>1
    <3>2. /\ IsFiniteSet(1 .. Len(q))
          /\ Cardinality(1 .. Len(q)) = IF 1 > Len(q) THEN 0 ELSE Len(q) - 1 + 1
      BY <3>1, FS_Interval
    <3> QED BY <3>1, <3>2
  <2> QED BY <1>1, <2>1, FS_Subset
<1>3. /\ Cardinality(P) \in Nat
      /\ Ascending(P) \in [1 .. Cardinality(P) -> P]
  BY <1>2, AscendingIs
<1>4. Picked(q, P) \in [1 .. Cardinality(P) -> T]
  BY <1>1, <1>3 DEF Picked
<1>5. Picked(q, P) \in Seq(T) /\ Len(Picked(q, P)) = Cardinality(P)
  BY <1>3, <1>4, FunctionIsSeq
<1>6. \A n \in 1 .. Cardinality(P) : Ascending(P)[n] \in P /\ Picked(q, P)[n] = q[Ascending(P)[n]]
  <2>1. \A n \in 1 .. Cardinality(P) : Picked(q, P)[n] = q[Ascending(P)[n]]
    BY DEF Picked
  <2>2. \A n \in 1 .. Cardinality(P) : Ascending(P)[n] \in P
    BY <1>3
  <2> QED BY <2>1, <2>2
<1>7. DOMAIN Picked(q, P) = 1 .. Cardinality(P)
  BY <1>4
<1> QED BY <1>2, <1>5, <1>6, <1>7

LEMMA QueuedIs ==
  ASSUME NEW T, NEW q \in Seq(T)
  PROVE  /\ Queued(q) \in Seq(T) /\ Len(Queued(q)) <= QueueCapacity
         /\ Len(Queued(q)) <= Len(q)
         /\ Len(Queued(q)) < Len(q) => Len(Queued(q)) = QueueCapacity
         /\ \A n \in 1 .. Len(Queued(q)) :
              Queued(q)[n] = q[Len(q) - Len(Queued(q)) + n]
<1> DEFINE first == Max({1, Len(q) - QueueCapacity + 1})
<1>1. Len(q) \in Nat /\ QueueCapacity \in Nat \ {0} /\ \A i \in 1 .. Len(q) : q[i] \in T
  BY SlotsAssumption, LenProperties, ElementOfSeq
<1>2. first = IF Len(q) >= QueueCapacity THEN Len(q) - QueueCapacity + 1 ELSE 1
  <2>1. {1, Len(q) - QueueCapacity + 1} \subseteq Int
    BY <1>1
  <2> QED BY <1>1, <2>1 DEF Max
<1> HIDE DEF first
<1>3. first \in Nat \ {0} /\ first <= Len(q) + 1
  BY <1>1, <1>2
<1>4. \A i \in first .. Len(q) : q[i] \in T
  BY <1>1, <1>3
<1>5. Queued(q) = SubSeq(q, first, Len(q))
  BY DEF Queued, first
<1>6. /\ Queued(q) \in Seq(T)
      /\ Len(Queued(q)) = IF first <= Len(q) THEN Len(q) - first + 1 ELSE 0
      /\ \A n \in 1 .. Len(q) - first + 1 : Queued(q)[n] = q[first + n - 1]
  <2>1. first \in Int /\ Len(q) \in Int
    BY <1>1, <1>3
  <2> QED BY <1>4, <1>5, <2>1, SubSeqProperties
<1> DEFINE n == Len(Queued(q))
<1>7. n \in Nat /\ n = Len(q) - first + 1
  BY <1>1, <1>3, <1>6
<1>8. \A i \in 1 .. n : Queued(q)[i] = q[Len(q) - n + i]
  <2> SUFFICES ASSUME NEW i \in 1 .. n PROVE Queued(q)[i] = q[Len(q) - n + i]
    OBVIOUS
  <2>1. i \in 1 .. Len(q) - first + 1 /\ Len(q) - n + i = first + i - 1
    BY <1>1, <1>3, <1>7
  <2> QED BY <1>6, <2>1
<1>9. n <= QueueCapacity /\ n <= Len(q) /\ (n < Len(q) => n = QueueCapacity)
  <2>1. CASE Len(q) >= QueueCapacity
    <3>1. first = Len(q) - QueueCapacity + 1
      BY <1>2, <2>1
    <3> QED BY <1>1, <1>7, <2>1, <3>1
  <2>2. CASE ~(Len(q) >= QueueCapacity)
    <3>1. first = 1
      BY <1>2, <2>2
    <3> QED BY <1>1, <1>7, <2>2, <3>1
  <2> QED BY <2>1, <2>2
<1> QED BY <1>6, <1>8, <1>9
-----------------------------------------------------------------------------
LEMMA ActorsStart == Init /\ ActorInit => AInv
<1> SUFFICES ASSUME Init, ActorInit PROVE AInv
  OBVIOUS
<1>1. \A k \in Kinds : \A s \in SlotsOf(k) : slots[k][s] = Empty
  BY DEF ActorInit
<1>2. Empty \in Slot /\ Unused \in NativeActor /\ Empty.active = FALSE
  BY Sizes DEF Empty, Unused, Slot, NativeActor, NoId
<1>3. Tables
  <2>1. slots = [kind \in Kinds |-> slots[kind]]
    BY DEF ActorInit
  <2>2. \A kind \in Kinds : slots[kind] \in [SlotsOf(kind) -> Slot]
    BY <1>2 DEF ActorInit
  <2>3. pool \in [Pool -> NativeActor] /\ held = {} /\ retired = {}
    BY <1>2 DEF ActorInit
  <2>4. /\ reference \in [id : Pool \cup {NoId}, who : 0 .. MaxToken]
        /\ nextToken \in 0 .. MaxToken
    BY Sizes DEF ActorInit, NoReference
  <2>5. linkActive \in BOOLEAN
    BY DEF Init
  <2> QED BY <2>1, <2>2, <2>3, <2>4, <2>5 DEF Tables
<1>4. Owned /\ Apart /\ NoLinkNoActors
  BY <1>1, <1>2 DEF Owned, Apart, NoLinkNoActors
<1>5. Known /\ Exact
  BY DEF ActorInit, Known, Exact
<1> QED BY <1>3, <1>4, <1>5 DEF AInv

\* A step that leaves the handles alone and no native actor becomes another.
LEMMA SameActorsKeep ==
  ASSUME AInv, UNCHANGED <<slots, nextToken, held, retired, linkActive>>,
         pool' \in [Pool -> NativeActor],
         \A i \in Pool : pool'[i].inUse = pool[i].inUse /\ pool'[i].who = pool[i].who,
         reference' \in [id : Pool \cup {NoId}, who : 0 .. MaxToken]
  PROVE  AInv'
<1>1. Tables'
  BY DEF AInv, Tables
<1>2. Owned'
  BY DEF AInv, Owned
<1>3. Apart' /\ Known' /\ NoLinkNoActors' /\ Exact'
  BY DEF AInv, Apart, Known, NoLinkNoActors, Exact
<1> QED BY <1>1, <1>2, <1>3 DEF AInv

\* A step after which no slot is in use and the host has been told so.
LEMMA NoActorsKeep ==
  ASSUME AInv, slots' = [kind \in Kinds |-> slots'[kind]],
         \A k \in Kinds : slots'[k] \in [SlotsOf(k) -> Slot],
         \A k \in Kinds : \A s \in SlotsOf(k) : ~slots'[k][s].active,
         held' = {}, retired' \subseteq retired \cup held,
         pool' \in [Pool -> NativeActor],
         reference' \in [id : Pool \cup {NoId}, who : 0 .. MaxToken],
         UNCHANGED nextToken, linkActive' \in BOOLEAN
  PROVE  AInv'
<1>1. Tables'
  BY DEF AInv, Tables
<1>2. Owned' /\ Apart' /\ NoLinkNoActors'
  BY DEF Owned, Apart, NoLinkNoActors
<1>3. Known'
  BY DEF AInv, Known
<1>4. Exact'
  BY DEF AInv, Tables, Handles, Exact
<1> QED BY <1>1, <1>2, <1>3, <1>4 DEF AInv

\* A new actor: slot s of a kind and native actor i were free.
LEMMA CreateKeeps ==
  ASSUME AInv, NEW kind \in Kinds, NEW hurt \in BOOLEAN, CreateActor(kind, hurt)
  PROVE  AInv'
<1> DEFINE s == Min(SlotsOf(kind) \ Active(kind))
           i == Min(Takable)
           token == nextToken + 1
           native == [inUse |-> TRUE, legacy |-> kind = "target", hurt |-> hurt,
                      overlap |-> FALSE, who |-> token]
           slot == [active |-> TRUE, nativeId |-> i, token |-> token]
           handle == [kind |-> kind, slot |-> s, token |-> token]
<1>1. /\ linkActive /\ linkActive' = linkActive
      /\ Active(kind) # SlotsOf(kind) /\ Takable # {} /\ nextToken < MaxToken
      /\ nextToken' = token
      /\ pool' = [pool EXCEPT ![i] = native]
      /\ slots' = [slots EXCEPT ![kind][s] = slot]
      /\ held' = held \cup {handle} /\ retired' = retired
      /\ reference' = reference
  BY DEF CreateActor, vars, linkVars
<1>2. s \in SlotsOf(kind) /\ ~slots[kind][s].active
  <2>1. Active(kind) \subseteq SlotsOf(kind)
    BY DEF Active
  <2>2. SlotsOf(kind) \ Active(kind) \subseteq Nat
        /\ SlotsOf(kind) \ Active(kind) # {}
    BY <1>1, <2>1, Sizes
  <2>3. s \in SlotsOf(kind) \ Active(kind)
    BY <2>2, LeastExists
  <2> QED BY <2>3 DEF Active
<1>3. i \in Pool /\ ~pool[i].inUse
  <2>1. Takable \subseteq Nat
    BY Sizes DEF Takable
  <2>2. i \in Takable
    BY <1>1, <2>1, LeastExists
  <2> QED BY <2>2 DEF Takable, InUse
<1>4. token \in 1 .. MaxToken /\ token \in 0 .. MaxToken /\ token > nextToken
      /\ nextToken \in Nat
  BY <1>1, Sizes DEF AInv, Tables
<1>5. native \in NativeActor /\ native.inUse /\ native.who = token
  <2>1. (kind = "target") \in BOOLEAN
    OBVIOUS
  <2> QED BY <1>4, <2>1 DEF NativeActor
<1>6. slot \in Slot /\ slot.active /\ slot.nativeId = i /\ slot.token = token
  BY <1>3, <1>4 DEF Slot
<1>7. handle \in Handles /\ handle.kind = kind /\ handle.slot = s
      /\ handle.token = token
  <2>1. s \in 1 .. Max({TargetSlots, ActorSlots})
    <3>1. {TargetSlots, ActorSlots} \subseteq Nat
      BY SlotsAssumption
    <3>2. Max({TargetSlots, ActorSlots}) = IF TargetSlots >= ActorSlots
                                           THEN TargetSlots ELSE ActorSlots
      BY <3>1 DEF Max
    <3> QED BY <3>1, <3>2, <1>2 DEF SlotsOf
  <2> QED BY <1>4, <2>1 DEF Handles
<1> HIDE DEF s, i, token, native, slot, handle
<1>8. /\ slots' = [k \in Kinds |-> slots'[k]]
      /\ \A k \in Kinds : slots'[k] = IF k = kind THEN [slots[k] EXCEPT ![s] = slot]
                                      ELSE slots[k]
  BY <1>1 DEF AInv, Tables
<1>9. \A k \in Kinds : \A t \in SlotsOf(k) :
        slots'[k][t] = IF k = kind /\ t = s THEN slot ELSE slots[k][t]
  BY <1>8 DEF AInv, Tables
<1>10. pool' \in [Pool -> NativeActor]
       /\ \A j \in Pool : pool'[j] = IF j = i THEN native ELSE pool[j]
  BY <1>1, <1>3, <1>5 DEF AInv, Tables
<1>11. Tables'
  <2>1. \A k \in Kinds : slots'[k] \in [SlotsOf(k) -> Slot]
    BY <1>8, <1>6, <1>2 DEF AInv, Tables
  <2>2. held' \subseteq Handles /\ retired' \subseteq Handles
    BY <1>1, <1>7 DEF AInv, Tables
  <2>3. nextToken' \in 0 .. MaxToken
    BY <1>1, <1>4
  <2>4. /\ reference' \in [id : Pool \cup {NoId}, who : 0 .. MaxToken]
        /\ linkActive' \in BOOLEAN
    BY <1>1 DEF AInv, Tables
  <2> QED BY <1>8, <1>10, <2>1, <2>2, <2>3, <2>4 DEF Tables
<1>12. Owned'
  <2> SUFFICES ASSUME NEW k \in Kinds, NEW t \in SlotsOf(k), slots'[k][t].active
               PROVE  /\ slots'[k][t].nativeId \in Pool
                      /\ pool'[slots'[k][t].nativeId].inUse
                      /\ pool'[slots'[k][t].nativeId].who = slots'[k][t].token
                      /\ slots'[k][t].token <= nextToken'
    BY DEF Owned
  <2>1. CASE k = kind /\ t = s
    BY <2>1, <1>9, <1>10, <1>6, <1>5, <1>3, <1>1, <1>4
  <2>2. CASE ~(k = kind /\ t = s)
    <3>1. slots'[k][t] = slots[k][t]
      BY <2>2, <1>9
    <3>2. /\ slots[k][t].nativeId \in Pool /\ pool[slots[k][t].nativeId].inUse
          /\ pool[slots[k][t].nativeId].who = slots[k][t].token
          /\ slots[k][t].token <= nextToken
      BY <3>1 DEF AInv, Owned
    <3>3. pool'[slots[k][t].nativeId] = pool[slots[k][t].nativeId]
      BY <3>2, <1>3, <1>10
    <3>4. slots[k][t].token \in Nat
      BY Sizes DEF AInv, Tables, Slot
    <3> QED BY <3>1, <3>2, <3>3, <3>4, <1>1, <1>4
  <2> QED BY <2>1, <2>2
<1>13. \A k \in Kinds : \A t \in SlotsOf(k) :
         slots[k][t].active => slots[k][t].token # token
  <2> SUFFICES ASSUME NEW k \in Kinds, NEW t \in SlotsOf(k), slots[k][t].active
               PROVE  slots[k][t].token # token
    OBVIOUS
  <2>1. slots[k][t].token <= nextToken /\ slots[k][t].token \in Nat
    BY Sizes DEF AInv, Owned, Tables, Slot
  <2> QED BY <2>1, <1>4
<1>14. Apart'
  BY <1>9, <1>13, <1>6 DEF AInv, Apart
<1>15. \A h \in held \cup retired : h.token <= nextToken /\ h.token \in Nat
  BY Sizes DEF AInv, Known, Tables, Handles
<1>16. Known'
  BY <1>15, <1>7, <1>1, <1>4 DEF Known
<1>17. NoLinkNoActors'
  BY <1>1 DEF NoLinkNoActors
<1>18. Exact'
  <2>1. ASSUME NEW h \in held'
        PROVE  /\ h.slot \in SlotsOf(h.kind) /\ slots'[h.kind][h.slot].active
               /\ slots'[h.kind][h.slot].token = h.token
    <3>1. CASE h = handle
      BY <3>1, <1>7, <1>2, <1>9, <1>6
    <3>2. CASE h \in held
      <4>1. h.kind \in Kinds /\ h.slot \in SlotsOf(h.kind)
            /\ slots[h.kind][h.slot].active
            /\ slots[h.kind][h.slot].token = h.token
        BY <3>2 DEF AInv, Exact, Tables, Handles
      <4> QED BY <4>1, <1>2, <1>9
    <3> QED BY <3>1, <3>2, <1>1
  <2>2. ASSUME NEW h \in retired', h.slot \in SlotsOf(h.kind)
        PROVE  ~(slots'[h.kind][h.slot].active
                   /\ slots'[h.kind][h.slot].token = h.token)
    <3>1. h \in retired /\ h.kind \in Kinds /\ h.token # token
      BY <2>2, <1>1, <1>15, <1>4 DEF AInv, Tables, Handles
    <3>2. ~(slots[h.kind][h.slot].active /\ slots[h.kind][h.slot].token = h.token)
      BY <2>2, <3>1 DEF AInv, Exact
    <3> QED BY <2>2, <3>1, <3>2, <1>9, <1>6
  <2> QED BY <2>1, <2>2 DEF Exact
<1> QED BY <1>11, <1>12, <1>14, <1>16, <1>17, <1>18 DEF AInv

\* A step that gives up the slots D, with the native actors ids they point to
\* and the handles that name them.
GivesUp(D, ids) ==
  /\ slots' = [k \in Kinds |-> slots'[k]]
  /\ \A k \in Kinds : slots'[k] \in [SlotsOf(k) -> Slot]
  /\ \A k \in Kinds : \A s \in SlotsOf(k) :
       /\ <<k, s>> \in D => ~slots'[k][s].active
       /\ <<k, s>> \notin D => slots'[k][s] = slots[k][s]
       /\ <<k, s>> \in D /\ slots[k][s].active => slots[k][s].nativeId \in ids
  /\ \A i \in ids : \E k \in Kinds : \E s \in SlotsOf(k) :
       <<k, s>> \in D /\ slots[k][s].active /\ slots[k][s].nativeId = i
  /\ pool' \in [Pool -> NativeActor]
  /\ \A i \in Pool : IF i \in ids THEN ~pool'[i].inUse ELSE pool'[i] = pool[i]
  /\ \A h \in held' : h \in held /\ <<h.kind, h.slot>> \notin D
  /\ \A h \in retired' : h \in retired \/ (h \in held /\ <<h.kind, h.slot>> \in D)
  /\ UNCHANGED <<nextToken, linkActive, reference>>

LEMMA GivenUpKeep ==
  ASSUME AInv, NEW D, NEW ids, GivesUp(D, ids)
  PROVE  AInv'
<1> USE DEF GivesUp
<1>1. held' \subseteq held /\ retired' \subseteq retired \cup held
  OBVIOUS
<1>2. Tables'
  BY <1>1 DEF AInv, Tables
<1>3. ASSUME NEW k \in Kinds, NEW s \in SlotsOf(k), slots'[k][s].active
      PROVE  /\ <<k, s>> \notin D /\ slots'[k][s] = slots[k][s] /\ slots[k][s].active
             /\ slots[k][s].nativeId \in Pool
             /\ slots[k][s].nativeId \notin ids
             /\ pool'[slots[k][s].nativeId] = pool[slots[k][s].nativeId]
  <2>1. <<k, s>> \notin D /\ slots'[k][s] = slots[k][s] /\ slots[k][s].active
    BY <1>3
  <2>2. slots[k][s].nativeId \in Pool
        /\ pool[slots[k][s].nativeId].who = slots[k][s].token
    BY <2>1 DEF AInv, Owned
  <2>3. slots[k][s].nativeId \notin ids
    <3> SUFFICES ASSUME slots[k][s].nativeId \in ids PROVE FALSE
      OBVIOUS
    <3>1. PICK l \in Kinds : \E t \in SlotsOf(l) :
            <<l, t>> \in D /\ slots[l][t].active
            /\ slots[l][t].nativeId = slots[k][s].nativeId
      OBVIOUS
    <3>2. PICK t \in SlotsOf(l) :
            <<l, t>> \in D /\ slots[l][t].active
            /\ slots[l][t].nativeId = slots[k][s].nativeId
      BY <3>1
    <3>3. slots[l][t].token = slots[k][s].token
      BY <3>2, <2>2 DEF AInv, Owned
    <3>4. l = k /\ t = s
      BY <3>2, <3>3, <2>1 DEF AInv, Apart
    <3> QED BY <3>2, <3>4, <2>1
  <2>4. pool'[slots[k][s].nativeId] = pool[slots[k][s].nativeId]
    BY <2>2, <2>3
  <2> QED BY <2>1, <2>2, <2>3, <2>4
<1>4. Owned'
  <2> SUFFICES ASSUME NEW k \in Kinds, NEW s \in SlotsOf(k), slots'[k][s].active
               PROVE  /\ slots'[k][s].nativeId \in Pool
                      /\ pool'[slots'[k][s].nativeId].inUse
                      /\ pool'[slots'[k][s].nativeId].who = slots'[k][s].token
                      /\ slots'[k][s].token <= nextToken'
    BY DEF Owned
  <2>1. /\ slots'[k][s] = slots[k][s] /\ slots[k][s].active
        /\ pool'[slots[k][s].nativeId] = pool[slots[k][s].nativeId]
    BY <1>3
  <2>2. /\ slots[k][s].nativeId \in Pool /\ pool[slots[k][s].nativeId].inUse
        /\ pool[slots[k][s].nativeId].who = slots[k][s].token
        /\ slots[k][s].token <= nextToken
    BY <2>1 DEF AInv, Owned
  <2> QED BY <2>1, <2>2
<1>5. Apart'
  <2> SUFFICES ASSUME NEW k \in Kinds, NEW l \in Kinds,
                      NEW s \in SlotsOf(k), NEW t \in SlotsOf(l),
                      slots'[k][s].active, slots'[l][t].active,
                      slots'[k][s].token = slots'[l][t].token
               PROVE  k = l /\ s = t
    BY DEF Apart
  <2>1. slots'[k][s] = slots[k][s] /\ slots[k][s].active
    BY <1>3
  <2>2. slots'[l][t] = slots[l][t] /\ slots[l][t].active
    BY <1>3
  <2> QED BY <2>1, <2>2 DEF AInv, Apart
<1>6. NoLinkNoActors'
  <2> SUFFICES ASSUME ~linkActive, NEW k \in Kinds, NEW s \in SlotsOf(k),
                      slots'[k][s].active
               PROVE  FALSE
    BY DEF NoLinkNoActors
  <2>1. slots[k][s].active
    BY <1>3
  <2> QED BY <2>1 DEF AInv, NoLinkNoActors
<1>7. Known'
  BY <1>1 DEF AInv, Known
<1>8. Exact'
  <2>1. ASSUME NEW h \in held'
        PROVE  /\ h.slot \in SlotsOf(h.kind) /\ slots'[h.kind][h.slot].active
               /\ slots'[h.kind][h.slot].token = h.token
    <3>1. h \in held /\ h.kind \in Kinds /\ <<h.kind, h.slot>> \notin D
      BY <2>1 DEF AInv, Tables, Handles
    <3>2. h.slot \in SlotsOf(h.kind) /\ slots[h.kind][h.slot].active
          /\ slots[h.kind][h.slot].token = h.token
      BY <3>1 DEF AInv, Exact
    <3>3. slots'[h.kind][h.slot] = slots[h.kind][h.slot]
      BY <3>1, <3>2
    <3> QED BY <3>2, <3>3
  <2>2. ASSUME NEW h \in retired', h.slot \in SlotsOf(h.kind),
               slots'[h.kind][h.slot].active,
               slots'[h.kind][h.slot].token = h.token
        PROVE  FALSE
    <3>1. h \in held \cup retired /\ h.kind \in Kinds
      <4>1. h \in held \cup retired
        BY <2>2
      <4>2. h \in Handles
        BY <4>1 DEF AInv, Tables
      <4> QED BY <4>1, <4>2 DEF Handles
    <3>2. <<h.kind, h.slot>> \notin D /\ slots'[h.kind][h.slot] = slots[h.kind][h.slot]
          /\ slots[h.kind][h.slot].active
      BY <2>2, <3>1, <1>3
    <3>3. h \in retired
      BY <2>2, <3>2
    <3>4. ~(slots[h.kind][h.slot].active /\ slots[h.kind][h.slot].token = h.token)
      BY <2>2, <3>3 DEF AInv, Exact
    <3> QED BY <2>2, <3>2, <3>4
  <2> QED BY <2>1, <2>2 DEF Exact
<1> QED BY <1>2, <1>4, <1>5, <1>6, <1>7, <1>8 DEF AInv

-----------------------------------------------------------------------------
\* A native actor without a handle, spelled out.
LEMMA OrphanIs ==
  \A i : i \in Orphans <=>
    /\ i \in Pool /\ pool[i].inUse
    /\ \A k \in Kinds : \A s \in SlotsOf(k) :
         ~(slots[k][s].active /\ slots[k][s].nativeId = i)
BY DEF Orphans, InUse, Native, Active

LEMMA OrphanWillBe ==
  \A i : i \in Orphans' <=>
    /\ i \in Pool /\ pool'[i].inUse
    /\ \A k \in Kinds : \A s \in SlotsOf(k) :
         ~(slots'[k][s].active /\ slots'[k][s].nativeId = i)
BY DEF Orphans, InUse, Native, Active

LEMMA SameActorsNoOrphans ==
  ASSUME UNCHANGED slots, \A i \in Pool : pool'[i].inUse = pool[i].inUse
  PROVE  Orphans' \subseteq Orphans
BY OrphanIs, OrphanWillBe

LEMMA GivenUpNoOrphans ==
  ASSUME NEW D, NEW ids, GivesUp(D, ids)
  PROVE  Orphans' \subseteq Orphans
<1> USE DEF GivesUp
<1> SUFFICES ASSUME NEW i \in Orphans' PROVE i \in Orphans
  OBVIOUS
<1>1. i \in Pool /\ pool'[i].inUse
  BY OrphanWillBe
<1>2. i \notin ids /\ pool[i].inUse
  BY <1>1
<1>3. ASSUME NEW k \in Kinds, NEW s \in SlotsOf(k),
             slots[k][s].active, slots[k][s].nativeId = i
      PROVE  FALSE
  <2>1. <<k, s>> \notin D
    BY <1>2, <1>3
  <2>2. slots'[k][s] = slots[k][s]
    BY <2>1
  <2> QED BY <2>2, <1>3, OrphanWillBe
<1> QED BY <1>1, <1>2, <1>3, OrphanIs

LEMMA EmptyPoolNoOrphans ==
  ASSUME pool' = [i \in Pool |-> IF i \in Pool THEN Unused ELSE pool[i]]
  PROVE  Orphans' = {}
BY OrphanWillBe DEF Unused

-----------------------------------------------------------------------------
\* The calls, one lemma for each.
NoneOrphaned == Orphans' \subseteq Orphans

LEMMA CreateStep ==
  ASSUME AInv, NEW kind \in Kinds, NEW hurt \in BOOLEAN, CreateActor(kind, hurt)
  PROVE  AInv' /\ NoneOrphaned
<1>1. AInv'
  BY CreateKeeps
<1> DEFINE s == Min(SlotsOf(kind) \ Active(kind))
           i == Min(Takable)
           token == nextToken + 1
           native == [inUse |-> TRUE, legacy |-> kind = "target", hurt |-> hurt,
                      overlap |-> FALSE, who |-> token]
           slot == [active |-> TRUE, nativeId |-> i, token |-> token]
<1>2. /\ pool' = [pool EXCEPT ![i] = native]
      /\ slots' = [slots EXCEPT ![kind][s] = slot]
      /\ Active(kind) # SlotsOf(kind)
  BY DEF CreateActor
<1>3. slot.active /\ slot.nativeId = i
  OBVIOUS
<1>4. s \in SlotsOf(kind) /\ ~slots[kind][s].active
  <2>1. SlotsOf(kind) \ Active(kind) \subseteq Nat
        /\ SlotsOf(kind) \ Active(kind) # {}
    BY <1>2, Sizes DEF Active
  <2> QED BY <2>1, LeastExists DEF Active
<1> HIDE DEF s, i, native, slot
<1>5. \A k \in Kinds : \A t \in SlotsOf(k) :
        slots'[k][t] = IF k = kind /\ t = s THEN slot ELSE slots[k][t]
  BY <1>2, <1>4 DEF AInv, Tables
<1>6. \A j \in Pool : j # i => pool'[j] = pool[j]
  BY <1>2 DEF AInv, Tables
<1>7. ASSUME NEW j \in Orphans' PROVE j \in Orphans
  <2>1. j \in Pool /\ pool'[j].inUse
        /\ \A k \in Kinds : \A t \in SlotsOf(k) :
             ~(slots'[k][t].active /\ slots'[k][t].nativeId = j)
    BY OrphanWillBe
  <2>2. j # i
    BY <2>1, <1>3, <1>4, <1>5
  <2>3. pool[j].inUse
    BY <2>1, <2>2, <1>6
  <2>4. ASSUME NEW k \in Kinds, NEW t \in SlotsOf(k),
               slots[k][t].active, slots[k][t].nativeId = j
        PROVE  FALSE
    <3>1. ~(k = kind /\ t = s)
      BY <2>4, <1>4
    <3>2. slots'[k][t] = slots[k][t]
      BY <3>1, <1>5
    <3> QED BY <3>2, <2>4, <2>1
  <2> QED BY <2>1, <2>3, <2>4, OrphanIs
<1> QED BY <1>1, <1>7 DEF NoneOrphaned

\* An update changes nothing by which an actor is known.
LEMMA UpdateIdentity ==
  ASSUME AInv, NEW h \in held \cup retired, NEW hurt \in BOOLEAN,
         UpdateActor(h, hurt)
  PROVE  /\ pool' \in [Pool -> NativeActor]
         /\ \A i \in Pool : pool'[i].inUse = pool[i].inUse /\ pool'[i].who = pool[i].who
<1> DEFINE i == slots[h.kind][h.slot].nativeId
<1>1. /\ pool' = [pool EXCEPT ![i].hurt = hurt, ![i].overlap = @ /\ hurt]
      /\ UNCHANGED <<slots, reference, nextToken, held, retired, linkActive>>
  BY DEF UpdateActor, vars, linkVars
<1>2. i \in Pool
  <2>1. h.kind \in Kinds
    <3>1. h \in Handles
      BY SMTT(40) DEF AInv, Tables
    <3> QED BY <3>1 DEF Handles
  <2>2. h.slot \in SlotsOf(h.kind) /\ slots[h.kind][h.slot].active
    BY DEF UpdateActor, Finds, Active
  <2> QED BY <2>1, <2>2 DEF AInv, Owned
<1> HIDE DEF i
<1>3. pool[i] \in NativeActor
  BY <1>2 DEF AInv, Tables
<1>4. (pool[i].overlap /\ hurt) \in BOOLEAN
  OBVIOUS
<1>5. pool'[i] = [pool[i] EXCEPT !.hurt = hurt, !.overlap = pool[i].overlap /\ hurt]
      /\ \A j \in Pool : j # i => pool'[j] = pool[j]
  BY <1>1, <1>2 DEF AInv, Tables
<1>5a. pool' = [j \in Pool |-> pool'[j]]
  BY <1>1 DEF AInv, Tables
<1>6. pool'[i] \in NativeActor /\ pool'[i].inUse = pool[i].inUse
      /\ pool'[i].who = pool[i].who
  BY <1>3, <1>4, <1>5 DEF NativeActor
<1>7. /\ pool' \in [Pool -> NativeActor]
      /\ \A j \in Pool : pool'[j].inUse = pool[j].inUse /\ pool'[j].who = pool[j].who
  <2>1. ASSUME NEW j \in Pool PROVE pool'[j] \in NativeActor
    <3>1. pool[j] \in NativeActor
      BY DEF AInv, Tables
    <3> QED BY <3>1, <1>5, <1>6
  <2>2. ASSUME NEW j \in Pool
        PROVE  pool'[j].inUse = pool[j].inUse /\ pool'[j].who = pool[j].who
    <3>1. CASE j = i
      BY <3>1, <1>6
    <3>2. CASE j # i
      BY <3>2, <1>5
    <3> QED BY <3>1, <3>2
  <2>3. pool' \in [Pool -> NativeActor]
    <3>1. \A j \in Pool : pool'[j] \in NativeActor
      BY <2>1
    <3> QED BY <3>1, <1>5a, Zenon
  <2> QED BY <2>2, <2>3
<1> QED BY <1>7, SMTT(40)

LEMMA UpdateStep ==
  ASSUME AInv, NEW h \in held \cup retired, NEW hurt \in BOOLEAN,
         UpdateActor(h, hurt)
  PROVE  AInv' /\ NoneOrphaned
<1>1. UNCHANGED <<slots, reference, nextToken, held, retired, linkActive>>
  BY DEF UpdateActor, vars, linkVars
<1>2. reference' \in [id : Pool \cup {NoId}, who : 0 .. MaxToken]
  BY <1>1 DEF AInv, Tables
<1> QED BY <1>1, <1>2, UpdateIdentity, SameActorsKeep, SameActorsNoOrphans, SMTT(40)
        DEF NoneOrphaned

\* The slots of a set of kinds, invalidated.
LEMMA InvalidatedSlots ==
  ASSUME AInv, NEW kinds \in SUBSET Kinds, slots' = Invalidated(kinds)
  PROVE  /\ slots' = [k \in Kinds |-> slots'[k]]
         /\ \A k \in Kinds : slots'[k] \in [SlotsOf(k) -> Slot]
         /\ \A k \in Kinds : \A s \in SlotsOf(k) :
              IF k \in kinds THEN ~slots'[k][s].active
              ELSE slots'[k][s] = slots[k][s]
<1>1. slots' = [k \in Kinds |-> slots'[k]]
  BY Zenon DEF Invalidated
<1>2. \A k \in Kinds : \A s \in SlotsOf(k) : slots[k][s] \in Slot
  BY DEF AInv, Tables
<1>3. ASSUME NEW k \in Kinds
      PROVE  slots'[k] = [s \in SlotsOf(k) |->
               IF k \in kinds THEN [slots[k][s] EXCEPT !.active = FALSE, !.nativeId = NoId]
               ELSE slots[k][s]]
  BY Zenon DEF Invalidated
<1>4. ASSUME NEW k \in Kinds, NEW s \in SlotsOf(k)
      PROVE  LET new == [slots[k][s] EXCEPT !.active = FALSE, !.nativeId = NoId]
             IN  new \in Slot /\ ~new.active
  BY <1>2 DEF Slot
<1>5. ASSUME NEW k \in Kinds PROVE slots'[k] \in [SlotsOf(k) -> Slot]
  <2>1. \A s \in SlotsOf(k) :
          (IF k \in kinds THEN [slots[k][s] EXCEPT !.active = FALSE, !.nativeId = NoId]
           ELSE slots[k][s]) \in Slot
    BY <1>2, <1>4, Zenon
  <2> QED BY <2>1, <1>3, Zenon
<1>6. ASSUME NEW k \in Kinds, NEW s \in SlotsOf(k)
      PROVE  IF k \in kinds THEN ~slots'[k][s].active
             ELSE slots'[k][s] = slots[k][s]
  <2>1. CASE k \in kinds
    <3>1. slots'[k][s] = [slots[k][s] EXCEPT !.active = FALSE, !.nativeId = NoId]
      BY <1>3, <2>1, Zenon
    <3> QED BY <3>1, <2>1, <1>4, Zenon
  <2>2. CASE k \notin kinds
    BY <1>3, <2>2, Zenon
  <2> QED BY <2>1, <2>2
<1> QED BY <1>1, <1>5, <1>6

\* The pool without a set of native actors.
LEMMA ReleasedPool ==
  ASSUME AInv, NEW ids,
         pool' = [i \in Pool |-> IF i \in ids THEN Unused ELSE pool[i]]
  PROVE  /\ pool' \in [Pool -> NativeActor]
         /\ \A i \in Pool : IF i \in ids THEN ~pool'[i].inUse ELSE pool'[i] = pool[i]
<1>1. Unused \in NativeActor /\ ~Unused.inUse
  BY Sizes DEF Unused, NativeActor
<1> QED BY <1>1 DEF AInv, Tables

LEMMA RemoveGivesUp ==
  ASSUME AInv, NEW h \in held \cup retired, RemoveActor(h)
  PROVE  GivesUp({<<h.kind, h.slot>>}, {slots[h.kind][h.slot].nativeId})
<1> DEFINE kind == h.kind
           slot == h.slot
           D == {<<kind, slot>>}
           ids == {slots[kind][slot].nativeId}
<1>1. h \in Handles /\ kind \in Kinds
  <2>1. h \in Handles
    BY DEF AInv, Tables
  <2> QED BY <2>1 DEF Handles
<1>2. slot \in SlotsOf(kind) /\ slots[kind][slot].active
      /\ slots[kind][slot].token = h.token
  BY DEF RemoveActor, Finds, Active
<1>3. /\ slots' = [slots EXCEPT ![kind][slot].active = FALSE,
                                ![kind][slot].nativeId = NoId]
      /\ pool' = [i \in Pool |-> IF i \in ids THEN Unused ELSE pool[i]]
      /\ held' = held \ {h} /\ retired' = retired \cup {h}
      /\ UNCHANGED <<nextToken, linkActive, reference>>
  BY DEF RemoveActor, Release, Retire, vars, linkVars
<1>4. slots[kind][slot] \in Slot
  BY <1>1, <1>2 DEF AInv, Tables
<1> DEFINE new == [slots[kind][slot] EXCEPT !.active = FALSE, !.nativeId = NoId]
<1>5. new \in Slot /\ ~new.active
  BY <1>4, Zenon DEF Slot
<1>6. /\ slots' = [k \in Kinds |-> slots'[k]]
      /\ \A k \in Kinds : slots'[k] = IF k = kind THEN [slots[k] EXCEPT ![slot] = new]
                                      ELSE slots[k]
  BY <1>1, <1>2, <1>3, Zenon DEF AInv, Tables
<1> HIDE DEF new
<1>7. \A k \in Kinds : slots'[k] \in [SlotsOf(k) -> Slot]
  BY <1>2, <1>5, <1>6 DEF AInv, Tables
<1>8. \A k \in Kinds : \A s \in SlotsOf(k) :
        IF <<k, s>> \in D THEN ~slots'[k][s].active
        ELSE slots'[k][s] = slots[k][s]
  <2> SUFFICES ASSUME NEW k \in Kinds, NEW s \in SlotsOf(k)
               PROVE  IF <<k, s>> \in D THEN ~slots'[k][s].active
                      ELSE slots'[k][s] = slots[k][s]
    OBVIOUS
  <2>1. slots[k] \in [SlotsOf(k) -> Slot]
    BY DEF AInv, Tables
  <2>2. CASE k = kind /\ s = slot
    <3>1. slots'[k][s] = new
      BY <2>1, <2>2, <1>6
    <3> QED BY <3>1, <2>2, <1>5
  <2>3. CASE ~(k = kind /\ s = slot)
    <3>1. slots'[k][s] = slots[k][s]
      BY <2>1, <2>3, <1>6
    <3> QED BY <3>1, <2>3
  <2> QED BY <2>2, <2>3
<1>9. \A g \in held' : g \in held /\ <<g.kind, g.slot>> \notin D
  <2>1. ASSUME NEW g \in held, g.kind = kind, g.slot = slot
        PROVE  g = h
    <3>1. g.token = h.token
      BY <2>1, <1>2 DEF AInv, Exact
    <3>2. g \in Handles
      BY DEF AInv, Tables
    <3> QED BY <3>1, <3>2, <2>1, <1>1 DEF Handles
  <2> QED BY <2>1, <1>3
<1>10. \A g \in retired' : g \in retired \/ (g \in held /\ <<g.kind, g.slot>> \in D)
  BY <1>3
<1>11. \A i \in ids : \E k \in Kinds : \E s \in SlotsOf(k) :
         <<k, s>> \in D /\ slots[k][s].active /\ slots[k][s].nativeId = i
  BY <1>1, <1>2
<1>12. \A k \in Kinds : \A s \in SlotsOf(k) :
         <<k, s>> \in D /\ slots[k][s].active => slots[k][s].nativeId \in ids
  OBVIOUS
<1> HIDE DEF D, ids
<1>13. GivesUp(D, ids)
  <2>1. /\ pool' \in [Pool -> NativeActor]
        /\ \A i \in Pool : IF i \in ids THEN ~pool'[i].inUse ELSE pool'[i] = pool[i]
    BY <1>3, ReleasedPool
  <2>2. slots' = [k \in Kinds |-> slots'[k]]
    BY <1>6
  <2>3. \A k \in Kinds : \A s \in SlotsOf(k) :
          /\ <<k, s>> \in D => ~slots'[k][s].active
          /\ <<k, s>> \notin D => slots'[k][s] = slots[k][s]
          /\ <<k, s>> \in D /\ slots[k][s].active => slots[k][s].nativeId \in ids
    BY <1>8, <1>12, Zenon
  <2> QED BY <2>1, <2>2, <2>3, <1>3, <1>7, <1>9, <1>10, <1>11, Zenon DEF GivesUp
<1> QED BY <1>13 DEF D, ids

LEMMA RemoveStep ==
  ASSUME AInv, NEW h \in held \cup retired, RemoveActor(h)
  PROVE  AInv' /\ NoneOrphaned
BY RemoveGivesUp, GivenUpKeep, GivenUpNoOrphans DEF NoneOrphaned

LEMMA ClearGivesUp ==
  ASSUME AInv, NEW kind \in Kinds, ClearActors(kind)
  PROVE  GivesUp({<<kind, s>> : s \in SlotsOf(kind)}, Native(kind))
<1> DEFINE D == {<<kind, s>> : s \in SlotsOf(kind)}
           ids == Native(kind)
<1>1. /\ slots' = Invalidated({kind})
      /\ pool' = [i \in Pool |-> IF i \in ids THEN Unused ELSE pool[i]]
      /\ held' = held \ {h \in held : h.kind = kind}
      /\ retired' = retired \cup {h \in held : h.kind = kind}
      /\ UNCHANGED <<nextToken, linkActive, reference>>
  BY DEF ClearActors, Release, Retire, vars, linkVars
<1>2. /\ slots' = [k \in Kinds |-> slots'[k]]
      /\ \A k \in Kinds : slots'[k] \in [SlotsOf(k) -> Slot]
      /\ \A k \in Kinds : \A s \in SlotsOf(k) :
           IF k \in {kind} THEN ~slots'[k][s].active
           ELSE slots'[k][s] = slots[k][s]
  <2>1. {kind} \in SUBSET Kinds
    OBVIOUS
  <2> QED BY <1>1, <2>1, InvalidatedSlots
<1>3. \A k \in Kinds : \A s \in SlotsOf(k) :
        IF <<k, s>> \in D THEN ~slots'[k][s].active
        ELSE slots'[k][s] = slots[k][s]
  BY <1>2
<1>4. \A h \in held : <<h.kind, h.slot>> \in D <=> h.kind = kind
  BY DEF AInv, Exact
<1>5. \A i \in ids : \E k \in Kinds : \E s \in SlotsOf(k) :
        <<k, s>> \in D /\ slots[k][s].active /\ slots[k][s].nativeId = i
  BY DEF Native, Active
<1>6. \A k \in Kinds : \A s \in SlotsOf(k) :
        <<k, s>> \in D /\ slots[k][s].active => slots[k][s].nativeId \in ids
  BY DEF Native, Active
<1> HIDE DEF D, ids
<1>7. \A h \in held' : h \in held /\ <<h.kind, h.slot>> \notin D
  BY <1>1, <1>4, Zenon
<1>8. \A h \in retired' : h \in retired \/ (h \in held /\ <<h.kind, h.slot>> \in D)
  BY <1>1, <1>4, Zenon
<1>9. GivesUp(D, ids)
  <2>1. /\ pool' \in [Pool -> NativeActor]
        /\ \A i \in Pool : IF i \in ids THEN ~pool'[i].inUse ELSE pool'[i] = pool[i]
    BY <1>1, ReleasedPool
  <2>2. \A k \in Kinds : \A s \in SlotsOf(k) :
          /\ <<k, s>> \in D => ~slots'[k][s].active
          /\ <<k, s>> \notin D => slots'[k][s] = slots[k][s]
          /\ <<k, s>> \in D /\ slots[k][s].active => slots[k][s].nativeId \in ids
    BY <1>3, <1>6, Zenon
  <2> QED BY <2>1, <2>2, <1>1, <1>2, <1>5, <1>7, <1>8 DEF GivesUp
<1> QED BY <1>9 DEF D, ids

LEMMA ClearStep ==
  ASSUME AInv, NEW kind \in Kinds, ClearActors(kind)
  PROVE  AInv' /\ NoneOrphaned
BY ClearGivesUp, GivenUpKeep, GivenUpNoOrphans DEF NoneOrphaned

-----------------------------------------------------------------------------
\* What the session does to the actors.
LEMMA DespawnsAll ==
  ASSUME AInv, Despawn
  PROVE  /\ pool' \in [Pool -> NativeActor] /\ Orphans' = {}
         /\ reference' \in [id : Pool \cup {NoId}, who : 0 .. MaxToken]
<1>1. pool' = [i \in Pool |-> IF i \in Pool THEN Unused ELSE pool[i]]
      /\ reference' = NoReference
  BY DEF Despawn, Release
<1>2. pool' \in [Pool -> NativeActor]
  BY <1>1, ReleasedPool
<1>3. reference' \in [id : Pool \cup {NoId}, who : 0 .. MaxToken]
  BY <1>1, Sizes DEF NoReference
<1> QED BY <1>1, <1>2, <1>3, EmptyPoolNoOrphans

LEMMA CreateLinkStep ==
  ASSUME AInv, CreateLink
  PROVE  AInv' /\ NoneOrphaned
<1>1. /\ ~linkActive /\ linkActive' = TRUE /\ Despawn
      /\ UNCHANGED <<slots, nextToken, held, retired>>
  BY DEF CreateLink, LinkCreate
<1>2. \A k \in Kinds : \A s \in SlotsOf(k) : ~slots[k][s].active
  BY <1>1 DEF AInv, NoLinkNoActors
<1>3. held = {}
  <2> SUFFICES ASSUME NEW h \in held PROVE FALSE
    OBVIOUS
  <2>1. h \in Handles
    BY DEF AInv, Tables
  <2>2. h.kind \in Kinds
    BY <2>1 DEF Handles
  <2> QED BY <2>2, <1>2 DEF AInv, Exact
<1>4. /\ slots' = [k \in Kinds |-> slots'[k]]
      /\ \A k \in Kinds : slots'[k] \in [SlotsOf(k) -> Slot]
  BY <1>1 DEF AInv, Tables
<1>5. AInv'
  BY <1>1, <1>2, <1>3, <1>4, DespawnsAll, NoActorsKeep
<1> QED BY <1>1, <1>5, DespawnsAll DEF NoneOrphaned

\* All handles are taken back.
LEMMA InvalidatesAll ==
  ASSUME AInv, slots' = Invalidated(Kinds), Retire(held),
         pool' \in [Pool -> NativeActor],
         reference' \in [id : Pool \cup {NoId}, who : 0 .. MaxToken],
         UNCHANGED nextToken, linkActive' \in BOOLEAN
  PROVE  AInv'
<1>1. /\ slots' = [k \in Kinds |-> slots'[k]]
      /\ \A k \in Kinds : slots'[k] \in [SlotsOf(k) -> Slot]
      /\ \A k \in Kinds : \A s \in SlotsOf(k) : ~slots'[k][s].active
  BY InvalidatedSlots
<1>2. held' = {} /\ retired' \subseteq retired \cup held
  BY DEF Retire
<1> QED BY <1>1, <1>2, NoActorsKeep

LEMMA DeleteLinkStep ==
  ASSUME AInv, DeleteLink
  PROVE  AInv' /\ NoneOrphaned
<1>1. /\ slots' = Invalidated(Kinds) /\ Despawn /\ Retire(held)
      /\ linkActive' = FALSE /\ UNCHANGED nextToken
  BY DEF DeleteLink, LinkDelete
<1> QED BY <1>1, DespawnsAll, InvalidatesAll DEF NoneOrphaned

LEMMA ChangeAgeStep ==
  ASSUME AInv, NEW age \in Ages, ChangeAge(age)
  PROVE  AInv' /\ (NoneOrphaned \/ age = linkAge)
<1>1. UNCHANGED <<linkActive, nextToken>>
  BY DEF ChangeAge, LinkSetAge, linkVars
<1>2. CASE age = currentAge
  <2>1. UNCHANGED <<slots, held, retired, linkAge>>
    BY <1>2 DEF ChangeAge, LinkSetAge, linkVars
  <2>2. UNCHANGED <<pool, reference>>
    BY <2>1 DEF ChangeAge
  <2>3. AInv'
    BY <1>1, <2>1, <2>2, SameActorsKeep DEF AInv, Tables
  <2> QED BY <2>1, <2>2, <2>3, SameActorsNoOrphans DEF NoneOrphaned
<1>3. CASE age # currentAge
  <2>1. slots' = Invalidated(Kinds) /\ Retire(held) /\ linkAge' = age
    BY <1>3 DEF ChangeAge, LinkSetAge
  <2>2. CASE linkAge' # linkAge
    <3>1. Despawn
      BY <2>2 DEF ChangeAge
    <3> QED BY <1>1, <2>1, <3>1, DespawnsAll, InvalidatesAll
            DEF NoneOrphaned, AInv, Tables
  <2>3. CASE linkAge' = linkAge
    <3>1. UNCHANGED <<pool, reference>>
      BY <2>3 DEF ChangeAge
    <3> QED BY <1>1, <2>1, <2>3, <3>1, InvalidatesAll DEF AInv, Tables
  <2> QED BY <2>2, <2>3
<1> QED BY <1>2, <1>3

LEMMA TickStep ==
  ASSUME AInv, NEW hit \in SUBSET {i \in InUse : pool[i].hurt}, TickActors(hit)
  PROVE  AInv' /\ NoneOrphaned
<1>1. /\ pool' = [i \in Pool |-> [pool[i] EXCEPT !.overlap = i \in hit]]
      /\ UNCHANGED <<slots, nextToken, held, retired>>
  BY DEF TickActors
<1>2. linkActive' = linkActive
  BY DEF TickActors, StepOnce, Tick
<1>3. ASSUME NEW i \in Pool
      PROVE  /\ pool'[i] \in NativeActor
             /\ pool'[i].inUse = pool[i].inUse /\ pool'[i].who = pool[i].who
  <2>1. pool[i] \in NativeActor /\ (i \in hit) \in BOOLEAN
    BY DEF AInv, Tables
  <2> QED BY <1>1, <2>1 DEF NativeActor
<1>4. pool' \in [Pool -> NativeActor]
  BY <1>1, <1>3
<1>5. reference' \in [id : Pool \cup {NoId}, who : 0 .. MaxToken]
  <2>1. PICK r \in {NoReference} \cup {[id |-> i, who |-> pool[i].who] : i \in InUse} :
          reference' = r
    BY DEF TickActors
  <2>2. CASE r = NoReference
    BY <2>1, <2>2, Sizes DEF NoReference
  <2>3. ASSUME NEW i \in InUse, r = [id |-> i, who |-> pool[i].who]
        PROVE  r \in [id : Pool \cup {NoId}, who : 0 .. MaxToken]
    <3>1. i \in Pool
      BY DEF InUse
    <3>2. pool[i].who \in 0 .. MaxToken
      BY <3>1 DEF AInv, Tables, NativeActor
    <3> QED BY <2>3, <3>1, <3>2
  <2> QED BY <2>1, <2>2, <2>3
<1> QED BY <1>1, <1>2, <1>3, <1>4, <1>5, SameActorsKeep, SameActorsNoOrphans
        DEF NoneOrphaned

\* Steps that leave all tables but the ring of contacts alone.
LEMMA QuietStep ==
  ASSUME AInv, UNCHANGED <<slots, pool, reference, nextToken, held, retired, linkActive>>
  PROVE  AInv' /\ NoneOrphaned
<1>1. /\ pool' \in [Pool -> NativeActor]
      /\ reference' \in [id : Pool \cup {NoId}, who : 0 .. MaxToken]
  BY DEF AInv, Tables
<1> QED BY <1>1, SameActorsKeep, SameActorsNoOrphans DEF NoneOrphaned

-----------------------------------------------------------------------------
OnlyAgeOrphans ==
  NoneOrphaned \/ \E age \in Ages : ChangeAge(age) /\ age = linkAge

LEMMA ActorStep ==
  ASSUME AInv, ActorNext
  PROVE  AInv' /\ OnlyAgeOrphans
<1> USE DEF OnlyAgeOrphans
<1>1. CASE \E kind \in Kinds, hurt \in BOOLEAN : CreateActor(kind, hurt)
  BY <1>1, CreateStep
<1>2. CASE \E h \in held \cup retired : RemoveActor(h)
  BY <1>2, RemoveStep
<1>3. CASE \E h \in held \cup retired : \E hurt \in BOOLEAN : UpdateActor(h, hurt)
  BY <1>3, UpdateStep
<1>4. CASE \E kind \in Kinds : ClearActors(kind)
  BY <1>4, ClearStep
<1>5. CASE PollContact
  BY <1>5, QuietStep DEF PollContact, vars, linkVars
<1>6. CASE \E w \in Statics : StaticWorldLoad(w) /\ UNCHANGED actorVars
  BY <1>6, QuietStep DEF StaticWorldLoad, linkVars, actorVars
<1>7. CASE CreateLink
  BY <1>7, CreateLinkStep
<1>8. CASE DeleteLink
  BY <1>8, DeleteLinkStep
<1>9. CASE \E age \in Ages : ChangeAge(age)
  BY <1>9, ChangeAgeStep
<1>10. CASE \E hit \in SUBSET {i \in InUse : pool[i].hurt} : TickActors(hit)
  BY <1>10, TickStep
<1>11. CASE FrozenTick
  BY <1>11, QuietStep DEF FrozenTick, StepOnce, Tick, actorVars
<1> QED BY <1>1, <1>2, <1>3, <1>4, <1>5, <1>6, <1>7, <1>8, <1>9, <1>10, <1>11
        DEF ActorNext

\* The inductive invariant holds.
THEOREM ActorsInvariant == ActorSpec => []AInv
<1>1. Init /\ ActorInit => AInv
  BY ActorsStart
<1>2. AInv /\ [ActorNext]_<<vars, actorVars>> => AInv'
  <2> SUFFICES ASSUME AInv, [ActorNext]_<<vars, actorVars>> PROVE AInv'
    OBVIOUS
  <2>1. CASE ActorNext
    BY <2>1, ActorStep
  <2>2. CASE UNCHANGED <<vars, actorVars>>
    BY <2>2, QuietStep DEF vars, linkVars, actorVars
  <2> QED BY <2>1, <2>2
<1> QED BY <1>1, <1>2, PTL DEF ActorSpec

\* Nothing but a change of age that the native side takes for none leaves an
\* actor in the world that no handle reaches.
THEOREM OnlyAgeLeavesOrphans == ActorSpec => NoNewOrphans
<1>1. AInv /\ [ActorNext]_<<vars, actorVars>> => [OnlyAgeOrphans]_<<vars, actorVars>>
  BY ActorStep
<1>2. ActorSpec => [][OnlyAgeOrphans]_<<vars, actorVars>>
  BY <1>1, ActorsInvariant, PTL DEF ActorSpec
<1> QED BY <1>2, PTL DEF NoNewOrphans, OnlyAgeOrphans, NoneOrphaned

-----------------------------------------------------------------------------
\* A step after which the game points to the same actor as before, in a pool
\* where he has not been replaced, or to nothing.
LEMMA LockKept ==
  ASSUME LockOnKeepsItsActor,
         \/ reference' = NoReference
         \/ /\ reference' = reference
            /\ reference.id \in Pool => \/ ~pool'[reference.id].inUse
                                        \/ pool'[reference.id] = pool[reference.id]
  PROVE  LockOnKeepsItsActor'
BY Sizes DEF LockOnKeepsItsActor, InUse, NoReference

LEMMA LockStep ==
  ASSUME AInv, LockOnKeepsItsActor, ActorNext
  PROVE  LockOnKeepsItsActor'
<1>1. ASSUME NEW kind \in Kinds, NEW hurt \in BOOLEAN, CreateActor(kind, hurt)
      PROVE  LockOnKeepsItsActor'
  <2>1. /\ Takable # {} /\ reference' = reference
        /\ \A j \in Pool : j # Min(Takable) => pool'[j] = pool[j]
    BY <1>1 DEF CreateActor, AInv, Tables
  <2>2. Min(Takable) \in Takable
    BY <2>1, LeastExists, Sizes DEF Takable
  <2>3. Min(Takable) # reference.id
    BY <2>2 DEF Takable
  <2> QED BY <2>1, <2>3, LockKept
<1>2. ASSUME NEW h \in held \cup retired, RemoveActor(h)
      PROVE  LockOnKeepsItsActor'
  <2>1. PICK ids : pool' = [i \in Pool |-> IF i \in ids THEN Unused ELSE pool[i]]
    BY <1>2, SMTT(40) DEF RemoveActor, Release
  <2> QED BY <1>2, <2>1, ReleasedPool, LockKept DEF RemoveActor
<1>3. ASSUME NEW h \in held \cup retired, NEW hurt \in BOOLEAN, UpdateActor(h, hurt)
      PROVE  LockOnKeepsItsActor'
  <2>1. reference' = reference
    BY <1>3 DEF UpdateActor
  <2>2. \A i \in Pool : pool'[i].inUse = pool[i].inUse /\ pool'[i].who = pool[i].who
    BY <1>3, UpdateIdentity
  <2> QED BY <2>1, <2>2 DEF LockOnKeepsItsActor, InUse
<1>4. ASSUME NEW kind \in Kinds, ClearActors(kind)
      PROVE  LockOnKeepsItsActor'
  <2>1. pool' = [i \in Pool |-> IF i \in Native(kind) THEN Unused ELSE pool[i]]
    BY <1>4 DEF ClearActors, Release
  <2> QED BY <1>4, <2>1, ReleasedPool, LockKept DEF ClearActors
<1>5. ASSUME CreateLink \/ DeleteLink
      PROVE  LockOnKeepsItsActor'
  <2>1. Despawn
    BY <1>5 DEF CreateLink, DeleteLink
  <2> QED BY <2>1, LockKept DEF Despawn
<1>6. ASSUME NEW age \in Ages, ChangeAge(age)
      PROVE  LockOnKeepsItsActor'
  BY <1>6, LockKept DEF ChangeAge, Despawn
<1>7. ASSUME NEW hit \in SUBSET {i \in InUse : pool[i].hurt}, TickActors(hit)
      PROVE  LockOnKeepsItsActor'
  <2>1. ASSUME NEW i \in Pool PROVE pool'[i].who = pool[i].who
    <3>1. pool[i] \in NativeActor
      BY DEF AInv, Tables
    <3>2. pool'[i] = [pool[i] EXCEPT !.overlap = i \in hit]
      BY <1>7 DEF TickActors
    <3> QED BY <3>1, <3>2 DEF NativeActor
  <2>2. \/ reference' = NoReference
        \/ \E i \in InUse : reference' = [id |-> i, who |-> pool[i].who]
    BY <1>7 DEF TickActors
  <2>3. CASE reference' = NoReference
    BY <2>3, LockKept
  <2>4. CASE \E i \in InUse : reference' = [id |-> i, who |-> pool[i].who]
    BY <2>1, <2>4 DEF LockOnKeepsItsActor, InUse
  <2> QED BY <2>2, <2>3, <2>4
<1>8. ASSUME \/ PollContact \/ FrozenTick
             \/ \E w \in Statics : StaticWorldLoad(w) /\ UNCHANGED actorVars
      PROVE  LockOnKeepsItsActor'
  BY <1>8 DEF PollContact, FrozenTick, actorVars, LockOnKeepsItsActor, InUse
<1> QED BY <1>1, <1>2, <1>3, <1>4, <1>5, <1>6, <1>7, <1>8 DEF ActorNext

\* Link's lock-on stays with its actor: a new actor never takes the place of one
\* the game still points to.
THEOREM LockOnStays == ActorSpec => []LockOnKeepsItsActor
<1>1. Init /\ ActorInit => LockOnKeepsItsActor
  BY Sizes DEF ActorInit, NoReference, LockOnKeepsItsActor, InUse
<1>2. AInv /\ LockOnKeepsItsActor /\ [ActorNext]_<<vars, actorVars>>
        => LockOnKeepsItsActor'
  <2> SUFFICES ASSUME AInv, LockOnKeepsItsActor, [ActorNext]_<<vars, actorVars>>
               PROVE  LockOnKeepsItsActor'
    OBVIOUS
  <2>1. CASE ActorNext
    BY <2>1, LockStep
  <2>2. CASE UNCHANGED <<vars, actorVars>>
    BY <2>2 DEF actorVars, LockOnKeepsItsActor, InUse
  <2> QED BY <2>1, <2>2
<1> QED BY <1>1, <1>2, ActorsInvariant, PTL DEF ActorSpec

-----------------------------------------------------------------------------
(* The ring of contacts, and the refinement of HostedActors.               *)

\* The whole of a contact, and the tokens of a set of handles.
Contact == [id : Pool, who : 1 .. MaxToken]
TokensOf(handles) == {h.token : h \in handles}

\* A contact can be delivered to the actor it was made for, or to nobody: he is
\* still in the world, and is none of the targets, which the host cannot poll.
Good(c) == c.id \in InUse /\ pool[c.id].who = c.who /\ c.id \notin Native("target")

Ring ==
  /\ contacts \in Seq(Contact) /\ Len(contacts) <= QueueCapacity
  /\ \A n \in DOMAIN contacts : Good(contacts[n])

\* No two native actors carry the same token, and each carries one that the
\* host has been given.
Numbered ==
  /\ \A i \in InUse : pool[i].who \in 1 .. nextToken
                      /\ pool[i].who \in TokensOf(held \cup retired)
  /\ \A i, j \in InUse : pool[i].who = pool[j].who => i = j

\* The host holds a handle to every slot in use.
AllHeld ==
  \A k \in Kinds : \A s \in SlotsOf(k) : slots[k][s].active =>
    [kind |-> k, slot |-> s, token |-> slots[k][s].token] \in held

\* A target cannot be hit.
Passive ==
  \A s \in SlotsOf("target") : slots["target"][s].active =>
    ~pool[slots["target"][s].nativeId].hurt

Tally == Numbered /\ AllHeld /\ Passive

RingInv == Tally /\ Ring

-----------------------------------------------------------------------------
LEMMA TallyStarts == Init /\ ActorInit => RingInv
<1> SUFFICES ASSUME ActorInit PROVE RingInv
  OBVIOUS
<1>1. contacts = <<>>
  BY DEF ActorInit
<1>2. contacts \in Seq(Contact) /\ Len(contacts) = 0 /\ DOMAIN contacts = {}
  BY <1>1
<1>3. Ring
  BY <1>2, SlotsAssumption DEF Ring
<1>4. InUse = {}
  BY DEF InUse, ActorInit, Unused
<1>5. \A k \in Kinds : \A s \in SlotsOf(k) : ~slots[k][s].active
  BY DEF ActorInit, Empty
<1>6. Tally
  BY <1>4, <1>5 DEF Tally, Numbered, AllHeld, Passive, Kinds
<1> QED BY <1>3, <1>6 DEF RingInv

\* A step that leaves the handles alone and no native actor becomes another.
LEMMA SameTally ==
  ASSUME Tally, UNCHANGED <<slots, nextToken, held, retired>>,
         \A i \in Pool : pool'[i].inUse = pool[i].inUse /\ pool'[i].who = pool[i].who,
         \A s \in SlotsOf("target") : slots["target"][s].active =>
           pool'[slots["target"][s].nativeId].hurt = pool[slots["target"][s].nativeId].hurt
  PROVE  Tally'
<1>1. Numbered'
  BY DEF Tally, Numbered, InUse
<1>2. AllHeld' /\ Passive'
  BY DEF Tally, AllHeld, Passive
<1> QED BY <1>1, <1>2 DEF Tally

\* A step after which no slot is in use; the native actors may stay.
LEMMA NoSlotsTally ==
  ASSUME Tally, \A k \in Kinds : \A s \in SlotsOf(k) : ~slots'[k][s].active,
         \A i \in Pool : ~pool'[i].inUse \/ pool'[i] = pool[i],
         held \cup retired \subseteq held' \cup retired', UNCHANGED nextToken
  PROVE  Tally'
<1>1. \A i \in Pool : pool'[i].inUse => pool[i].inUse /\ pool'[i].who = pool[i].who
  OBVIOUS
<1>2. TokensOf(held \cup retired) \subseteq TokensOf(held' \cup retired')
  BY DEF TokensOf
<1>3. Numbered'
  <2>1. ASSUME NEW i \in Pool, pool'[i].inUse
        PROVE  pool'[i].who \in 1 .. nextToken' /\ pool'[i].who \in TokensOf(held' \cup retired')
    BY <1>1, <1>2, <2>1 DEF Tally, Numbered, InUse
  <2>2. ASSUME NEW i \in Pool, NEW j \in Pool, pool'[i].inUse, pool'[j].inUse, pool'[i].who = pool'[j].who
        PROVE  i = j
    BY <1>1, <2>2 DEF Tally, Numbered, InUse
  <2> QED BY <2>1, <2>2 DEF Numbered, InUse, TokensOf
<1>4. AllHeld' /\ Passive'
  BY DEF AllHeld, Passive, Kinds
<1> QED BY <1>3, <1>4 DEF Tally

\* Giving up slots.
LEMMA GivenUpTally ==
  ASSUME AInv, Tally, NEW D, NEW ids, GivesUp(D, ids),
         \A h \in held : <<h.kind, h.slot>> \notin D => h \in held',
         held \cup retired \subseteq held' \cup retired'
  PROVE  Tally'
<1>1. /\ \A i \in Pool : pool'[i].inUse => pool'[i] = pool[i]
      /\ \A k \in Kinds : \A s \in SlotsOf(k) : slots'[k][s].active =>
           slots'[k][s] = slots[k][s] /\ <<k, s>> \notin D
      /\ nextToken' = nextToken
  BY DEF GivesUp
<1>2. TokensOf(held \cup retired) \subseteq TokensOf(held' \cup retired')
  BY DEF TokensOf
<1>3. Numbered'
  <2>1. ASSUME NEW i \in Pool, pool'[i].inUse
        PROVE  pool'[i].who \in 1 .. nextToken' /\ pool'[i].who \in TokensOf(held' \cup retired')
    BY <1>1, <1>2, <2>1 DEF Tally, Numbered, InUse
  <2>2. ASSUME NEW i \in Pool, NEW j \in Pool, pool'[i].inUse, pool'[j].inUse, pool'[i].who = pool'[j].who
        PROVE  i = j
    BY <1>1, <2>2 DEF Tally, Numbered, InUse
  <2> QED BY <2>1, <2>2 DEF Numbered, InUse, TokensOf
<1>4. AllHeld'
  <2> SUFFICES ASSUME NEW k \in Kinds, NEW s \in SlotsOf(k), slots'[k][s].active
               PROVE  [kind |-> k, slot |-> s, token |-> slots'[k][s].token] \in held'
    BY DEF AllHeld
  <2> DEFINE h == [kind |-> k, slot |-> s, token |-> slots[k][s].token]
  <2>1. slots'[k][s] = slots[k][s] /\ <<k, s>> \notin D /\ h.kind = k /\ h.slot = s
    BY <1>1
  <2>2. h \in held
    BY <2>1 DEF Tally, AllHeld
  <2>3. h \in held'
    BY <2>1, <2>2
  <2> QED BY <2>1, <2>3
<1>5. Passive'
  <2> SUFFICES ASSUME NEW s \in SlotsOf("target"), slots'["target"][s].active
               PROVE  ~pool'[slots'["target"][s].nativeId].hurt
    BY DEF Passive
  <2>1. slots'["target"][s] = slots["target"][s]
    BY <1>1 DEF Kinds
  <2>2. AInv'
    BY GivenUpKeep
  <2>3. pool'[slots'["target"][s].nativeId].inUse /\ slots'["target"][s].nativeId \in Pool
    BY <2>2 DEF AInv, Owned, Kinds
  <2> QED BY <1>1, <2>1, <2>3 DEF Tally, Passive
<1> QED BY <1>3, <1>4, <1>5 DEF Tally

\* A new actor: slot s of a kind and native actor i were free.
Creates(kind, hurt, s, i, token) ==
  /\ s \in SlotsOf(kind) /\ ~slots[kind][s].active
  /\ i \in Pool /\ ~pool[i].inUse
  /\ token = nextToken + 1 /\ token \in 1 .. MaxToken /\ nextToken \in Nat
  /\ pool'[i] = [inUse |-> TRUE, legacy |-> kind = "target", hurt |-> hurt,
                 overlap |-> FALSE, who |-> token]
  /\ \A j \in Pool : j # i => pool'[j] = pool[j]
  /\ \A k \in Kinds : \A t \in SlotsOf(k) :
       slots'[k][t] = IF k = kind /\ t = s
                      THEN [active |-> TRUE, nativeId |-> i, token |-> token]
                      ELSE slots[k][t]
  /\ contacts' = Purged({i})
  /\ held' = held \cup {[kind |-> kind, slot |-> s, token |-> token]}
  /\ retired' = retired /\ nextToken' = token

LEMMA Created ==
  ASSUME AInv, NEW kind \in Kinds, NEW hurt \in BOOLEAN, CreateActor(kind, hurt)
  PROVE  \E s, i, token : Creates(kind, hurt, s, i, token)
<1> DEFINE s == Min(SlotsOf(kind) \ Active(kind))
           i == Min(Takable)
           token == nextToken + 1
           native == [inUse |-> TRUE, legacy |-> kind = "target", hurt |-> hurt,
                      overlap |-> FALSE, who |-> token]
           slot == [active |-> TRUE, nativeId |-> i, token |-> token]
           handle == [kind |-> kind, slot |-> s, token |-> token]
<1>1. /\ Active(kind) # SlotsOf(kind) /\ Takable # {} /\ nextToken < MaxToken
      /\ nextToken' = token
      /\ pool' = [pool EXCEPT ![i] = native]
      /\ slots' = [slots EXCEPT ![kind][s] = slot]
      /\ contacts' = Purged({i})
      /\ held' = held \cup {handle} /\ retired' = retired
  BY DEF CreateActor
<1>2. s \in SlotsOf(kind) /\ ~slots[kind][s].active
  <2>1. SlotsOf(kind) \ Active(kind) \subseteq Nat
        /\ SlotsOf(kind) \ Active(kind) # {}
    BY <1>1, Sizes DEF Active
  <2> QED BY <2>1, LeastExists DEF Active
<1>3. i \in Pool /\ ~pool[i].inUse
  <2>1. Takable \subseteq Nat
    BY Sizes DEF Takable
  <2> QED BY <1>1, <2>1, LeastExists DEF Takable, InUse
<1>4. token \in 1 .. MaxToken /\ nextToken \in Nat
  BY <1>1, Sizes DEF AInv, Tables
<1> HIDE DEF s, i, native, slot
<1>5. \A k \in Kinds : \A t \in SlotsOf(k) :
        slots'[k][t] = IF k = kind /\ t = s THEN slot ELSE slots[k][t]
  BY <1>1, <1>2 DEF AInv, Tables
<1>6. pool'[i] = native /\ \A j \in Pool : j # i => pool'[j] = pool[j]
  BY <1>1, <1>3 DEF AInv, Tables
<1>7. Creates(kind, hurt, s, i, token)
  BY <1>1, <1>2, <1>3, <1>4, <1>5, <1>6 DEF Creates, native, slot
<1> QED BY <1>7

LEMMA CreateTally ==
  ASSUME AInv, Tally, NEW kind \in Kinds, NEW hurt \in BOOLEAN, CreateActor(kind, hurt)
  PROVE  Tally'
<1>1. PICK s, i, token : Creates(kind, hurt, s, i, token)
  BY Created
<1> USE DEF Creates
<1>2. kind = "target" => ~hurt
  BY DEF CreateActor
<1>3. pool'[i].inUse /\ pool'[i].who = token /\ pool'[i].hurt = hurt
  BY <1>1
<1>4. token \in TokensOf(held' \cup retired')
      /\ TokensOf(held \cup retired) \subseteq TokensOf(held' \cup retired')
  <2> DEFINE h == [kind |-> kind, slot |-> s, token |-> token]
  <2>1. h \in held' \cup retired' /\ h.token = token
    BY <1>1
  <2>2. held \cup retired \subseteq held' \cup retired'
    BY <1>1
  <2> QED BY <2>1, <2>2, Zenon DEF TokensOf
<1>5. \A j \in Pool : pool[j].inUse => pool[j].who \in 1 .. nextToken /\ j # i
  BY <1>1 DEF Tally, Numbered, InUse
<1>6. Numbered'
  <2>1. ASSUME NEW j \in Pool, pool'[j].inUse
        PROVE  pool'[j].who \in 1 .. nextToken' /\ pool'[j].who \in TokensOf(held' \cup retired')
    <3>1. CASE j = i
      BY <1>1, <1>3, <1>4, <3>1
    <3>2. CASE j # i
      <4>1. pool'[j] = pool[j] /\ j \in InUse
        BY <1>1, <2>1, <3>2 DEF InUse
      <4>2. pool[j].who \in 1 .. nextToken /\ pool[j].who \in TokensOf(held \cup retired)
        BY <4>1 DEF Tally, Numbered
      <4>3. 1 .. nextToken \subseteq 1 .. nextToken'
        BY <1>1
      <4> QED BY <1>4, <4>1, <4>2, <4>3
    <3> QED BY <3>1, <3>2
  <2>2. ASSUME NEW j \in Pool, NEW l \in Pool, pool'[j].inUse, pool'[l].inUse,
               pool'[j].who = pool'[l].who
        PROVE  j = l
    <3>1. \A m \in Pool : pool'[m].inUse /\ m # i => pool'[m].who \in 1 .. nextToken /\ pool[m].inUse
      BY <1>1, <1>5
    <3>2. token \notin 1 .. nextToken
      BY <1>1
    <3>3. CASE j = i \/ l = i
      BY <1>3, <2>2, <3>1, <3>2, <3>3
    <3>4. CASE j # i /\ l # i
      BY <1>1, <2>2, <3>1, <3>4 DEF Tally, Numbered, InUse
    <3> QED BY <3>3, <3>4
  <2> QED BY <2>1, <2>2 DEF Numbered, InUse, TokensOf
<1>7. AllHeld'
  <2> SUFFICES ASSUME NEW k \in Kinds, NEW t \in SlotsOf(k), slots'[k][t].active
               PROVE  [kind |-> k, slot |-> t, token |-> slots'[k][t].token] \in held'
    BY DEF AllHeld
  <2>1. CASE k = kind /\ t = s
    <3>1. slots'[k][t].token = token
      BY <1>1, <2>1
    <3> QED BY <1>1, <2>1, <3>1
  <2>2. CASE ~(k = kind /\ t = s)
    <3>1. slots'[k][t] = slots[k][t]
      BY <1>1, <2>2
    <3> QED BY <1>1, <3>1 DEF Tally, AllHeld
  <2> QED BY <2>1, <2>2
<1>8. Passive'
  <2> SUFFICES ASSUME NEW t \in SlotsOf("target"), slots'["target"][t].active
               PROVE  ~pool'[slots'["target"][t].nativeId].hurt
    BY DEF Passive
  <2>1. CASE "target" = kind /\ t = s
    <3>1. slots'["target"][t].nativeId = i
      BY <1>1, <2>1
    <3> QED BY <1>2, <1>3, <2>1, <3>1
  <2>2. CASE ~("target" = kind /\ t = s)
    <3>1. slots'["target"][t] = slots["target"][t]
      BY <1>1, <2>2 DEF Kinds
    <3>2. slots["target"][t].nativeId \in Pool /\ pool[slots["target"][t].nativeId].inUse
      BY <3>1 DEF AInv, Owned, Kinds
    <3>3. pool'[slots["target"][t].nativeId] = pool[slots["target"][t].nativeId]
      BY <1>1, <3>2
    <3> QED BY <3>1, <3>3 DEF Tally, Passive
  <2> QED BY <2>1, <2>2
<1> QED BY <1>6, <1>7, <1>8 DEF Tally

-----------------------------------------------------------------------------
\* The ring of contacts.
LEMMA RingIs ==
  ASSUME Ring
  PROVE  /\ Len(contacts) \in Nat /\ DOMAIN contacts = 1 .. Len(contacts)
         /\ \A n \in 1 .. Len(contacts) :
              /\ contacts[n] \in Contact /\ contacts[n].id \in Pool
              /\ pool[contacts[n].id].inUse /\ pool[contacts[n].id].who = contacts[n].who
              /\ contacts[n].id \notin Native("target")
<1>1. Len(contacts) \in Nat /\ DOMAIN contacts = 1 .. Len(contacts)
  BY LenProperties DEF Ring
<1>2. \A n \in 1 .. Len(contacts) : contacts[n] \in Contact
  BY ElementOfSeq DEF Ring
<1> QED BY <1>1, <1>2 DEF Ring, Good, InUse

\* The same for the next state.
GoodNext(c) ==
  /\ c.id \in Pool /\ pool'[c.id].inUse /\ pool'[c.id].who = c.who
  /\ \A s \in SlotsOf("target") : slots'["target"][s].active => slots'["target"][s].nativeId # c.id

LEMMA RingWillBe ==
  ASSUME contacts' \in Seq(Contact), Len(contacts') <= QueueCapacity,
         \A n \in 1 .. Len(contacts') : GoodNext(contacts'[n])
  PROVE  Ring'
<1>1. DOMAIN contacts' = 1 .. Len(contacts')
  BY LenProperties
<1>2. ASSUME NEW n \in DOMAIN contacts'
      PROVE  /\ contacts'[n].id \in InUse' /\ pool'[contacts'[n].id].who = contacts'[n].who
             /\ contacts'[n].id \notin Native("target")'
  <2>1. GoodNext(contacts'[n])
    BY <1>1
  <2> QED BY <2>1 DEF GoodNext, InUse, Native, Active
<1> QED BY <1>2 DEF Ring, Good

\* A contact stays good if its actor stays where he is.
Stays(i) ==
  /\ pool'[i].inUse /\ pool'[i].who = pool[i].who
  /\ \A s \in SlotsOf("target") : slots'["target"][s].active /\ slots'["target"][s].nativeId = i =>
       slots["target"][s].active /\ slots["target"][s].nativeId = i

LEMMA StillGood ==
  ASSUME Ring, NEW n \in 1 .. Len(contacts), Stays(contacts[n].id)
  PROVE  GoodNext(contacts[n])
<1>1. /\ contacts[n].id \in Pool /\ pool[contacts[n].id].who = contacts[n].who
      /\ contacts[n].id \notin Native("target")
  BY RingIs
<1> QED BY <1>1 DEF GoodNext, Stays, Native, Active

LEMMA SameRing ==
  ASSUME Ring, contacts' = contacts,
         \A i \in InUse : Stays(i)
  PROVE  Ring'
<1>1. \A n \in 1 .. Len(contacts) : contacts[n].id \in InUse
  BY RingIs DEF InUse
<1>2. \A n \in 1 .. Len(contacts) : GoodNext(contacts[n])
  BY <1>1, StillGood
<1> QED BY <1>2, RingWillBe DEF Ring

\* Some contacts go, and none of those that stay loses its actor.
LEMMA PickedRing ==
  ASSUME Ring, NEW P \in SUBSET DOMAIN contacts, contacts' = Picked(contacts, P),
         \A n \in P : Stays(contacts[n].id)
  PROVE  Ring'
<1>1. /\ contacts \in Seq(Contact) /\ Len(contacts) <= QueueCapacity
      /\ Len(contacts) \in Nat /\ DOMAIN contacts = 1 .. Len(contacts)
  BY RingIs DEF Ring
<1>2. /\ contacts' \in Seq(Contact)
      /\ Len(contacts') = Cardinality(P) /\ Cardinality(P) <= Len(contacts)
      /\ \A n \in DOMAIN contacts' : Ascending(P)[n] \in P /\ contacts'[n] = contacts[Ascending(P)[n]]
  BY <1>1, PickedIs
<1>3. Len(contacts') \in Nat /\ DOMAIN contacts' = 1 .. Len(contacts')
  BY <1>2, LenProperties
<1>4. Len(contacts') <= QueueCapacity
  BY <1>1, <1>2, <1>3, SlotsAssumption
<1>5. \A n \in P : GoodNext(contacts[n])
  BY <1>1, StillGood
<1>6. \A n \in 1 .. Len(contacts') : GoodNext(contacts'[n])
  <2> SUFFICES ASSUME NEW n \in 1 .. Len(contacts') PROVE GoodNext(contacts'[n])
    OBVIOUS
  <2>1. PICK m \in P : contacts'[n] = contacts[m]
    BY <1>2, <1>3
  <2>2. GoodNext(contacts[m])
    BY <1>5
  <2> QED BY <2>1, <2>2
<1> QED BY <1>2, <1>4, <1>6, RingWillBe

LEMMA PurgedRing ==
  ASSUME Ring, NEW ids, contacts' = Purged(ids), \A i \in InUse : i \notin ids => Stays(i)
  PROVE  Ring'
<1> DEFINE P == {n \in DOMAIN contacts : contacts[n].id \notin ids}
<1>1. contacts' = Picked(contacts, P) /\ P \in SUBSET DOMAIN contacts
  BY DEF Purged
<1>2. \A n \in P : Stays(contacts[n].id)
  BY RingIs DEF InUse
<1> QED BY <1>1, <1>2, PickedRing

\* The end of a sequence.
LEMMA EndOf ==
  ASSUME NEW T, NEW q \in Seq(T), NEW last \in 0 .. Len(q)
  PROVE  LET end == SubSeq(q, last + 1, Len(q))
         IN  /\ end \in Seq(T) /\ Len(end) = Len(q) - last /\ Len(end) \in Nat
             /\ end = [n \in 1 .. Len(q) - last |-> q[last + n]]
             /\ \A n \in 1 .. Len(q) - last : last + n \in 1 .. Len(q)
<1> DEFINE end == SubSeq(q, last + 1, Len(q))
<1>1. Len(q) \in Nat /\ \A n \in 1 .. Len(q) : q[n] \in T
  BY LenProperties, ElementOfSeq
<1>2. last + 1 \in Int /\ Len(q) \in Int /\ \A n \in last + 1 .. Len(q) : q[n] \in T
  BY <1>1
<1>3. /\ end \in Seq(T)
      /\ Len(end) = IF last + 1 <= Len(q) THEN Len(q) - (last + 1) + 1 ELSE 0
      /\ \A n \in 1 .. Len(q) - (last + 1) + 1 : end[n] = q[last + 1 + n - 1]
  BY <1>2, SubSeqProperties
<1> HIDE DEF end
<1>4. Len(end) = Len(q) - last /\ Len(end) \in Nat
  BY <1>1, <1>3
<1>5. ASSUME NEW n \in 1 .. Len(q) - last
      PROVE  last + n \in 1 .. Len(q) /\ end[n] = q[last + n]
  <2>1. n \in 1 .. Len(q) - (last + 1) + 1 /\ last + 1 + n - 1 = last + n
        /\ last + n \in 1 .. Len(q)
    BY <1>1
  <2> QED BY <1>3, <2>1
<1>6. end = [n \in 1 .. Len(q) - last |-> end[n]]
  BY <1>3, <1>4, LenProperties
<1>7. end = [n \in 1 .. Len(q) - last |-> q[last + n]]
  BY <1>5, <1>6
<1> QED BY <1>3, <1>4, <1>5, <1>7 DEF end

\* A call may take the first contacts away.
LEMMA ShortenedRing ==
  ASSUME Ring, NEW last \in 0 .. Len(contacts),
         contacts' = SubSeq(contacts, last + 1, Len(contacts)),
         \A i \in InUse : Stays(i)
  PROVE  Ring'
<1>1. /\ contacts \in Seq(Contact) /\ Len(contacts) <= QueueCapacity
      /\ Len(contacts) \in Nat
      /\ \A n \in 1 .. Len(contacts) : contacts[n].id \in InUse
  BY RingIs DEF Ring, InUse
<1>2. /\ contacts' \in Seq(Contact) /\ Len(contacts') = Len(contacts) - last
      /\ contacts' = [n \in 1 .. Len(contacts) - last |-> contacts[last + n]]
      /\ \A n \in 1 .. Len(contacts) - last : last + n \in 1 .. Len(contacts)
  BY <1>1, EndOf
<1>3. \A n \in 1 .. Len(contacts') : GoodNext(contacts'[n])
  <2> SUFFICES ASSUME NEW n \in 1 .. Len(contacts') PROVE GoodNext(contacts'[n])
    OBVIOUS
  <2>1. last + n \in 1 .. Len(contacts) /\ contacts'[n] = contacts[last + n]
    BY <1>2
  <2>2. GoodNext(contacts[last + n])
    BY <1>1, <2>1, StillGood
  <2> QED BY <2>1, <2>2
<1>4. Len(contacts') <= QueueCapacity
  BY <1>1, <1>2, SlotsAssumption
<1> QED BY <1>2, <1>3, <1>4, RingWillBe

\* The contacts of one tick, each of an actor in the world.
LEMMA StruckIs ==
  ASSUME AInv, Tally, NEW new \in SUBSET InUse
  PROVE  /\ Struck(new) \in Seq(Contact) /\ Len(Struck(new)) \in Nat
         /\ \A n \in 1 .. Len(Struck(new)) :
              /\ Struck(new)[n].id \in new
              /\ Struck(new)[n].who = pool[Struck(new)[n].id].who
<1> DEFINE c == Cardinality(new)
           q == Struck(new)
<1>1. new \subseteq Nat /\ IsFiniteSet(new) /\ new \subseteq Pool
  <2>1. IsFiniteSet(0 .. PoolSize - 1)
    <3>1. 0 \in Int /\ PoolSize - 1 \in Int
      BY SlotsAssumption
    <3> QED BY <3>1, FS_Interval
  <2>2. new \subseteq Pool
    BY DEF InUse
  <2> QED BY <2>1, <2>2, FS_Subset, Sizes DEF Pool
<1>2. /\ c \in Nat
      /\ Ascending(new) \in [1 .. c -> new]
      /\ \A m, n \in 1 .. c : m < n => Ascending(new)[m] < Ascending(new)[n]
  BY <1>1, AscendingIs
<1> HIDE DEF c
<1>3. q = [n \in 1 .. c |-> [id |-> Ascending(new)[n], who |-> pool[Ascending(new)[n]].who]]
  BY DEF Struck, c
<1> HIDE DEF q
<1>4. ASSUME NEW n \in 1 .. c
      PROVE  /\ q[n].id = Ascending(new)[n] /\ q[n].id \in new
             /\ q[n].who = pool[q[n].id].who /\ q[n] \in Contact
  <2>1. Ascending(new)[n] \in new
    BY <1>2
  <2>2. q[n] = [id |-> Ascending(new)[n], who |-> pool[Ascending(new)[n]].who]
    BY <1>3
  <2>3. pool[Ascending(new)[n]].who \in 1 .. nextToken
    BY <2>1 DEF Tally, Numbered
  <2>4. 1 .. nextToken \subseteq 1 .. MaxToken
    BY Sizes DEF AInv, Tables
  <2>5. Ascending(new)[n] \in Pool /\ pool[Ascending(new)[n]].who \in 1 .. MaxToken
    BY <1>1, <2>1, <2>3, <2>4
  <2>6. q[n].id = Ascending(new)[n] /\ q[n].who = pool[Ascending(new)[n]].who
    BY <2>2
  <2>7. q[n] \in Contact
    BY <2>2, <2>5 DEF Contact
  <2> QED BY <2>1, <2>6, <2>7
<1>5. q \in [1 .. c -> Contact]
  BY <1>3, <1>4
<1>6. q \in Seq(Contact) /\ Len(q) = c
  BY <1>2, <1>5, FunctionIsSeq
<1> QED BY <1>2, <1>4, <1>6 DEF q

\* The ring after a tick: the last of what was there, then new contacts.
Arrived(kept) ==
  LET L == Len(contacts)
      N == Len(contacts')
  IN  /\ kept \in 0 .. L /\ kept <= N /\ N <= QueueCapacity
      /\ kept < L => N = QueueCapacity
      /\ \A n \in 1 .. kept : contacts'[n] = contacts[L - kept + n]
      /\ \A n \in kept + 1 .. N : /\ contacts'[n].id \in InUse /\ pool[contacts'[n].id].hurt
                                  /\ contacts'[n].who = pool[contacts'[n].id].who

LEMMA TickArrives ==
  ASSUME AInv, Tally, Ring, NEW hit \in SUBSET {i \in InUse : pool[i].hurt}, TickActors(hit)
  PROVE  contacts' \in Seq(Contact) /\ \E kept : Arrived(kept)
<1> DEFINE new == {i \in hit : ~pool[i].overlap}
           q == contacts \o Struck(new)
           L == Len(contacts)
           K == Len(Struck(new))
           N == Len(contacts')
           kept == IF N >= K THEN N - K ELSE 0
<1>1. contacts' = Queued(q)
  BY DEF TickActors
<1>2. new \in SUBSET InUse
  OBVIOUS
<1>3. /\ Struck(new) \in Seq(Contact) /\ K \in Nat
      /\ \A n \in 1 .. K : /\ Struck(new)[n].id \in new
                           /\ Struck(new)[n].who = pool[Struck(new)[n].id].who
  BY <1>2, StruckIs
<1>4. L \in Nat /\ contacts \in Seq(Contact)
  BY RingIs DEF Ring
<1>5. /\ q \in Seq(Contact) /\ Len(q) = L + K
      /\ \A n \in 1 .. L + K : q[n] = IF n <= L THEN contacts[n] ELSE Struck(new)[n - L]
  BY <1>3, <1>4, ConcatProperties
<1>6. \A i \in new : i \in InUse /\ pool[i].hurt
  OBVIOUS
<1> HIDE DEF q, new
<1>7. /\ contacts' \in Seq(Contact) /\ N <= QueueCapacity /\ N <= L + K
      /\ N < L + K => N = QueueCapacity
      /\ \A n \in 1 .. N : contacts'[n] = q[L + K - N + n]
  <2>1. /\ Queued(q) \in Seq(Contact) /\ Len(Queued(q)) <= QueueCapacity
        /\ Len(Queued(q)) <= Len(q)
        /\ Len(Queued(q)) < Len(q) => Len(Queued(q)) = QueueCapacity
        /\ \A n \in 1 .. Len(Queued(q)) : Queued(q)[n] = q[Len(q) - Len(Queued(q)) + n]
    BY <1>5, QueuedIs
  <2>2. Queued(q) = contacts' /\ Len(q) = L + K
    BY <1>1, <1>5
  <2> QED BY <2>1, <2>2
<1>8. N \in Nat
  BY <1>7, LenProperties
<1> HIDE DEF L, K, N
<1>9. kept \in 0 .. L /\ kept <= N /\ (kept < L => N = QueueCapacity)
      /\ (kept = N - K \/ (kept = 0 /\ N < K))
  BY <1>3, <1>4, <1>7, <1>8
<1> HIDE DEF kept
<1>10. ASSUME NEW n \in 1 .. kept PROVE contacts'[n] = contacts[L - kept + n]
  <2>1. kept = N - K
    BY <1>4, <1>9
  <2>2. L + K - N + n = L - kept + n
    BY <1>3, <1>4, <1>8, <1>9, <2>1
  <2>3. n \in 1 .. N /\ L - kept + n \in 1 .. L + K /\ L - kept + n <= L
    BY <1>3, <1>4, <1>8, <1>9
  <2>4. contacts'[n] = q[L - kept + n]
    BY <1>7, <2>2, <2>3
  <2> QED BY <1>5, <2>3, <2>4
<1>11. ASSUME NEW n \in kept + 1 .. N
       PROVE  K - N + n \in 1 .. K /\ contacts'[n] = Struck(new)[K - N + n]
  <2>1. /\ n \in 1 .. N /\ L + K - N + n \in 1 .. L + K /\ ~(L + K - N + n <= L)
        /\ L + K - N + n - L = K - N + n /\ K - N + n \in 1 .. K
    <3>1. CASE kept = N - K
      BY <1>3, <1>4, <1>7, <1>8, <1>9, <3>1
    <3>2. CASE kept = 0 /\ N < K
      BY <1>3, <1>4, <1>7, <1>8, <1>9, <3>2
    <3> QED BY <1>9, <3>1, <3>2
  <2>2. contacts'[n] = q[L + K - N + n]
    BY <1>7, <2>1
  <2> DEFINE x == L + K - N + n
  <2>3. x \in 1 .. L + K /\ ~(x <= L) /\ x - L = K - N + n /\ contacts'[n] = q[x]
    <3>1. n \in Int
      BY <2>1
    <3>2. x \in 1 .. L + K /\ ~(x <= L) /\ x - L = K - N + n
      BY <1>3, <1>4, <1>8, <2>1, <3>1
    <3> QED BY <2>2, <3>2
  <2> HIDE DEF x
  <2>4. q[x] = Struck(new)[x - L]
    BY <1>5, <2>3
  <2> QED BY <2>1, <2>3, <2>4
<1>12. ASSUME NEW n \in kept + 1 .. N
       PROVE  /\ contacts'[n].id \in InUse /\ pool[contacts'[n].id].hurt
              /\ contacts'[n].who = pool[contacts'[n].id].who
  BY <1>3, <1>6, <1>11
<1>13. Arrived(kept)
  BY <1>7, <1>9, <1>10, <1>12 DEF Arrived, L, N
<1> QED BY <1>7, <1>13

LEMMA ArrivedRing ==
  ASSUME AInv, Tally, Ring, NEW hit \in SUBSET {i \in InUse : pool[i].hurt}, TickActors(hit),
         \A i \in InUse : Stays(i)
  PROVE  Ring'
<1>1. PICK kept : Arrived(kept)
  BY TickArrives
<1>2. contacts' \in Seq(Contact) /\ Len(contacts') \in Nat
  BY TickArrives, LenProperties
<1>3. /\ kept \in 0 .. Len(contacts) /\ kept <= Len(contacts') /\ Len(contacts') <= QueueCapacity
      /\ \A n \in 1 .. kept : contacts'[n] = contacts[Len(contacts) - kept + n]
      /\ \A n \in kept + 1 .. Len(contacts') :
           /\ contacts'[n].id \in InUse /\ pool[contacts'[n].id].hurt
           /\ contacts'[n].who = pool[contacts'[n].id].who
  BY <1>1 DEF Arrived
<1>4. Len(contacts) \in Nat
  BY RingIs
<1>5. ASSUME NEW n \in 1 .. Len(contacts') PROVE GoodNext(contacts'[n])
  <2>1. CASE n <= kept
    <3>1. n \in 1 .. kept /\ Len(contacts) - kept + n \in 1 .. Len(contacts)
      BY <1>3, <1>4, <2>1
    <3>2. contacts[Len(contacts) - kept + n].id \in InUse
      BY <3>1, RingIs DEF InUse
    <3>3. GoodNext(contacts[Len(contacts) - kept + n])
      BY <3>1, <3>2, StillGood
    <3> QED BY <1>3, <3>1, <3>3
  <2>2. CASE ~(n <= kept)
    <3>1. n \in kept + 1 .. Len(contacts')
      BY <1>2, <1>3, <2>2
    <3>2. /\ contacts'[n].id \in InUse /\ pool[contacts'[n].id].hurt
          /\ contacts'[n].who = pool[contacts'[n].id].who
      BY <1>3, <3>1
    <3>3. Stays(contacts'[n].id)
      BY <3>2
    <3>4. \A s \in SlotsOf("target") : slots["target"][s].active =>
            slots["target"][s].nativeId # contacts'[n].id
      BY <3>2 DEF Tally, Passive
    <3> QED BY <3>2, <3>3, <3>4 DEF GoodNext, Stays, InUse
  <2> QED BY <2>1, <2>2
<1> QED BY <1>2, <1>3, <1>5, RingWillBe

\* In ascending order, the numbers up to one are themselves.
LEMMA AscendingAll ==
  ASSUME NEW c \in Nat
  PROVE  /\ Cardinality(1 .. c) = c
         /\ \A k \in 1 .. c : Ascending(1 .. c)[k] = k
<1> DEFINE f == Ascending(1 .. c)
<1>1. IsFiniteSet(1 .. c) /\ Cardinality(1 .. c) = c
  <2>1. 1 \in Int /\ c \in Int
    OBVIOUS
  <2>2. /\ IsFiniteSet(1 .. c)
        /\ Cardinality(1 .. c) = IF 1 > c THEN 0 ELSE c - 1 + 1
    BY <2>1, FS_Interval
  <2> QED BY <2>2
<1>2. /\ f \in [1 .. c -> 1 .. c]
      /\ \A m, n \in 1 .. c : m < n => f[m] < f[n]
  <2>1. 1 .. c \subseteq Nat
    OBVIOUS
  <2> QED BY <1>1, <2>1, AscendingIs
<1> HIDE DEF f
<1>3. \A k \in 1 .. c : f[k] >= k
  <2> DEFINE Low == {k \in 1 .. c : ~(f[k] >= k)}
  <2> SUFFICES ASSUME Low # {} PROVE FALSE
    OBVIOUS
  <2>1. Low \subseteq Nat
    OBVIOUS
  <2> HIDE DEF Low
  <2>2. PICK k \in Low : \A l \in Low : k <= l
    BY <2>1, LeastExists
  <2> USE DEF Low
  <2>3. k \in 1 .. c /\ f[k] \in 1 .. c /\ f[k] < k /\ k # 1
    BY <1>2, <2>2
  <2>4. k - 1 \in 1 .. c /\ k - 1 < k
    BY <2>3
  <2>5. f[k - 1] >= k - 1 /\ f[k - 1] < f[k] /\ f[k - 1] \in 1 .. c
    BY <1>2, <2>2, <2>3, <2>4
  <2> QED BY <2>3, <2>5
<1>4. \A k \in 1 .. c : f[k] <= k
  <2> DEFINE High == {d \in 0 .. c - 1 : ~(f[c - d] <= c - d)}
  <2>1. High = {}
    <3> SUFFICES ASSUME High # {} PROVE FALSE
      OBVIOUS
    <3>1. High \subseteq Nat
      OBVIOUS
    <3> HIDE DEF High
    <3>2. PICK d \in High : \A e \in High : d <= e
      BY <3>1, LeastExists
    <3> USE DEF High
    <3>3. c - d \in 1 .. c /\ f[c - d] \in 1 .. c /\ f[c - d] > c - d /\ d # 0 /\ d \in 0 .. c - 1
      BY <1>2, <3>2
    <3>4. d - 1 \in 0 .. c - 1 /\ c - (d - 1) = c - d + 1 /\ c - d + 1 \in 1 .. c
      BY <3>3
    <3>5. f[c - d + 1] <= c - d + 1
      BY <3>2, <3>4
    <3>6. c - d < c - d + 1
      BY <3>3
    <3>7. f[c - d] < f[c - d + 1] /\ f[c - d + 1] \in 1 .. c
      BY <1>2, <3>3, <3>4, <3>6
    <3> QED BY <3>3, <3>4, <3>5, <3>7
  <2>2. ASSUME NEW k \in 1 .. c PROVE f[k] <= k
    <3>1. c - k \in 0 .. c - 1 /\ c - (c - k) = k
      OBVIOUS
    <3> QED BY <2>1, <3>1
  <2> QED BY <2>2
<1>5. \A k \in 1 .. c : f[k] = k
  BY <1>2, <1>3, <1>4
<1> QED BY <1>1, <1>5 DEF f

LEMMA AllPicked ==
  ASSUME NEW T, NEW q \in Seq(T)
  PROVE  Picked(q, DOMAIN q) = q
<1>1. Len(q) \in Nat /\ DOMAIN q = 1 .. Len(q) /\ q \in [1 .. Len(q) -> T]
  BY LenProperties
<1>2. /\ Cardinality(1 .. Len(q)) = Len(q)
      /\ \A k \in 1 .. Len(q) : Ascending(1 .. Len(q))[k] = k
  BY <1>1, AscendingAll
<1>3. Picked(q, DOMAIN q) = [n \in 1 .. Len(q) |-> q[Ascending(1 .. Len(q))[n]]]
  BY <1>1, <1>2 DEF Picked
<1>4. \A n \in 1 .. Len(q) : q[Ascending(1 .. Len(q))[n]] = q[n]
  BY <1>2
<1>5. Picked(q, DOMAIN q) = [n \in 1 .. Len(q) |-> q[n]]
  BY <1>3, <1>4
<1> QED BY <1>1, <1>5

-----------------------------------------------------------------------------
\* The ring as HostedActors sees it.
Mail == [n \in DOMAIN contacts |-> contacts[n].who]

\* Purging the contacts of native actors is purging those of their tokens.
LEMMA PurgedMail ==
  ASSUME Tally, Ring, NEW ids, contacts' = Purged(ids),
         NEW lost, lost = {pool[i].who : i \in ids \cap InUse}
  PROVE  Mail' = Hosted!Picked(Mail, {n \in DOMAIN Mail : Mail[n] \notin lost})
<1> DEFINE P == {n \in DOMAIN contacts : contacts[n].id \notin ids}
<1>1. DOMAIN Mail = DOMAIN contacts /\ \A n \in DOMAIN contacts : Mail[n] = contacts[n].who
  BY DEF Mail
<1>2. {n \in DOMAIN Mail : Mail[n] \notin lost} = P
  <2>1. ASSUME NEW n \in DOMAIN contacts
        PROVE  contacts[n].who \in lost <=> contacts[n].id \in ids
    <3>1. contacts[n].id \in InUse /\ pool[contacts[n].id].who = contacts[n].who
      BY RingIs DEF InUse
    <3>2. ASSUME contacts[n].who \in lost PROVE contacts[n].id \in ids
      <4>1. PICK i \in ids \cap InUse : contacts[n].who = pool[i].who
        BY <3>2
      <4> QED BY <3>1, <4>1 DEF Tally, Numbered
    <3> QED BY <3>1, <3>2
  <2> QED BY <1>1, <2>1
<1>3. P \in SUBSET DOMAIN contacts /\ contacts \in Seq(Contact) /\ contacts' = Picked(contacts, P)
  BY DEF Purged, Ring
<1> HIDE DEF P
<1>4. /\ contacts' \in Seq(Contact) /\ Len(contacts') = Cardinality(P)
      /\ \A n \in DOMAIN contacts' : Ascending(P)[n] \in P /\ contacts'[n] = contacts[Ascending(P)[n]]
  BY <1>3, PickedIs
<1>5. DOMAIN contacts' = 1 .. Cardinality(P)
  BY <1>4, LenProperties
<1>6. Mail' = [n \in 1 .. Cardinality(P) |-> contacts'[n].who]
  BY <1>5 DEF Mail
<1>7. \A n \in 1 .. Cardinality(P) : contacts'[n].who = Mail[Ascending(P)[n]]
  BY <1>1, <1>3, <1>4, <1>5
<1>8. Mail' = [n \in 1 .. Cardinality(P) |-> Mail[Ascending(P)[n]]]
  BY <1>6, <1>7
<1>9. Hosted!Picked(Mail, P) = [n \in 1 .. Cardinality(P) |-> Mail[Ascending(P)[n]]]
  BY DEF Hosted!Picked, Hosted!Ascending, Ascending, Hosted!Cardinality, Cardinality
<1> QED BY <1>2, <1>8, <1>9

\* Handles go with the native actors that were made for them.
LEMMA HostedRemoves ==
  ASSUME Tally, Ring, NEW ids, contacts' = Purged(ids),
         NEW handles \in SUBSET held, held' = held \ handles, retired' = retired \cup handles,
         \A h \in handles : \E i \in ids \cap InUse : pool[i].who = h.token,
         \A h \in held' : \A i \in ids \cap InUse : pool[i].who # h.token
  PROVE  Hosted!Next
<1> DEFINE lost == {pool[i].who : i \in ids \cap InUse}
<1>1. Mail' = Hosted!Picked(Mail, {n \in DOMAIN Mail : Mail[n] \notin lost})
  BY PurgedMail
<1>2. lost \in SUBSET TokensOf(held \cup retired)
  BY DEF Tally, Numbered
<1>3. TokensOf(handles) \subseteq lost /\ lost \cap TokensOf(held') = {}
  BY DEF TokensOf
<1> HIDE DEF lost
<1>4. Hosted!Remove(handles)
  BY <1>1, <1>2, <1>3 DEF Hosted!Remove, Hosted!Tokens, TokensOf, Mail
<1> QED BY <1>4 DEF Hosted!Next

\* Every step of the actors is one of HostedActors, or none.
HostedStep == Hosted!Next \/ UNCHANGED <<held, retired, Mail>>

\* What a handle that is held names.
LEMMA HeldIs ==
  ASSUME AInv, NEW h \in held
  PROVE  /\ h \in Handles /\ h.kind \in Kinds /\ h.slot \in SlotsOf(h.kind)
         /\ slots[h.kind][h.slot].active /\ slots[h.kind][h.slot].token = h.token
         /\ slots[h.kind][h.slot].nativeId \in InUse
         /\ pool[slots[h.kind][h.slot].nativeId].who = h.token
<1>1. h \in Handles
  BY DEF AInv, Tables
<1>2. h.kind \in Kinds
  BY <1>1 DEF Handles
<1>3. /\ h.slot \in SlotsOf(h.kind)
      /\ slots[h.kind][h.slot].active /\ slots[h.kind][h.slot].token = h.token
  BY DEF AInv, Exact
<1> QED BY <1>1, <1>2, <1>3 DEF AInv, Owned, InUse

\* Only held handles are found.
LEMMA FoundIsHeld ==
  ASSUME AInv, NEW h \in held \cup retired, Finds(h)
  PROVE  h \in held
BY DEF AInv, Exact, Finds, Active

\* Two handles that are held and share a token are the same.
LEMMA HeldApart ==
  ASSUME AInv, NEW g \in held, NEW h \in held, g.token = h.token
  PROVE  g = h
<1>1. /\ g \in Handles /\ g.kind \in Kinds /\ g.slot \in SlotsOf(g.kind)
      /\ slots[g.kind][g.slot].active /\ slots[g.kind][g.slot].token = g.token
  BY HeldIs
<1>2. /\ h \in Handles /\ h.kind \in Kinds /\ h.slot \in SlotsOf(h.kind)
      /\ slots[h.kind][h.slot].active /\ slots[h.kind][h.slot].token = h.token
  BY HeldIs
<1>3. g.kind = h.kind /\ g.slot = h.slot
  BY <1>1, <1>2 DEF AInv, Apart
<1> QED BY <1>1, <1>2, <1>3 DEF Handles

-----------------------------------------------------------------------------
LEMMA CreateHosted ==
  ASSUME AInv, RingInv, NEW kind \in Kinds, NEW hurt \in BOOLEAN, CreateActor(kind, hurt)
  PROVE  RingInv' /\ HostedStep
<1> USE DEF RingInv
<1>1. PICK s, i, token : Creates(kind, hurt, s, i, token)
  BY Created
<1>2. /\ s \in SlotsOf(kind) /\ i \in Pool /\ ~pool[i].inUse
      /\ token = nextToken + 1 /\ token \in 1 .. MaxToken /\ nextToken \in Nat
      /\ \A j \in Pool : j # i => pool'[j] = pool[j]
      /\ \A k \in Kinds : \A t \in SlotsOf(k) :
           slots'[k][t] = IF k = kind /\ t = s
                          THEN [active |-> TRUE, nativeId |-> i, token |-> token]
                          ELSE slots[k][t]
      /\ contacts' = Purged({i})
      /\ held' = held \cup {[kind |-> kind, slot |-> s, token |-> token]}
      /\ retired' = retired
  BY <1>1 DEF Creates
<1>3. contacts' = contacts
  <2>1. {n \in DOMAIN contacts : contacts[n].id \notin {i}} = DOMAIN contacts
    BY <1>2, RingIs
  <2>2. contacts' = Picked(contacts, DOMAIN contacts)
    BY <1>2, <2>1 DEF Purged
  <2>3. contacts \in Seq(Contact)
    BY DEF Ring
  <2> QED BY <2>2, <2>3, AllPicked
<1>4. \A j \in InUse : Stays(j)
  <2> SUFFICES ASSUME NEW j \in InUse PROVE Stays(j)
    OBVIOUS
  <2>1. j \in Pool /\ pool[j].inUse /\ j # i
    BY <1>2 DEF InUse
  <2>2. pool'[j] = pool[j]
    BY <1>2, <2>1
  <2>3. ASSUME NEW t \in SlotsOf("target"), slots'["target"][t].active, slots'["target"][t].nativeId = j
        PROVE  slots["target"][t].active /\ slots["target"][t].nativeId = j
    <3>1. "target" \in Kinds
      BY DEF Kinds
    <3>2. ~("target" = kind /\ t = s)
      BY <1>2, <2>1, <2>3, <3>1
    <3>3. slots'["target"][t] = slots["target"][t]
      BY <1>2, <3>1, <3>2
    <3> QED BY <2>3, <3>3
  <2> QED BY <2>1, <2>2, <2>3 DEF Stays
<1>5. RingInv'
  BY <1>3, <1>4, CreateTally, SameRing
<1> DEFINE h == [kind |-> kind, slot |-> s, token |-> token]
<1>6. h \in Handles /\ h.token = token
  <2>1. AInv' /\ h \in held'
    BY <1>2, CreateKeeps
  <2> QED BY <2>1 DEF AInv, Tables
<1>7. token \notin TokensOf(held \cup retired)
  <2> SUFFICES ASSUME NEW g \in held \cup retired PROVE g.token # token
    BY DEF TokensOf
  <2>1. g \in Handles /\ g.token <= nextToken
    BY DEF AInv, Tables, Known
  <2>2. g.token \in Nat
    BY <2>1, Sizes DEF Handles
  <2> QED BY <1>2, <2>1, <2>2
<1>8. held' = held \cup {h} /\ UNCHANGED <<retired, Mail>>
  BY <1>2, <1>3 DEF Mail
<1> HIDE DEF h
<1>9. Hosted!Create(h)
  BY <1>6, <1>7, <1>8 DEF Hosted!Create, Hosted!Tokens, TokensOf, Mail
<1> QED BY <1>5, <1>6, <1>9 DEF HostedStep, Hosted!Next

\* Giving up slots with the handles and the contacts.
LEMMA GivenUpRing ==
  ASSUME AInv, RingInv, NEW D, NEW ids, GivesUp(D, ids), contacts' = Purged(ids)
  PROVE  Ring'
<1>1. ASSUME NEW i \in InUse, i \notin ids PROVE Stays(i)
  <2>1. i \in Pool /\ pool'[i] = pool[i] /\ pool[i].inUse
    BY <1>1 DEF GivesUp, InUse
  <2>2. \A s \in SlotsOf("target") : slots'["target"][s].active => slots'["target"][s] = slots["target"][s]
    BY DEF GivesUp, Kinds
  <2> QED BY <2>1, <2>2 DEF Stays
<1> QED BY <1>1, PurgedRing DEF RingInv

LEMMA RemoveHosted ==
  ASSUME AInv, RingInv, NEW h \in held \cup retired, RemoveActor(h)
  PROVE  RingInv' /\ HostedStep
<1> DEFINE D == {<<h.kind, h.slot>>}
           i == slots[h.kind][h.slot].nativeId
<1>1. GivesUp(D, {i})
  BY RemoveGivesUp
<1>2. /\ Finds(h) /\ contacts' = Purged({i})
      /\ held' = held \ {h} /\ retired' = retired \cup {h}
  BY DEF RemoveActor, Release, Retire
<1>3. h \in held
  BY <1>2, FoundIsHeld
<1>4. i \in InUse /\ pool[i].who = h.token
  BY <1>3, HeldIs
<1>5. Ring'
  BY <1>1, <1>2, GivenUpRing
<1>6. Tally'
  <2>1. \A g \in held : <<g.kind, g.slot>> \notin D => g \in held'
    BY <1>2
  <2>2. held \cup retired \subseteq held' \cup retired'
    BY <1>2
  <2> QED BY <1>1, <2>1, <2>2, GivenUpTally DEF RingInv
<1> HIDE DEF i
<1>7. \A g \in held' : pool[i].who # g.token
  BY <1>2, <1>3, <1>4, HeldApart
<1>8. Hosted!Next
  <2>1. {h} \in SUBSET held /\ Tally /\ Ring
    BY <1>3 DEF RingInv
  <2>2. \A g \in {h} : \E j \in {i} \cap InUse : pool[j].who = g.token
    BY <1>4
  <2>3. \A g \in held' : \A j \in {i} \cap InUse : pool[j].who # g.token
    BY <1>7
  <2> QED BY <1>2, <2>1, <2>2, <2>3, HostedRemoves
<1> QED BY <1>5, <1>6, <1>8 DEF HostedStep, RingInv

LEMMA ClearHosted ==
  ASSUME AInv, RingInv, NEW kind \in Kinds, ClearActors(kind)
  PROVE  RingInv' /\ HostedStep
<1> DEFINE D == {<<kind, s>> : s \in SlotsOf(kind)}
           ids == Native(kind)
           handles == {h \in held : h.kind = kind}
<1>1. GivesUp(D, ids)
  BY ClearGivesUp
<1>2. /\ contacts' = Purged(ids)
      /\ held' = held \ handles /\ retired' = retired \cup handles
  BY DEF ClearActors, Release, Retire
<1>3. Ring'
  BY <1>1, <1>2, GivenUpRing
<1>4. \A g \in held : <<g.kind, g.slot>> \notin D => g \in held'
  <2> SUFFICES ASSUME NEW g \in held, g.kind = kind PROVE <<g.kind, g.slot>> \in D
    BY <1>2
  <2> QED BY HeldIs
<1>5. held \cup retired \subseteq held' \cup retired'
  BY <1>2
<1>6. Tally'
  BY <1>1, <1>4, <1>5, GivenUpTally DEF RingInv
<1>7. ASSUME NEW h \in handles PROVE \E i \in ids \cap InUse : pool[i].who = h.token
  <2>1. /\ h \in held /\ h.kind = kind /\ h.slot \in SlotsOf(kind)
        /\ slots[kind][h.slot].active /\ slots[kind][h.slot].nativeId \in InUse
        /\ pool[slots[kind][h.slot].nativeId].who = h.token
    BY HeldIs
  <2> QED BY <2>1 DEF Native, Active
<1>8. ASSUME NEW h \in held', NEW i \in ids \cap InUse PROVE pool[i].who # h.token
  <2>1. PICK s \in SlotsOf(kind) : slots[kind][s].active /\ i = slots[kind][s].nativeId
    BY DEF Native, Active
  <2>2. pool[i].who = slots[kind][s].token
    BY <2>1 DEF AInv, Owned
  <2>3. h \in held /\ h.kind # kind
    BY <1>2
  <2>4. /\ h.kind \in Kinds /\ h.slot \in SlotsOf(h.kind)
        /\ slots[h.kind][h.slot].active /\ slots[h.kind][h.slot].token = h.token
    BY <2>3, HeldIs
  <2> QED BY <2>1, <2>2, <2>3, <2>4 DEF AInv, Apart
<1>9. handles \in SUBSET held /\ Tally /\ Ring
  BY DEF RingInv
<1> HIDE DEF ids, handles
<1>10. Hosted!Next
  BY <1>2, <1>7, <1>8, <1>9, HostedRemoves
<1> QED BY <1>3, <1>6, <1>10 DEF HostedStep, RingInv

\* Steps that leave the ring alone.
LEMMA QuietHosted ==
  ASSUME RingInv, UNCHANGED <<slots, pool, contacts, nextToken, held, retired>>
  PROVE  RingInv' /\ HostedStep
<1>1. Tally'
  BY SameTally DEF RingInv
<1>2. \A i \in InUse : Stays(i)
  BY DEF InUse, Stays
<1>3. Ring'
  BY <1>2, SameRing DEF RingInv
<1>4. UNCHANGED <<held, retired, Mail>>
  BY DEF Mail
<1> QED BY <1>1, <1>3, <1>4 DEF RingInv, HostedStep

LEMMA UpdateHosted ==
  ASSUME AInv, RingInv, NEW h \in held \cup retired, NEW hurt \in BOOLEAN, UpdateActor(h, hurt)
  PROVE  RingInv' /\ HostedStep
<1> DEFINE i == slots[h.kind][h.slot].nativeId
<1>1. /\ pool' = [pool EXCEPT ![i].hurt = hurt, ![i].overlap = @ /\ hurt]
      /\ h.kind = "actor" /\ Finds(h)
      /\ UNCHANGED <<slots, contacts, nextToken, held, retired>>
  BY DEF UpdateActor
<1>2. \A j \in Pool : pool'[j].inUse = pool[j].inUse /\ pool'[j].who = pool[j].who
  BY UpdateIdentity
<1>3. h \in held
  BY <1>1, FoundIsHeld
<1>4. ASSUME NEW s \in SlotsOf("target"), slots["target"][s].active
      PROVE  pool'[slots["target"][s].nativeId].hurt = pool[slots["target"][s].nativeId].hurt
  <2> DEFINE j == slots["target"][s].nativeId
  <2>1. j \in Pool /\ pool[j].who = slots["target"][s].token
    BY <1>4 DEF AInv, Owned, Kinds
  <2>2. pool[i].who = h.token /\ h.slot \in SlotsOf("actor") /\ slots["actor"][h.slot].active
        /\ slots["actor"][h.slot].token = h.token
    BY <1>1, <1>3, HeldIs
  <2>3. j # i
    <3> SUFFICES ASSUME j = i PROVE FALSE
      OBVIOUS
    <3>1. slots["target"][s].token = slots["actor"][h.slot].token
      BY <2>1, <2>2
    <3>2. "target" = "actor"
      BY <1>4, <2>2, <3>1 DEF AInv, Apart, Kinds
    <3> QED BY <3>2
  <2> HIDE DEF i, j
  <2>4. pool'[j] = pool[j]
    BY <1>1, <2>1, <2>3 DEF AInv, Tables
  <2> QED BY <2>4 DEF j
<1>5. Tally'
  BY <1>1, <1>2, <1>4, SameTally DEF RingInv
<1>6. \A j \in InUse : Stays(j)
  BY <1>1, <1>2 DEF InUse, Stays
<1>7. Ring'
  BY <1>1, <1>6, SameRing DEF RingInv
<1>8. UNCHANGED <<held, retired, Mail>>
  BY <1>1 DEF Mail
<1> QED BY <1>5, <1>7, <1>8 DEF RingInv, HostedStep

\* Everything goes, and all handles with it.
LEMMA AllGoHosted ==
  ASSUME AInv, RingInv, Despawn, UNCHANGED nextToken,
         \A k \in Kinds : \A s \in SlotsOf(k) : ~slots'[k][s].active,
         held' = {}, retired' = retired \cup held
  PROVE  RingInv' /\ HostedStep
<1>1. contacts' = Purged(Pool) /\ pool' = [i \in Pool |-> IF i \in Pool THEN Unused ELSE pool[i]]
  BY DEF Despawn, Release
<1>2. \A i \in Pool : ~pool'[i].inUse
  BY <1>1 DEF Unused
<1>3. held \cup retired \subseteq held' \cup retired'
  OBVIOUS
<1>4. Tally'
  BY <1>2, <1>3, NoSlotsTally DEF RingInv
<1>5. \A i \in InUse : i \notin Pool => Stays(i)
  BY DEF InUse
<1>6. Ring'
  BY <1>1, <1>5, PurgedRing DEF RingInv
<1>7. ASSUME NEW h \in held PROVE \E i \in Pool \cap InUse : pool[i].who = h.token
  <2>1. slots[h.kind][h.slot].nativeId \in InUse /\ pool[slots[h.kind][h.slot].nativeId].who = h.token
    BY HeldIs
  <2> QED BY <2>1 DEF InUse
<1>8. Hosted!Next
  <2>1. held \in SUBSET held /\ held' = held \ held /\ Tally /\ Ring
    BY DEF RingInv
  <2>2. \A h \in held' : \A i \in Pool \cap InUse : pool[i].who # h.token
    OBVIOUS
  <2> QED BY <1>1, <1>7, <2>1, <2>2, HostedRemoves
<1> QED BY <1>4, <1>6, <1>8 DEF RingInv, HostedStep

LEMMA CreateLinkHosted ==
  ASSUME AInv, RingInv, CreateLink
  PROVE  RingInv' /\ HostedStep
<1>1. /\ ~linkActive /\ Despawn /\ UNCHANGED <<slots, nextToken, held, retired>>
  BY DEF CreateLink, LinkCreate
<1>2. \A k \in Kinds : \A s \in SlotsOf(k) : ~slots[k][s].active
  BY <1>1 DEF AInv, NoLinkNoActors
<1>3. held = {}
  BY <1>2, HeldIs
<1> QED BY <1>1, <1>2, <1>3, AllGoHosted

LEMMA DeleteLinkHosted ==
  ASSUME AInv, RingInv, DeleteLink
  PROVE  RingInv' /\ HostedStep
<1>1. /\ slots' = Invalidated(Kinds) /\ Despawn /\ UNCHANGED nextToken
      /\ held' = {} /\ retired' = retired \cup held
  BY DEF DeleteLink, Retire
<1>2. \A k \in Kinds : \A s \in SlotsOf(k) : ~slots'[k][s].active
  BY <1>1, InvalidatedSlots
<1> QED BY <1>1, <1>2, AllGoHosted

LEMMA ChangeAgeHosted ==
  ASSUME AInv, RingInv, NEW age \in Ages, ChangeAge(age)
  PROVE  RingInv' /\ HostedStep
<1>1. CASE age = currentAge
  <2>1. UNCHANGED <<slots, held, retired, linkAge, nextToken>>
    BY <1>1 DEF ChangeAge, LinkSetAge, linkVars
  <2>2. UNCHANGED <<pool, contacts>>
    BY <2>1 DEF ChangeAge
  <2> QED BY <2>1, <2>2, QuietHosted
<1>2. CASE age # currentAge
  <2>1. /\ slots' = Invalidated(Kinds) /\ UNCHANGED nextToken
        /\ held' = {} /\ retired' = retired \cup held
    BY <1>2 DEF ChangeAge, Retire
  <2>2. \A k \in Kinds : \A s \in SlotsOf(k) : ~slots'[k][s].active
    BY <2>1, InvalidatedSlots
  <2>3. CASE linkAge' # linkAge
    <3>1. Despawn
      BY <2>3 DEF ChangeAge
    <3> QED BY <2>1, <2>2, <3>1, AllGoHosted
  <2>4. CASE linkAge' = linkAge
    <3>1. UNCHANGED <<pool, contacts>>
      BY <2>4 DEF ChangeAge
    <3>2. Tally'
      BY <2>1, <2>2, <3>1, NoSlotsTally DEF RingInv
    <3>3. \A i \in InUse : Stays(i)
      BY <2>2, <3>1 DEF InUse, Stays, Kinds
    <3>4. Ring'
      BY <3>1, <3>3, SameRing DEF RingInv
    <3>5. Hosted!Abandon
      BY <2>1, <3>1 DEF Hosted!Abandon
    <3> QED BY <3>2, <3>4, <3>5 DEF RingInv, HostedStep, Hosted!Next
  <2> QED BY <2>3, <2>4
<1> QED BY <1>1, <1>2

LEMMA MailIs ==
  ASSUME Ring
  PROVE  /\ Mail \in Seq(1 .. MaxToken) /\ Len(Mail) = Len(contacts) /\ Len(Mail) \in Nat
         /\ DOMAIN Mail = 1 .. Len(contacts)
         /\ \A n \in 1 .. Len(contacts) : Mail[n] = contacts[n].who
<1>1. Len(contacts) \in Nat /\ DOMAIN contacts = 1 .. Len(contacts)
      /\ \A n \in 1 .. Len(contacts) : contacts[n].who \in 1 .. MaxToken
  BY RingIs DEF Contact
<1>2. Mail \in [1 .. Len(contacts) -> 1 .. MaxToken]
      /\ \A n \in 1 .. Len(contacts) : Mail[n] = contacts[n].who
  BY <1>1 DEF Mail
<1> QED BY <1>1, <1>2, FunctionIsSeq

\* The next contact the host polls is the first of an actor it has a handle to.
LEMMA PollableIsLive ==
  ASSUME AInv, RingInv, NEW n \in 1 .. Len(contacts)
  PROVE  contacts[n].id \in Native("actor") <=> Mail[n] \in TokensOf(held)
<1>1. /\ Mail[n] = contacts[n].who /\ contacts[n].id \in InUse
      /\ pool[contacts[n].id].who = contacts[n].who /\ contacts[n].id \notin Native("target")
  BY MailIs, RingIs DEF RingInv, InUse
<1>2. ASSUME contacts[n].id \in Native("actor") PROVE Mail[n] \in TokensOf(held)
  <2>1. PICK s \in SlotsOf("actor") : slots["actor"][s].active /\ slots["actor"][s].nativeId = contacts[n].id
    BY <1>2 DEF Native, Active
  <2> DEFINE h == [kind |-> "actor", slot |-> s, token |-> slots["actor"][s].token]
  <2>2. h \in held /\ h.token = slots["actor"][s].token
    BY <2>1 DEF RingInv, Tally, AllHeld, Kinds
  <2>3. pool[contacts[n].id].who = slots["actor"][s].token
    BY <2>1 DEF AInv, Owned, Kinds
  <2> QED BY <1>1, <2>2, <2>3 DEF TokensOf
<1>3. ASSUME Mail[n] \in TokensOf(held) PROVE contacts[n].id \in Native("actor")
  <2>1. PICK h \in held : h.token = Mail[n]
    BY <1>3 DEF TokensOf
  <2>2. /\ h.kind \in Kinds /\ h.slot \in SlotsOf(h.kind) /\ slots[h.kind][h.slot].active
        /\ slots[h.kind][h.slot].nativeId \in InUse
        /\ pool[slots[h.kind][h.slot].nativeId].who = h.token
    BY HeldIs
  <2>3. slots[h.kind][h.slot].nativeId = contacts[n].id
    BY <1>1, <2>1, <2>2 DEF RingInv, Tally, Numbered
  <2>4. contacts[n].id \in Native(h.kind)
    BY <2>2, <2>3 DEF Native, Active
  <2> QED BY <1>1, <2>2, <2>4 DEF Kinds
<1> QED BY <1>2, <1>3

\* The beginning of a sequence.
LEMMA BeginOf ==
  ASSUME NEW T, NEW q \in Seq(T), NEW last \in Nat, last <= Len(q)
  PROVE  SubSeq(q, 1, last) = [n \in 1 .. last |-> q[n]]
<1> DEFINE begin == SubSeq(q, 1, last)
<1>1. Len(q) \in Nat /\ \A n \in 1 .. Len(q) : q[n] \in T
  BY LenProperties, ElementOfSeq
<1>2. 1 \in Int /\ last \in Int /\ \A n \in 1 .. last : q[n] \in T
  BY <1>1
<1>3. /\ begin \in Seq(T)
      /\ Len(begin) = IF 1 <= last THEN last - 1 + 1 ELSE 0
      /\ \A n \in 1 .. last - 1 + 1 : begin[n] = q[1 + n - 1]
  BY <1>2, SubSeqProperties
<1> HIDE DEF begin
<1>4. Len(begin) = last /\ begin = [n \in 1 .. last |-> begin[n]]
  BY <1>3, LenProperties
<1>5. \A n \in 1 .. last : begin[n] = q[n]
  <2> SUFFICES ASSUME NEW n \in 1 .. last PROVE begin[n] = q[n]
    OBVIOUS
  <2>1. n \in 1 .. last - 1 + 1 /\ 1 + n - 1 = n
    OBVIOUS
  <2> QED BY <1>3, <2>1
<1> QED BY <1>4, <1>5 DEF begin

\* Taking contacts off the ring is taking them off the mail.
LEMMA MailShortened ==
  ASSUME Ring, NEW last \in 0 .. Len(contacts),
         contacts' = SubSeq(contacts, last + 1, Len(contacts))
  PROVE  Mail' = SubSeq(Mail, last + 1, Len(Mail))
<1>1. contacts \in Seq(Contact)
  BY DEF Ring
<1>2. /\ Mail \in Seq(1 .. MaxToken) /\ Len(Mail) = Len(contacts)
      /\ \A n \in 1 .. Len(contacts) : Mail[n] = contacts[n].who
  BY MailIs
<1>3. /\ contacts' = [n \in 1 .. Len(contacts) - last |-> contacts[last + n]]
      /\ \A n \in 1 .. Len(contacts) - last : last + n \in 1 .. Len(contacts)
  BY <1>1, EndOf
<1>4. SubSeq(Mail, last + 1, Len(Mail)) = [n \in 1 .. Len(contacts) - last |-> Mail[last + n]]
  BY <1>2, EndOf
<1>5. Mail' = [n \in 1 .. Len(contacts) - last |-> contacts'[n].who]
  BY <1>3 DEF Mail
<1>6. \A n \in 1 .. Len(contacts) - last : contacts'[n].who = Mail[last + n]
  BY <1>2, <1>3
<1> QED BY <1>4, <1>5, <1>6

\* The contact a poll ends with.
LEMMA PolledIs ==
  ASSUME AInv, RingInv, PollContact
  PROVE  \E last \in 1 .. Len(contacts) :
           /\ contacts' = SubSeq(contacts, last + 1, Len(contacts))
           /\ Mail[last] \in TokensOf(held) \/ last = Len(contacts)
           /\ \A m \in 1 .. last - 1 : Mail[m] \notin TokensOf(held)
<1> DEFINE mine == {n \in DOMAIN contacts : contacts[n].id \in Native("actor")}
           last == IF mine = {} THEN Len(contacts) ELSE Min(mine)
<1>1. contacts # <<>> /\ contacts' = SubSeq(contacts, last + 1, Len(contacts))
  BY DEF PollContact
<1>2. Len(contacts) \in Nat /\ DOMAIN contacts = 1 .. Len(contacts) /\ Len(contacts) # 0
  BY <1>1, RingIs, EmptySeq DEF RingInv, Ring
<1>3. \A n \in 1 .. Len(contacts) : n \in mine <=> Mail[n] \in TokensOf(held)
  BY <1>2, PollableIsLive
<1>4. mine \subseteq 1 .. Len(contacts)
  BY <1>2
<1> HIDE DEF mine
<1>5. CASE mine = {}
  <2>1. last = Len(contacts) /\ last \in 1 .. Len(contacts)
    BY <1>2, <1>5
  <2>2. \A m \in 1 .. Len(contacts) - 1 : m \in 1 .. Len(contacts)
    BY <1>2
  <2>3. \A m \in 1 .. Len(contacts) - 1 : Mail[m] \notin TokensOf(held)
    BY <1>3, <1>5, <2>2
  <2> HIDE DEF last
  <2> QED BY <1>1, <2>1, <2>3
<1>6. CASE mine # {}
  <2>1. last \in mine /\ \A y \in mine : last <= y
    <3>1. mine \subseteq Nat
      BY <1>4
    <3> QED BY <1>6, <3>1, LeastExists
  <2> HIDE DEF last
  <2>2. last \in 1 .. Len(contacts) /\ Mail[last] \in TokensOf(held)
    BY <1>3, <1>4, <2>1
  <2>3. ASSUME NEW m \in 1 .. last - 1 PROVE Mail[m] \notin TokensOf(held)
    <3>1. m \in 1 .. Len(contacts) /\ ~(last <= m)
      BY <1>2, <2>2
    <3> QED BY <1>3, <2>1, <3>1
  <2> QED BY <1>1, <2>2, <2>3
<1> QED BY <1>5, <1>6

LEMMA PollHosted ==
  ASSUME AInv, RingInv, PollContact
  PROVE  RingInv' /\ HostedStep
<1>1. PICK last \in 1 .. Len(contacts) :
        /\ contacts' = SubSeq(contacts, last + 1, Len(contacts))
        /\ Mail[last] \in TokensOf(held) \/ last = Len(contacts)
        /\ \A m \in 1 .. last - 1 : Mail[m] \notin TokensOf(held)
  BY PolledIs
<1>2. UNCHANGED <<slots, pool, nextToken, held, retired>>
  BY DEF PollContact
<1>3. last \in 0 .. Len(contacts)
  OBVIOUS
<1>4. Tally'
  BY <1>2, SameTally DEF RingInv
<1>5. \A i \in InUse : Stays(i)
  BY <1>2 DEF InUse, Stays
<1>6. Ring' /\ Mail' = SubSeq(Mail, last + 1, Len(Mail))
  BY <1>1, <1>3, <1>5, ShortenedRing, MailShortened DEF RingInv
<1>7. DOMAIN Mail = 1 .. Len(contacts) /\ Len(Mail) = Len(contacts) /\ Mail # <<>>
  <2>1. Mail \in Seq(1 .. MaxToken) /\ Len(Mail) = Len(contacts) /\ DOMAIN Mail = 1 .. Len(contacts)
    BY MailIs DEF RingInv
  <2> QED BY <2>1, EmptySeq
<1>8. Hosted!Poll
  BY <1>1, <1>2, <1>6, <1>7 DEF Hosted!Poll, Hosted!Tokens, TokensOf, Mail
<1> QED BY <1>4, <1>6, <1>8 DEF RingInv, HostedStep, Hosted!Next

LEMMA TickHosted ==
  ASSUME AInv, RingInv, NEW hit \in SUBSET {i \in InUse : pool[i].hurt}, TickActors(hit)
  PROVE  RingInv' /\ HostedStep
<1>1. /\ pool' = [i \in Pool |-> [pool[i] EXCEPT !.overlap = i \in hit]]
      /\ UNCHANGED <<slots, nextToken, held, retired>>
  BY DEF TickActors
<1>2. ASSUME NEW i \in Pool
      PROVE  pool'[i].inUse = pool[i].inUse /\ pool'[i].who = pool[i].who /\ pool'[i].hurt = pool[i].hurt
  <2>1. pool[i] \in NativeActor
    BY DEF AInv, Tables
  <2> QED BY <1>1, <2>1 DEF NativeActor
<1>3. Tally'
  <2>1. \A s \in SlotsOf("target") : slots["target"][s].active => slots["target"][s].nativeId \in Pool
    BY DEF AInv, Owned, Kinds
  <2> QED BY <1>1, <1>2, <2>1, SameTally DEF RingInv
<1>4. \A i \in InUse : Stays(i)
  BY <1>1, <1>2 DEF InUse, Stays
<1>5. Ring'
  BY <1>4, ArrivedRing DEF RingInv
<1>6. PICK kept : Arrived(kept)
  BY TickArrives DEF RingInv
<1> DEFINE L == Len(contacts)
           N == Len(contacts')
<1>7. /\ L \in Nat /\ N \in Nat /\ contacts \in Seq(Contact) /\ contacts' \in Seq(Contact)
      /\ DOMAIN contacts' = 1 .. N
  BY RingIs, TickArrives, LenProperties DEF RingInv, Ring
<1>8. /\ Mail \in Seq(1 .. MaxToken) /\ Len(Mail) = L
      /\ \A n \in 1 .. L : Mail[n] = contacts[n].who
  BY MailIs DEF RingInv
<1>9. /\ Mail' \in Seq(1 .. MaxToken) /\ Len(Mail') = N
      /\ \A n \in 1 .. N : Mail'[n] = contacts'[n].who
  <2>1. \A n \in 1 .. N : contacts'[n].who \in 1 .. MaxToken
    <3>1. \A n \in 1 .. N : contacts'[n] \in Contact
      BY <1>7, ElementOfSeq
    <3> QED BY <3>1 DEF Contact
  <2>2. Mail' \in [1 .. N -> 1 .. MaxToken] /\ \A n \in 1 .. N : Mail'[n] = contacts'[n].who
    BY <1>7, <2>1 DEF Mail
  <2> QED BY <1>7, <2>2, FunctionIsSeq
<1>10. /\ kept \in 0 .. L /\ kept <= N /\ N <= QueueCapacity
       /\ kept < L => N = QueueCapacity
       /\ \A n \in 1 .. kept : contacts'[n] = contacts[L - kept + n]
       /\ \A n \in kept + 1 .. N : /\ contacts'[n].id \in InUse
                                   /\ contacts'[n].who = pool[contacts'[n].id].who
  BY <1>6 DEF Arrived
<1> HIDE DEF L, N
<1>11. SubSeq(Mail', 1, kept) = SubSeq(Mail, L - kept + 1, L)
  <2>1. L - kept \in 0 .. L /\ kept \in Nat /\ L - (L - kept) = kept
    BY <1>7, <1>10
  <2>2. SubSeq(Mail, L - kept + 1, L) = [n \in 1 .. kept |-> Mail[L - kept + n]]
        /\ \A n \in 1 .. kept : L - kept + n \in 1 .. L
    <3>1. PICK from \in 0 .. L : from = L - kept
      BY <2>1
    <3>2. /\ SubSeq(Mail, from + 1, L) = [n \in 1 .. L - from |-> Mail[from + n]]
          /\ \A n \in 1 .. L - from : from + n \in 1 .. L
      BY <1>8, EndOf
    <3> QED BY <2>1, <3>1, <3>2
  <2>3. SubSeq(Mail', 1, kept) = [n \in 1 .. kept |-> Mail'[n]]
    BY <1>9, <1>10, <2>1, BeginOf
  <2>4. \A n \in 1 .. kept : n \in 1 .. N
    BY <1>7, <1>10
  <2>5. \A n \in 1 .. kept : Mail'[n] = Mail[L - kept + n]
    <3> SUFFICES ASSUME NEW n \in 1 .. kept PROVE Mail'[n] = Mail[L - kept + n]
      OBVIOUS
    <3>1. L - kept + n \in 1 .. L /\ n \in 1 .. N
      BY <2>2, <2>4
    <3>2. contacts'[n] = contacts[L - kept + n]
      BY <1>10
    <3>3. Mail'[n] = contacts'[n].who /\ Mail[L - kept + n] = contacts[L - kept + n].who
      BY <1>8, <1>9, <3>1
    <3> QED BY <3>2, <3>3
  <2> QED BY <2>2, <2>3, <2>5
<1>12. ASSUME NEW n \in kept + 1 .. N
       PROVE  n \in 1 .. N /\ Mail'[n] = contacts'[n].who /\ Mail'[n] \in TokensOf(held \cup retired)
  <2>1. n \in 1 .. N
    BY <1>7, <1>10
  <2>2. contacts'[n].who \in TokensOf(held \cup retired)
    BY <1>10 DEF RingInv, Tally, Numbered
  <2> QED BY <1>9, <2>1, <2>2
<1>13. \E some \in 0 .. Len(Mail) :
         /\ some <= Len(Mail') /\ Len(Mail') <= QueueCapacity
         /\ SubSeq(Mail', 1, some) = SubSeq(Mail, Len(Mail) - some + 1, Len(Mail))
         /\ some < Len(Mail) => Len(Mail') = QueueCapacity
         /\ \A n \in some + 1 .. Len(Mail') : Mail'[n] \in TokensOf(held \cup retired)
  <2>1. Len(Mail) = L /\ Len(Mail') = N /\ kept \in 0 .. L
    BY <1>8, <1>9, <1>10
  <2>2. /\ kept <= N /\ N <= QueueCapacity
        /\ SubSeq(Mail', 1, kept) = SubSeq(Mail, L - kept + 1, L)
        /\ kept < L => N = QueueCapacity
        /\ \A n \in kept + 1 .. N : Mail'[n] \in TokensOf(held \cup retired)
    BY <1>10, <1>11, <1>12, Zenon
  <2> QED BY <2>1, <2>2, Zenon
<1>14. Hosted!Arrive
  BY <1>1, <1>13, Zenon DEF Hosted!Arrive, Hosted!Tokens, TokensOf, Mail
<1> QED BY <1>3, <1>5, <1>14 DEF RingInv, HostedStep, Hosted!Next

LEMMA RingStep ==
  ASSUME AInv, RingInv, [ActorNext]_<<vars, actorVars>>
  PROVE  RingInv' /\ HostedStep
<1>1. CASE \E kind \in Kinds, hurt \in BOOLEAN : CreateActor(kind, hurt)
  BY <1>1, CreateHosted
<1>2. CASE \E h \in held \cup retired : RemoveActor(h)
  BY <1>2, RemoveHosted
<1>3. CASE \E h \in held \cup retired : \E hurt \in BOOLEAN : UpdateActor(h, hurt)
  BY <1>3, UpdateHosted
<1>4. CASE \E kind \in Kinds : ClearActors(kind)
  BY <1>4, ClearHosted
<1>5. CASE PollContact
  BY <1>5, PollHosted
<1>6. CASE \E w \in Statics : StaticWorldLoad(w) /\ UNCHANGED actorVars
  BY <1>6, QuietHosted DEF actorVars
<1>7. CASE CreateLink
  BY <1>7, CreateLinkHosted
<1>8. CASE DeleteLink
  BY <1>8, DeleteLinkHosted
<1>9. CASE \E age \in Ages : ChangeAge(age)
  BY <1>9, ChangeAgeHosted
<1>10. CASE \E hit \in SUBSET {i \in InUse : pool[i].hurt} : TickActors(hit)
  BY <1>10, TickHosted
<1>11. CASE FrozenTick \/ UNCHANGED <<vars, actorVars>>
  BY <1>11, QuietHosted DEF FrozenTick, actorVars
<1> QED BY <1>1, <1>2, <1>3, <1>4, <1>5, <1>6, <1>7, <1>8, <1>9, <1>10, <1>11
        DEF ActorNext

\* The tables, the pool and the ring of contacts stay in agreement.
THEOREM RingInvariant == ActorSpec => []RingInv
<1>1. Init /\ ActorInit => RingInv
  BY TallyStarts
<1>2. AInv /\ RingInv /\ [ActorNext]_<<vars, actorVars>> => RingInv'
  BY RingStep
<1> QED BY <1>1, <1>2, ActorsInvariant, PTL DEF ActorSpec

-----------------------------------------------------------------------------
LEMMA HandlesFound ==
  ASSUME AInv, RingInv
  PROVE  HandlesAreExact
<1>1. ASSUME NEW h \in Handles PROVE Finds(h) <=> h \in held
  <2>1. ASSUME Finds(h) PROVE h \in held
    <3>1. h.kind \in Kinds /\ h = [kind |-> h.kind, slot |-> h.slot, token |-> h.token]
      BY DEF Handles
    <3>2. h.slot \in SlotsOf(h.kind) /\ slots[h.kind][h.slot].active
          /\ slots[h.kind][h.slot].token = h.token
      BY <2>1 DEF Finds, Active
    <3> QED BY <3>1, <3>2 DEF RingInv, Tally, AllHeld
  <2>2. ASSUME h \in held PROVE Finds(h)
    BY <2>2, HeldIs DEF Finds, Active
  <2> QED BY <2>1, <2>2
<1>2. ASSUME NEW h \in held
      PROVE  slots[h.kind][h.slot].nativeId \in InUse
             /\ pool[slots[h.kind][h.slot].nativeId].who = h.token
  BY HeldIs
<1>3. held \cap retired = {}
  <2> SUFFICES ASSUME NEW h \in held, h \in retired PROVE FALSE
    OBVIOUS
  <2> QED BY HeldIs DEF AInv, Exact
<1> QED BY <1>1, <1>2, <1>3 DEF HandlesAreExact

\* Of all handles the tables accept just those the host holds, and each reaches
\* the actor it was made for; one that has been given up, or that Link's deletion
\* or a change of age has taken from the host, is refused for ever: for any sizes
\* of the tables and the pool.
THEOREM HandlesStayExact == ActorSpec => []HandlesAreExact
BY ActorsInvariant, RingInvariant, HandlesFound, PTL

\* The types of all variables of the actors, the ring of contacts among them:
\* it never outgrows its capacity.
THEOREM ActorTypes == ActorSpec => []ActorTypeOK
<1>1. AInv /\ RingInv => ActorTypeOK
  BY DEF AInv, Tables, RingInv, Ring, ActorTypeOK, Slot, NativeActor, Contact
<1> QED BY <1>1, ActorsInvariant, RingInvariant, PTL

\* What is known of a removed actor does not pass to its successor in the pool:
\* every queued contact is one of the actor that stands there now, and Link's
\* lock-on does not jump to another.
THEOREM NothingIsInherited == ActorSpec => []SuccessorsInheritNothing
<1>1. RingInv /\ LockOnKeepsItsActor => SuccessorsInheritNothing
  BY RingIs DEF RingInv, Ring, Good, ContactsAreCurrent, SuccessorsInheritNothing
<1> QED BY <1>1, RingInvariant, LockOnStays, PTL

\* Tables, pool and ring implement what a host may believe of its actors: good
\* from creation to removal, once, and no contact lost, invented or delivered
\* for another, whatever the sizes.
THEOREM ActorsRefineHosted == ActorSpec => ActorsAreHosted
<1>1. Init /\ ActorInit => Hosted!Init
  BY DEF ActorInit, Hosted!Init
<1>2. AInv /\ RingInv /\ [ActorNext]_<<vars, actorVars>> => [Hosted!Next]_(Hosted!hosted)
  BY RingStep DEF HostedStep, Hosted!hosted, Mail
<1> QED BY <1>1, <1>2, ActorsInvariant, RingInvariant, PTL DEF ActorSpec, ActorsAreHosted, Hosted!Spec
=============================================================================
