------------------------ MODULE EngineContexts_proofs ------------------------
(***************************************************************************)
(* Proofs about EngineContexts, for any number of threads and engines and  *)
(* for both kinds of build.                                                *)
(*                                                                         *)
(* The argument for the guard: whoever has got past the test-and-set is at *)
(* one of the labels Working, and the guard is TRUE exactly while somebody *)
(* is.  The two facts that make this inductive are that nobody can be      *)
(* there before the manager has been published (publishing resets the      *)
(* guard), and that a call knows its engine once it is past the handle     *)
(* check or the allocation (so that the images keep their type).           *)
(***************************************************************************)
EXTENDS EngineContexts, TLAPS

\* Nobody has seen a manager that is not published yet.
NoneBeforeManager ==
  ~managerReady => \A c \in Callers : pc[c] \in {"idle", "publish", "done"}

\* A call that is past the handle check, or a creation past its allocation,
\* has an engine.
CallHasEngine ==
  \A c \in Callers :
    pc[c] \in {"run", "emit", "hook", "quiet", "capture"} => arg[c] \in Engines

GuardInv == /\ TypeOK
            /\ GuardExclusion
            /\ NoneBeforeManager
            /\ CallHasEngine

-----------------------------------------------------------------------------
\* A caller is either the host's call of its thread or the call of a callback,
\* and never both.
LEMMA CallerShape ==
  ASSUME NEW c \in Callers
  PROVE  /\ c[1] \in Threads /\ Outer(c) \in Callers /\ Inner(c) \in Callers
         /\ Outer(c) # Inner(c)
         /\ c = Outer(c) \/ c = Inner(c)
         /\ Inner(Outer(c)) = Inner(c)
  BY DEF Callers, Outer, Inner

\* The invariant holds before the first call.
LEMMA GuardInit == Init => GuardInv
<1>. SUFFICES ASSUME Init
              PROVE  GuardInv
  OBVIOUS
<1>1. Pristine \in Image
  BY TicksAssumption DEF Pristine, Image, Handles
<1>2. TypeOK
  BY <1>1 DEF Init, TypeOK, Handles, Waiting, Working, Ops, Results
<1>3. GuardExclusion
  BY DEF Init, GuardExclusion, Inside, Working
<1>4. NoneBeforeManager /\ CallHasEngine
  BY DEF Init, NoneBeforeManager, CallHasEngine
<1>. QED  BY <1>2, <1>3, <1>4 DEF GuardInv

-----------------------------------------------------------------------------
\* What the shared pieces of the calls do to the types.
LEMMA GoToType ==
  ASSUME TypeOK, NEW c \in Callers, NEW label \in Waiting \cup Working,
         GoTo(c, label)
  PROVE  /\ pc' \in [Callers -> Waiting \cup Working]
         /\ returned' \in Results
  BY DEF TypeOK, GoTo, Results

LEMMA ReturnType ==
  ASSUME TypeOK, NEW c \in Callers, NEW r \in Results, Return(c, r)
  PROVE  /\ pc' \in [Callers -> Waiting \cup Working]
         /\ op' \in [Callers -> Ops \cup {"none"}]
         /\ arg' \in [Callers -> Handles]
         /\ returned' \in Results
<1>1. NoEngine \in Handles
  BY DEF Handles
<1>. QED  BY <1>1 DEF TypeOK, Return, Waiting

LEMMA UnguardType ==
  ASSUME TypeOK, NEW c \in Callers, NEW r \in Results, Unguard(c, r)
  PROVE  /\ pc' \in [Callers -> Waiting \cup Working]
         /\ op' \in [Callers -> Ops \cup {"none"}]
         /\ arg' \in [Callers -> Handles]
         /\ returned' \in Results
         /\ owner' \in [Threads -> Handles]
         /\ guard' \in BOOLEAN
<1>1. NoEngine \in Handles /\ c[1] \in Threads
  BY CallerShape DEF Handles
<1>2. Return(c, r)
  BY DEF Unguard
<1>. QED  BY <1>1, <1>2, ReturnType DEF TypeOK, Unguard

LEMMA ActivateType ==
  ASSUME TypeOK, NEW m \in Image, NEW e \in Handles,
         e \in Engines => saved[e] # NoImage,
         Activate(m, e)
  PROVE  /\ module' \in Image
         /\ saved' \in [Engines -> Image \cup {NoImage}]
         /\ active' \in Handles
<1>1. Loaded(m, e) \in Image
  BY DEF TypeOK, Loaded, Handles
<1>2. Stored(m, e) \in [Engines -> Image \cup {NoImage}]
  BY DEF TypeOK, Stored, Handles
<1>. QED  BY <1>1, <1>2 DEF Activate

LEMMA TerminatedType ==
  ASSUME TypeOK
  PROVE  /\ Terminated \in Image
         /\ [Terminated EXCEPT !.touched = TRUE] \in Image
  BY DEF TypeOK, Terminated, Image, Handles

LEMMA AbandonType ==
  ASSUME TypeOK, NEW c \in Callers, NEW r \in Results, AbandonCreate(c, r)
  PROVE  /\ module' \in Image
         /\ saved' \in [Engines -> Image \cup {NoImage}]
         /\ active' \in Handles
         /\ live' \subseteq Engines /\ cores' \subseteq Engines
         /\ Unguard(c, r)
<1>1. Unguard(c, r) /\ live' \subseteq Engines /\ cores' \subseteq Engines
  BY DEF AbandonCreate, TypeOK, CoresLeft
<1>2. CASE MultiInstance
  <2>1. Activate([Terminated EXCEPT !.touched = TRUE], NoEngine)
    BY <1>2 DEF AbandonCreate
  <2>2. NoEngine \in Handles /\ NoEngine \notin Engines
    BY NamesDistinct DEF Handles
  <2>. QED  BY <1>1, <2>1, <2>2, TerminatedType, ActivateType
<1>3. CASE ~MultiInstance
  BY <1>1, <1>3, TerminatedType DEF AbandonCreate, TypeOK
<1>. QED  BY <1>2, <1>3

-----------------------------------------------------------------------------
\* Every step keeps the types.
LEMMA TypeStep ==
  ASSUME GuardInv, NEW c \in Callers,
         (\E o \in Ops, e \in Handles : Begin(c, o, e)) \/ Proceed(c)
  PROVE  TypeOK'
<1>. USE DEF managerVars, heapVars, callVars
<1>. TypeOK /\ c[1] \in Threads
  BY CallerShape DEF GuardInv
<1>1. ASSUME NEW o \in Ops, NEW e \in Handles, Begin(c, o, e)
      PROVE  TypeOK'
  <2>1. \/ Return(c, "INVALID_ARGUMENT") \/ Return(c, "BUSY")
        \/ /\ op' = [op EXCEPT ![c] = o] /\ arg' = [arg EXCEPT ![c] = e]
           /\ GoTo(c, "lock") \/ GoTo(c, "publish")
    BY <1>1 DEF Begin
  <2>2. /\ pc' \in [Callers -> Waiting \cup Working]
        /\ op' \in [Callers -> Ops \cup {"none"}]
        /\ arg' \in [Callers -> Handles]
        /\ returned' \in Results
    BY <2>1, ReturnType, GoToType DEF TypeOK, Waiting, Results
  <2>. QED  BY <1>1, <2>2 DEF Begin, TypeOK
<1>2. CASE PublishManager(c)
  <2>1. Pristine \in Image /\ NoEngine \in Handles
    BY TicksAssumption DEF Pristine, Image, Handles
  <2>. QED  BY <1>2, <2>1, GoToType DEF PublishManager, TypeOK, Waiting
<1>3. CASE TakeGuard(c)
  <2>1. GoTo(c, "prepare") \/ GoTo(c, "switch") \/ Return(c, "BUSY")
    BY <1>3 DEF TakeGuard
  <2>. QED  BY <1>3, <2>1, GoToType, ReturnType
            DEF TakeGuard, TypeOK, Working, Results
<1>4. CASE PrepareBaseline(c)
  BY <1>4, GoToType DEF PrepareBaseline, TypeOK, Working
<1>5. CASE ReportLimits(c)
  BY <1>5, ReturnType DEF ReportLimits, TypeOK, Results
<1>6. CASE SwitchToOwner(c)
  BY <1>6, UnguardType, GoToType, ActivateType
  DEF SwitchToOwner, TypeOK, Registered, Working, Results
<1>7. CASE CheckHandle(c)
  BY <1>7, UnguardType, ReturnType, GoToType
  DEF CheckHandle, ReleaseWithoutOwner, TypeOK, Working, Results
<1>8. CASE RunCore(c)
  BY <1>8, UnguardType, GoToType, TicksAssumption
  DEF RunCore, TypeOK, Image, Working, Results
<1>9. CASE FinishUse(c)
  BY <1>9, UnguardType DEF FinishUse, TypeOK, Results
<1>10. CASE Teardown(c)
  BY <1>10, UnguardType, TerminatedType
  DEF Teardown, CoresLeft, Discarded, ActiveAfter, TypeOK, Handles, Results
<1>11. CASE SwitchToBaseline(c)
  <2>1. NoEngine \in Handles /\ NoEngine \notin Engines
    BY NamesDistinct DEF Handles
  <2>. QED  BY <1>11, <2>1, UnguardType, GoToType, ActivateType
            DEF SwitchToBaseline, TypeOK, Working, Results
<1>12. CASE AllocateEngine(c)
  <2>1. CASE Unguard(c, "OUT_OF_MEMORY") /\ UNCHANGED <<module, live>>
    BY <1>12, <2>1, UnguardType DEF AllocateEngine, TypeOK, Results
  <2>2. CASE /\ Unguard(c, "OUT_OF_MEMORY") /\ UNCHANGED live
             /\ module' \in Image
    BY <1>12, <2>2, UnguardType DEF AllocateEngine, TypeOK, Results
  <2>3. ASSUME NEW e \in Engines \ live,
               /\ live' = live \cup {e}
               /\ module' = [module EXCEPT !.engine = e, !.hooks = TRUE]
               /\ arg' = [arg EXCEPT ![c] = e]
               /\ owner' = [owner EXCEPT ![c[1]] = e]
               /\ GoTo(c, "emit")
               /\ UNCHANGED <<guard, op>>
        PROVE  TypeOK'
    <3>1. e \in Handles /\ module' \in Image
      BY <2>3 DEF TypeOK, Image, Handles
    <3>2. /\ pc' \in [Callers -> Waiting \cup Working]
          /\ returned' \in Results
      BY <2>3, GoToType DEF Working
    <3>3. /\ live' \subseteq Engines
          /\ arg' \in [Callers -> Handles]
          /\ owner' \in [Threads -> Handles]
      BY <2>3, <3>1 DEF TypeOK
    <3>. QED  BY <1>12, <2>3, <3>1, <3>2, <3>3 DEF AllocateEngine, TypeOK
  <2>4. [module EXCEPT !.engine = NoEngine] \in Image
    BY DEF TypeOK, Image, Handles
  <2>. QED  BY <1>12, <2>1, <2>2, <2>3, <2>4
            DEF AllocateEngine, Loaded, TypeOK
<1>13. CASE InitCore(c)
  <2>1. CASE AbandonCreate(c, "ROM_UNSUPPORTED")
    BY <1>13, <2>1, AbandonType, UnguardType DEF InitCore, TypeOK, Results
  <2>2. CASE ~AbandonCreate(c, "ROM_UNSUPPORTED")
    <3>1. arg[c] \in Engines
      BY <1>13 DEF InitCore, GuardInv, CallHasEngine
    <3>2. Booted(arg[c]) \in Image
      <4>1. module \in Image /\ arg[c] \in Handles /\ 0 \in 0 .. MaxTicks
        BY <3>1, TicksAssumption DEF TypeOK, Handles
      <4>. QED  BY <4>1 DEF Booted, Image
    <3>3. /\ cores' = CoresLeft \cup {arg[c]} /\ module' = Booted(arg[c])
          /\ GoTo(c, "capture")
          /\ UNCHANGED <<guard, owner, live, op, arg, saved, active>>
      BY <1>13, <2>2 DEF InitCore
    <3>4. cores' \subseteq Engines
      BY <3>1, <3>3 DEF TypeOK, CoresLeft
    <3>5. /\ pc' \in [Callers -> Waiting \cup Working]
          /\ returned' \in Results
      BY <3>3, GoToType DEF Working
    <3>. QED  BY <1>13, <3>2, <3>3, <3>4, <3>5 DEF InitCore, TypeOK
  <2>. QED  BY <2>1, <2>2
<1>14. CASE CaptureImage(c)
  <2>1. ASSUME NEW r \in {"OUT_OF_MEMORY", "NOT_AVAILABLE"},
               AbandonCreate(c, r)
        PROVE  TypeOK'
    BY <1>14, <2>1, AbandonType, UnguardType DEF CaptureImage, TypeOK, Results
  <2>2. CASE ~\E r \in {"OUT_OF_MEMORY", "NOT_AVAILABLE"} : AbandonCreate(c, r)
    <3>1. Unguard(c, "OK") /\ UNCHANGED <<module, live, cores>>
      BY <1>14, <2>2 DEF CaptureImage
    <3>2. /\ saved' \in [Engines -> Image \cup {NoImage}]
          /\ active' \in Handles
      BY <1>14, <2>2 DEF CaptureImage, TypeOK
    <3>. QED  BY <1>14, <3>1, <3>2, UnguardType
              DEF CaptureImage, TypeOK, Results
  <2>. QED  BY <2>1, <2>2
<1>15. CASE RaiseHook(c)
  BY <1>15, GoToType DEF RaiseHook, TypeOK, Working
<1>16. CASE ReturnHook(c)
  <2>1. Inner(c) \in Callers
    BY CallerShape
  <2>. QED  BY <1>16, <2>1
            DEF ReturnHook, TypeOK, Working, Waiting, Handles, Results
<1>. QED  BY <1>1, <1>2, <1>3, <1>4, <1>5, <1>6, <1>7, <1>8, <1>9, <1>10,
             <1>11, <1>12, <1>13, <1>14, <1>15, <1>16 DEF Proceed

-----------------------------------------------------------------------------
\* Where the shared pieces of the calls leave the caller, and that they leave
\* every other caller alone.
LEMMA GoToMoves ==
  ASSUME TypeOK, NEW c \in Callers, NEW label, GoTo(c, label)
  PROVE  pc'[c] = label /\ \A d \in Callers : d # c => pc'[d] = pc[d]
  BY DEF TypeOK, GoTo

LEMMA ReturnMoves ==
  ASSUME TypeOK, NEW c \in Callers, NEW r, Return(c, r)
  PROVE  /\ pc'[c] \in {"idle", "done"} /\ op'[c] = "none"
         /\ \A d \in Callers : d # c => /\ pc'[d] = pc[d] /\ op'[d] = op[d]
                                       /\ arg'[d] = arg[d]
  BY DEF TypeOK, Return

\* A callback can return only to the host's call that raised it, and the call
\* it made itself is over.
LEMMA HookMoves ==
  ASSUME TypeOK, NEW c \in Callers, ReturnHook(c)
  PROVE  /\ pc[c] = "hook" /\ pc'[c] = "quiet" /\ Inner(c) # c
         /\ pc[Inner(c)] \in {"idle", "done"} /\ pc'[Inner(c)] = "idle"
         /\ \A d \in Callers : d # c /\ d # Inner(c) => pc'[d] = pc[d]
<1>1. Inner(c) \in Callers
  BY CallerShape
<1>2. Inner(c) # c
  BY DEF ReturnHook
<1>. QED  BY <1>1, <1>2 DEF ReturnHook, TypeOK

\* A step of c enters the guarded part, stays on its side of the guard or
\* leaves; nobody else crosses the guard.
Crosses(c) ==
  /\ \A d \in Callers : d # c => Inside(d)' = Inside(d)
  /\ \/ ~guard /\ guard' /\ Inside(c)'
     \/ Inside(c)' = Inside(c) /\ guard' = guard
     \/ Inside(c) /\ ~Inside(c)' /\ ~guard'

LEMMA UnguardCrosses ==
  ASSUME TypeOK, NEW c \in Callers, Inside(c), NEW r, Unguard(c, r)
  PROVE  Crosses(c)
  BY ReturnMoves DEF Unguard, Crosses, Inside, Working

LEMMA GoToCrosses ==
  ASSUME TypeOK, NEW c \in Callers, Inside(c), NEW label \in Working,
         GoTo(c, label), guard' = guard
  PROVE  Crosses(c)
  BY GoToMoves DEF Crosses, Inside

LEMMA StepCrosses ==
  ASSUME GuardInv, NEW c \in Callers,
         (\E o \in Ops, e \in Handles : Begin(c, o, e)) \/ Proceed(c)
  PROVE  Crosses(c)
<1>. USE DEF managerVars, heapVars, callVars
<1>. TypeOK
  BY DEF GuardInv
<1>1. ASSUME NEW o \in Ops, NEW e \in Handles, Begin(c, o, e)
      PROVE  Crosses(c)
  <2>1. guard' = guard /\ pc[c] = "idle"
    BY <1>1 DEF Begin
  <2>2. \/ Return(c, "INVALID_ARGUMENT") \/ Return(c, "BUSY")
        \/ GoTo(c, "lock") \/ GoTo(c, "publish")
    BY <1>1 DEF Begin
  <2>3. /\ pc'[c] \in {"idle", "done", "lock", "publish"}
        /\ \A d \in Callers : d # c => pc'[d] = pc[d]
    BY <2>2, ReturnMoves, GoToMoves
  <2>. QED  BY <2>1, <2>3 DEF Crosses, Inside, Working
<1>2. CASE PublishManager(c)
  <2>1. /\ pc[c] = "publish" /\ pc'[c] = "lock"
        /\ \A d \in Callers : d # c => pc'[d] = pc[d]
    BY <1>2, GoToMoves DEF PublishManager
  <2>2. guard' = guard
    <3>1. CASE managerReady
      BY <1>2, <3>1 DEF PublishManager, PublishesFirst
    <3>2. CASE ~managerReady
      <4>1. guard = FALSE
        BY <3>2 DEF GuardInv, NoneBeforeManager, GuardExclusion, TypeOK,
                    Inside, Working
      <4>. QED  BY <1>2, <3>2, <4>1 DEF PublishManager, PublishesFirst
    <3>. QED  BY <3>1, <3>2
  <2>. QED  BY <2>1, <2>2 DEF Crosses, Inside, Working
<1>3. CASE TakeGuard(c)
  <2>1. CASE Return(c, "BUSY") /\ UNCHANGED guard
    BY <1>3, <2>1, ReturnMoves DEF TakeGuard, Crosses, Inside, Working
  <2>2. CASE /\ ~guard /\ guard' = TRUE
             /\ GoTo(c, "prepare") \/ GoTo(c, "switch")
    BY <2>2, GoToMoves DEF Crosses, Inside, Working
  <2>. QED  BY <1>3, <2>1, <2>2 DEF TakeGuard, TestAndSet
<1>4. CASE PrepareBaseline(c)
  BY <1>4, GoToCrosses DEF PrepareBaseline, Inside, Working
<1>5. CASE ReportLimits(c)
  BY <1>5, ReturnMoves DEF ReportLimits, Crosses, Inside, Working
<1>6. CASE SwitchToOwner(c)
  BY <1>6, UnguardCrosses, GoToCrosses DEF SwitchToOwner, Inside, Working
<1>7. CASE CheckHandle(c)
  <2>1. Inside(c)
    BY <1>7 DEF CheckHandle, Inside, Working
  <2>2. CASE ReleaseWithoutOwner(c)
    BY <2>1, <2>2, ReturnMoves
    DEF ReleaseWithoutOwner, Crosses, Inside, Working
  <2>. QED  BY <1>7, <2>1, <2>2, UnguardCrosses, GoToCrosses
            DEF CheckHandle, Working
<1>8. CASE RunCore(c)
  BY <1>8, UnguardCrosses, GoToCrosses DEF RunCore, Inside, Working
<1>9. CASE FinishUse(c)
  BY <1>9, UnguardCrosses DEF FinishUse, Inside, Working
<1>10. CASE Teardown(c)
  BY <1>10, UnguardCrosses DEF Teardown, Inside, Working
<1>11. CASE SwitchToBaseline(c)
  BY <1>11, UnguardCrosses, GoToCrosses DEF SwitchToBaseline, Inside, Working
<1>12. CASE AllocateEngine(c)
  BY <1>12, UnguardCrosses, GoToCrosses DEF AllocateEngine, Inside, Working
<1>13. CASE InitCore(c)
  BY <1>13, UnguardCrosses, GoToCrosses
  DEF InitCore, AbandonCreate, Inside, Working
<1>14. CASE CaptureImage(c)
  BY <1>14, UnguardCrosses DEF CaptureImage, AbandonCreate, Inside, Working
<1>15. CASE RaiseHook(c)
  BY <1>15, GoToCrosses DEF RaiseHook, Inside, Working
<1>16. CASE ReturnHook(c)
  <2>1. guard' = guard
    BY <1>16 DEF ReturnHook
  <2>. QED  BY <1>16, <2>1, HookMoves DEF Crosses, Inside, Working
<1>. QED  BY <1>1, <1>2, <1>3, <1>4, <1>5, <1>6, <1>7, <1>8, <1>9, <1>10,
             <1>11, <1>12, <1>13, <1>14, <1>15, <1>16 DEF Proceed

\* Crossing the guard one at a time keeps it exclusive.
LEMMA ExclusionStep ==
  ASSUME TypeOK, GuardExclusion, NEW c \in Callers, Crosses(c)
  PROVE  GuardExclusion'
<1>1. ASSUME NEW a \in Callers, NEW b \in Callers, Inside(a)', Inside(b)'
      PROVE  a = b
  <2>1. CASE a = c \/ b = c
    BY <1>1, <2>1 DEF Crosses, GuardExclusion
  <2>2. CASE a # c /\ b # c
    BY <1>1, <2>2 DEF Crosses, GuardExclusion
  <2>. QED  BY <2>1, <2>2
<1>2. guard' <=> \E a \in Callers : Inside(a)'
  <2>1. CASE ~guard /\ guard' /\ Inside(c)'
    BY <2>1
  <2>2. CASE Inside(c)' = Inside(c) /\ guard' = guard
    <3>1. \A a \in Callers : Inside(a)' = Inside(a)
      BY <2>2 DEF Crosses
    <3>. QED  BY <2>2, <3>1 DEF GuardExclusion
  <2>3. CASE Inside(c) /\ ~Inside(c)' /\ ~guard'
    BY <2>3 DEF Crosses, GuardExclusion
  <2>. QED  BY <2>1, <2>2, <2>3 DEF Crosses
<1>. QED  BY <1>1, <1>2 DEF GuardExclusion

\* Every step keeps the two auxiliary facts.
LEMMA AuxiliaryStep ==
  ASSUME GuardInv, NEW c \in Callers,
         (\E o \in Ops, e \in Handles : Begin(c, o, e)) \/ Proceed(c)
  PROVE  NoneBeforeManager' /\ CallHasEngine'
<1>. USE DEF managerVars, heapVars, callVars
<1>. TypeOK
  BY DEF GuardInv
<1>1. NoneBeforeManager'
  <2>1. CASE managerReady
    <3>1. managerReady'
      BY <2>1 DEF Proceed, Begin, PublishManager, TakeGuard, PrepareBaseline,
         ReportLimits, SwitchToOwner, CheckHandle, RunCore, FinishUse,
         Teardown, SwitchToBaseline, AllocateEngine, InitCore, CaptureImage,
         RaiseHook, ReturnHook
    <3>. QED  BY <3>1 DEF NoneBeforeManager
  <2>2. CASE ~managerReady /\ pc[c] = "idle"
    <3>1. PICK o \in Ops, e \in Handles : Begin(c, o, e)
      BY <2>2 DEF Proceed, PublishManager, TakeGuard, PrepareBaseline,
         ReportLimits, SwitchToOwner, CheckHandle, RunCore, FinishUse,
         Teardown, SwitchToBaseline, AllocateEngine, InitCore, CaptureImage,
         RaiseHook, ReturnHook
    <3>2. \/ Return(c, "INVALID_ARGUMENT") \/ Return(c, "BUSY")
          \/ GoTo(c, "publish")
      BY <2>2, <3>1 DEF Begin
    <3>3. /\ pc'[c] \in {"idle", "done", "publish"}
          /\ \A d \in Callers : d # c => pc'[d] = pc[d]
      BY <3>2, ReturnMoves, GoToMoves
    <3>. QED  BY <2>2, <3>3 DEF GuardInv, NoneBeforeManager
  <2>3. CASE ~managerReady /\ pc[c] # "idle"
    <3>1. PublishManager(c)
      BY <2>3 DEF GuardInv, NoneBeforeManager, Proceed, Begin, TakeGuard,
         PrepareBaseline, ReportLimits, SwitchToOwner, CheckHandle, RunCore,
         FinishUse, Teardown, SwitchToBaseline, AllocateEngine, InitCore,
         CaptureImage, RaiseHook, ReturnHook
    <3>. QED  BY <2>3, <3>1 DEF PublishManager, PublishesFirst, NoneBeforeManager
  <2>. QED  BY <2>1, <2>2, <2>3
<1>2. CallHasEngine'
  <2>. DEFINE Named == {"run", "emit", "hook", "quiet", "capture"}
              Quiet(d) == /\ pc'[d] \in Named => pc[d] \in Named
                          /\ arg'[d] = arg[d]
  <2>. SUFFICES \A d \in Callers :
                  pc'[d] \in Named => Quiet(d) \/ arg'[d] \in Engines
    BY DEF GuardInv, CallHasEngine
  <2>. HIDE DEF Named
  <2>1. ASSUME NEW r, Return(c, r), NEW d \in Callers, pc'[d] \in Named
        PROVE  Quiet(d)
    BY <2>1, ReturnMoves DEF Named
  <2>2. ASSUME NEW label, GoTo(c, label), label \in Named => pc[c] \in Named,
               arg' = arg, NEW d \in Callers
        PROVE  Quiet(d)
    BY <2>2, GoToMoves DEF Named
  <2>3. ASSUME NEW o \in Ops, NEW e \in Handles, Begin(c, o, e)
        PROVE  \A d \in Callers : pc'[d] \in Named => Quiet(d)
    <3>1. CASE \E r : Return(c, r)
      BY <2>1, <3>1
    <3>2. CASE /\ GoTo(c, "lock") \/ GoTo(c, "publish")
               /\ arg' = [arg EXCEPT ![c] = e]
      BY <3>2, GoToMoves DEF Named, TypeOK
    <3>. QED  BY <2>3, <3>1, <3>2 DEF Begin
  <2>4. CASE PublishManager(c)
    BY <2>4, <2>2 DEF PublishManager, Named
  <2>5. CASE TakeGuard(c)
    BY <2>5, <2>1, <2>2 DEF TakeGuard, Named
  <2>6. CASE PrepareBaseline(c)
    BY <2>6, <2>2 DEF PrepareBaseline, Named
  <2>7. CASE ReportLimits(c)
    BY <2>7, <2>1 DEF ReportLimits
  <2>8. CASE SwitchToOwner(c)
    BY <2>8, <2>1, <2>2 DEF SwitchToOwner, Unguard, Named
  <2>9. CASE CheckHandle(c)
    <3>1. CASE \E r : Return(c, r)
      BY <2>1, <3>1
    <3>2. CASE /\ arg[c] \in live /\ arg' = arg
               /\ GoTo(c, "run") \/ GoTo(c, "emit")
      BY <3>2, GoToMoves DEF TypeOK
    <3>. QED  BY <2>9, <3>1, <3>2
              DEF CheckHandle, HandleValid, Unguard, ReleaseWithoutOwner
  <2>10. CASE RunCore(c) \/ FinishUse(c) \/ Teardown(c)
    BY <2>10, <2>1, <2>2 DEF RunCore, FinishUse, Teardown, Unguard, Named
  <2>11. CASE SwitchToBaseline(c)
    BY <2>11, <2>1, <2>2 DEF SwitchToBaseline, Unguard, Named
  <2>12. CASE AllocateEngine(c)
    <3>1. CASE \E r : Return(c, r)
      BY <2>1, <3>1
    <3>2. ASSUME NEW e \in Engines, arg' = [arg EXCEPT ![c] = e],
                 GoTo(c, "emit"), NEW d \in Callers
          PROVE  Quiet(d) \/ arg'[d] \in Engines
      BY <3>2, GoToMoves DEF TypeOK
    <3>. QED  BY <2>12, <3>1, <3>2 DEF AllocateEngine, Unguard
  <2>13. CASE InitCore(c) \/ CaptureImage(c)
    BY <2>13, <2>1, <2>2
    DEF InitCore, CaptureImage, AbandonCreate, Unguard, Named
  <2>14. CASE RaiseHook(c)
    BY <2>14, <2>2 DEF RaiseHook, Named
  <2>15. CASE ReturnHook(c)
    BY <2>15, HookMoves DEF ReturnHook, Named
  <2>. QED  BY <2>3, <2>4, <2>5, <2>6, <2>7, <2>8, <2>9, <2>10, <2>11, <2>12,
               <2>13, <2>14, <2>15 DEF Proceed
<1>. QED  BY <1>1, <1>2

-----------------------------------------------------------------------------
\* The inductive invariant holds in every state.
LEMMA GuardInductive == Spec => []GuardInv
<1>1. GuardInv /\ [Next]_vars => GuardInv'
  <2>. SUFFICES ASSUME GuardInv, [Next]_vars
                PROVE  GuardInv'
    OBVIOUS
  <2>1. CASE Next
    <3>1. PICK c \in Callers :
            (\E o \in Ops, e \in Handles : Begin(c, o, e)) \/ Proceed(c)
      BY <2>1 DEF Next
    <3>2. TypeOK'
      BY <3>1, TypeStep
    <3>3. GuardExclusion'
      BY <3>1, StepCrosses, ExclusionStep DEF GuardInv
    <3>4. NoneBeforeManager' /\ CallHasEngine'
      BY <3>1, AuxiliaryStep
    <3>. QED  BY <3>2, <3>3, <3>4 DEF GuardInv
  <2>2. CASE UNCHANGED vars
    BY <2>2 DEF vars, managerVars, heapVars, callVars, GuardInv, TypeOK,
       GuardExclusion, NoneBeforeManager, CallHasEngine, Inside
  <2>. QED  BY <2>1, <2>2
<1>. QED  BY GuardInit, <1>1, PTL DEF Spec

\* Every variable keeps its type, whatever the host's threads call in
\* whatever order: the swap always loads an image that exists.
THEOREM TypeCorrect == Spec => []TypeOK
  BY GuardInductive, PTL DEF GuardInv

\* At most one caller runs the shared core, the guard is held exactly while
\* one does, and a callback never gets past the guard of its own thread.
THEOREM GuardIsExclusive == Spec => []GuardExclusion
  BY GuardInductive, PTL DEF GuardInv

-----------------------------------------------------------------------------
(***************************************************************************)
(* The swap.  GuardInv says who may run; what the globals, the images and  *)
(* the heap are while he does depends on how far his call has come.  The   *)
(* world is Settled, except that a creation past its allocation has an     *)
(* Embryo: an engine that exists and is not registered.  The guard makes   *)
(* the phase of the one caller inside the phase of the world, and leaving  *)
(* the guard on any path requires Settled.                                 *)
(***************************************************************************)
\* The labels of a call that has an engine.
Past == {"run", "emit", "hook", "quiet", "capture"}
Registry == {e \in Engines : saved[e] # NoImage}
Creating(c) == op[c] = "create" /\ pc[c] \in Past

\* A callback calls only while its thread runs it.
HookBelow ==
  \A t \in Threads : pc[<<t, "hook">>] # "idle" => pc[<<t, "host">>] = "hook"

\* The labels each entry point passes, and what it knows there.
Fits(c) ==
    /\ op[c] \in {"destroy", "use"} => arg[c] \in Engines
    /\ op[c] = "limits" => arg[c] = NoEngine
    /\ pc[c] = "prepare" => MultiInstance
    /\ pc[c] = "check" => op[c] \in {"destroy", "use"}
    /\ pc[c] = "run" => op[c] = "use"
    /\ pc[c] \in {"alloc", "capture"} => op[c] = "create"
    /\ pc[c] \in {"emit", "hook", "quiet"} => op[c] \in {"create", "destroy", "use"}
    /\ pc[c] = "hook" => hookTo[c] = arg[c]

CallFits == \A c \in Callers : Fits(c)

\* A thread owns the engine of its call, once there is one, and no other.
OwnerExact ==
  \A t \in Threads :
    owner[t] = IF pc[<<t, "host">>] \in Past THEN arg[<<t, "host">>] ELSE NoEngine

\* The baseline is untouched, images are registered under their own engine,
\* and there is none before the baseline has been captured or in a static
\* archive.
Shape ==
  /\ baseline = Pristine
  /\ \A e \in Registry : saved[e].engine = e /\ saved[e].core = e
  /\ active \in Registry \cup {NoEngine}
  /\ ~(MultiInstance /\ available) => Registry = {}
  /\ available => prepared
  /\ ~managerReady => ~prepared

\* The engines a host can still destroy.
Owners ==
  {e \in Engines : IF MultiInstance THEN saved[e] # NoImage ELSE module.engine = e}

\* Nothing is being created: the globals are those of the active engine or
\* the baseline, and everything allocated has its owner.
Settled ==
  /\ module.core = module.engine
  /\ live = Owners /\ cores = Owners
  /\ MultiInstance => module.engine = active /\ (active = NoEngine => module = Pristine)

\* An engine is being created over the baseline: it is allocated, not yet
\* registered, and its core comes up before the capture.
Embryo(c) ==
  /\ MultiInstance => available
  /\ active = NoEngine /\ saved[arg[c]] = NoImage
  /\ module.engine = arg[c] /\ live = Registry \cup {arg[c]}
  /\ IF pc[c] = "capture"
     THEN module.core = arg[c] /\ cores = live /\ module.ticks = 0
     ELSE /\ module.core = NoEngine /\ cores = Registry
          /\ MultiInstance => ~module.touched

\* What the caller that holds the guard has reached.
Stage(c) ==
  /\ ~Creating(c) => Settled
  /\ pc[c] = "check" /\ MultiInstance => active = arg[c]
  /\ pc[c] = "alloc" => module.engine = NoEngine /\ (MultiInstance => available)
  /\ pc[c] \in Past => module.engine = arg[c]
  /\ Creating(c) => Embryo(c)

Phases ==
  /\ \A c \in Callers : Inside(c) => Stage(c)
  /\ ~guard => Settled

SwapInv == GuardInv /\ HookBelow /\ CallFits /\ OwnerExact /\ Shape /\ Phases

-----------------------------------------------------------------------------
\* The invariant holds before the first call.
LEMMA SwapInit == Init => SwapInv
<1>. SUFFICES ASSUME Init PROVE SwapInv
  OBVIOUS
<1>1. GuardInv
  BY GuardInit
<1>2. HookBelow /\ CallFits /\ OwnerExact
  BY DEF Init, HookBelow, CallFits, Fits, OwnerExact, Callers, Past
<1>3. Registry = {}
  BY DEF Init, Registry
<1>4. Shape
  BY <1>3 DEF Init, Shape
<1>5. Settled
  BY NamesDistinct DEF Init, Settled, Owners, Pristine
<1>6. Phases
  BY <1>5 DEF Init, Phases, Inside, Working
<1>. QED  BY <1>1, <1>2, <1>4, <1>6 DEF SwapInv

\* The callers of a step are the host's calls and the callbacks' calls.
LEMMA CallerNames ==
  /\ \A t \in Threads : <<t, "host">> \in Callers /\ <<t, "hook">> \in Callers
  /\ \A c \in Callers : /\ c[1] \in Threads
                        /\ c = <<c[1], "host">> \/ c = <<c[1], "hook">>
                        /\ Outer(c) = <<c[1], "host">> /\ Inner(c) = <<c[1], "hook">>
BY DEF Callers, Outer, Inner

\* Whoever holds the guard is the host's call of its thread.
LEMMA InsideIsHost ==
  ASSUME SwapInv, NEW c \in Callers, Inside(c)
  PROVE  c = <<c[1], "host">>
<1>1. ASSUME c = <<c[1], "hook">> PROVE FALSE
  <2>1. pc[<<c[1], "host">>] = "hook"
    BY <1>1, CallerNames DEF SwapInv, HookBelow, Inside, Working
  <2>2. Inside(<<c[1], "host">>)
    BY <2>1 DEF Inside, Working
  <2>. QED  BY <1>1, <2>2, CallerNames DEF SwapInv, GuardInv, GuardExclusion
<1>. QED  BY <1>1, CallerNames

-----------------------------------------------------------------------------
\* One step of one caller.
Step(c) == (\E o \in Ops, e \in Handles : Begin(c, o, e)) \/ Proceed(c)

\* A step of c leaves the calls of the others alone, except that a callback
\* that returns ends its own.
LEMMA OthersStay ==
  ASSUME GuardInv, NEW c \in Callers, Step(c)
  PROVE  /\ \A d \in Callers : d # c =>
              /\ op'[d] = op[d] /\ arg'[d] = arg[d] /\ hookTo'[d] = hookTo[d]
              /\ \/ pc'[d] = pc[d]
                 \/ ReturnHook(c) /\ d = Inner(c) /\ pc'[d] = "idle"
         /\ \A t \in Threads : t # c[1] => owner'[t] = owner[t]
<1>. USE DEF managerVars, heapVars, callVars
<1>. TypeOK /\ c[1] \in Threads
  BY CallerShape DEF GuardInv
<1>. DEFINE Stay == \A d \in Callers : d # c =>
              op'[d] = op[d] /\ arg'[d] = arg[d] /\ pc'[d] = pc[d]
<1>1. ASSUME NEW r, Return(c, r)
      PROVE  Stay
  BY <1>1, ReturnMoves
<1>2. ASSUME NEW label, GoTo(c, label), UNCHANGED <<op, arg>>
      PROVE  Stay
  BY <1>2, GoToMoves
<1>3. ASSUME NEW r, Unguard(c, r)
      PROVE  Stay /\ \A t \in Threads : t # c[1] => owner'[t] = owner[t]
  BY <1>1, <1>3 DEF Unguard, TypeOK
<1>. HIDE DEF Stay
<1>4. ASSUME NEW o \in Ops, NEW e \in Handles, Begin(c, o, e)
      PROVE  Stay /\ UNCHANGED <<hookTo, owner>>
  <2>1. CASE \E r : Return(c, r)
    BY <1>1, <1>4, <2>1 DEF Begin
  <2>2. CASE /\ op' = [op EXCEPT ![c] = o]
             /\ arg' = [arg EXCEPT ![c] = e]
             /\ \E label : GoTo(c, label)
    BY <1>4, <2>2, GoToMoves DEF Begin, Stay, TypeOK
  <2>. QED  BY <1>4, <2>1, <2>2 DEF Begin
<1>5. CASE PublishManager(c) \/ PrepareBaseline(c) \/ TakeGuard(c)
           \/ ReportLimits(c)
  <2>1. Stay
    BY <1>1, <1>2, <1>5
    DEF PublishManager, PrepareBaseline, TakeGuard, ReportLimits
  <2>2. UNCHANGED <<hookTo, owner>>
    BY <1>5 DEF PublishManager, PrepareBaseline, TakeGuard, ReportLimits
  <2>. QED  BY <2>1, <2>2 DEF Stay
<1>6. ASSUME \/ \E r : Unguard(c, r)
             \/ /\ \E label : GoTo(c, label)
                /\ UNCHANGED <<op, arg, owner>>,
             hookTo' = hookTo
      PROVE  /\ Stay /\ hookTo' = hookTo
             /\ \A t \in Threads : t # c[1] => owner'[t] = owner[t]
  BY <1>2, <1>3, <1>6
<1>7. CASE SwitchToOwner(c) \/ SwitchToBaseline(c)
  <2>1. \/ \E r : Unguard(c, r)
        \/ (\E label : GoTo(c, label)) /\ UNCHANGED <<op, arg, owner>>
    BY <1>7 DEF SwitchToOwner, SwitchToBaseline
  <2>2. hookTo' = hookTo
    BY <1>7 DEF SwitchToOwner, SwitchToBaseline
  <2>. QED  BY <1>6, <2>1, <2>2 DEF Stay
<1>8. CASE RunCore(c) \/ FinishUse(c) \/ Teardown(c)
  <2>1. \/ \E r : Unguard(c, r)
        \/ (\E label : GoTo(c, label)) /\ UNCHANGED <<op, arg, owner>>
    BY <1>8 DEF RunCore, FinishUse, Teardown
  <2>2. hookTo' = hookTo
    BY <1>8 DEF RunCore, FinishUse, Teardown
  <2>. QED  BY <1>6, <2>1, <2>2 DEF Stay
<1>9. CASE InitCore(c) \/ CaptureImage(c)
  <2>1. \/ \E r : Unguard(c, r)
        \/ (\E label : GoTo(c, label)) /\ UNCHANGED <<op, arg, owner>>
    BY <1>9 DEF InitCore, CaptureImage, AbandonCreate
  <2>2. hookTo' = hookTo
    BY <1>9 DEF InitCore, CaptureImage
  <2>. QED  BY <1>6, <2>1, <2>2 DEF Stay
<1>10. CASE CheckHandle(c)
  <2>1. hookTo' = hookTo
    BY <1>10 DEF CheckHandle
  <2>2. CASE \E r : Unguard(c, r)
    BY <1>6, <2>1, <2>2 DEF Stay
  <2>3. CASE ReleaseWithoutOwner(c) /\ UNCHANGED owner
    BY <1>1, <2>1, <2>3 DEF ReleaseWithoutOwner, Stay
  <2>4. CASE /\ owner' = [owner EXCEPT ![c[1]] = arg[c]]
             /\ \E label : GoTo(c, label)
             /\ UNCHANGED <<op, arg>>
    BY <1>2, <2>1, <2>4 DEF Stay, TypeOK
  <2>. QED  BY <1>10, <2>2, <2>3, <2>4 DEF CheckHandle
<1>11. CASE AllocateEngine(c)
  <2>1. hookTo' = hookTo
    BY <1>11 DEF AllocateEngine
  <2>2. CASE \E r : Unguard(c, r)
    BY <1>6, <2>1, <2>2 DEF Stay
  <2>3. ASSUME NEW e, arg' = [arg EXCEPT ![c] = e],
               owner' = [owner EXCEPT ![c[1]] = e],
               GoTo(c, "emit"), UNCHANGED op
        PROVE  Stay /\ \A t \in Threads : t # c[1] => owner'[t] = owner[t]
    BY <2>3, GoToMoves DEF Stay, TypeOK
  <2>. QED  BY <1>11, <2>1, <2>2, <2>3 DEF AllocateEngine, Stay
<1>12. CASE RaiseHook(c)
  <2>1. Stay /\ UNCHANGED owner
    BY <1>2, <1>12 DEF RaiseHook
  <2>. QED  BY <1>12, <2>1 DEF RaiseHook, Stay, TypeOK
<1>13. CASE ReturnHook(c)
  <2>1. UNCHANGED <<owner, op, arg>>
    BY <1>13 DEF ReturnHook
  <2>2. \A d \in Callers : d # c => hookTo'[d] = hookTo[d]
    BY <1>13 DEF ReturnHook, TypeOK
  <2>. QED  BY <1>13, <2>1, <2>2, HookMoves
<1>. QED  BY <1>4, <1>5, <1>7, <1>8, <1>9, <1>10, <1>11, <1>12, <1>13
          DEF Step, Proceed, Stay

\* A caller outside the API can only begin a call, and one whose callback is
\* running can only have it return.
LEMMA Dispatch ==
  ASSUME NEW c \in Callers, Step(c)
  PROVE  /\ pc[c] = "idle" => \E o \in Ops, e \in Handles : Begin(c, o, e)
         /\ pc[c] = "hook" => ReturnHook(c)
  BY DEF Step, Proceed, Begin, PublishManager, TakeGuard, PrepareBaseline,
     ReportLimits, SwitchToOwner, CheckHandle, RunCore, FinishUse,
     Teardown, SwitchToBaseline, AllocateEngine, InitCore, CaptureImage,
     RaiseHook, ReturnHook

\* Every step keeps callbacks below the call that raised them.
LEMMA HookBelowStep ==
  ASSUME SwapInv, NEW c \in Callers, Step(c)
  PROVE  HookBelow'
<1>. DEFINE Host(t) == <<t, "host">>
            Hook(t) == <<t, "hook">>
<1>. SUFFICES ASSUME NEW t \in Threads, pc'[Hook(t)] # "idle"
              PROVE  pc'[Host(t)] = "hook"
  BY DEF HookBelow
<1>0. GuardInv /\ Host(t) \in Callers /\ Hook(t) \in Callers
  BY CallerNames DEF SwapInv
<1>1. CASE c = Hook(t)
  <2>1. pc[Host(t)] = "hook"
    <3>1. CASE pc[c] = "idle"
      BY <1>1, <3>1, CallerNames, Dispatch DEF Begin
    <3>2. CASE pc[c] # "idle"
      BY <1>1, <3>2 DEF SwapInv, HookBelow
    <3>. QED  BY <3>1, <3>2
  <2>2. ~ReturnHook(c)
    BY <1>1, CallerNames DEF ReturnHook
  <2>. QED  BY <1>0, <1>1, <2>1, <2>2, OthersStay
<1>2. CASE c = Host(t)
  <2>1. ~ReturnHook(c)
    BY <1>2, CallerNames, HookMoves, <1>0 DEF GuardInv
  <2>2. pc[Hook(t)] # "idle"
    BY <1>0, <1>2, <2>1, OthersStay
  <2>3. pc[c] = "hook"
    BY <1>2, <2>2 DEF SwapInv, HookBelow
  <2>. QED  BY <2>1, <2>3, Dispatch
<1>3. CASE c # Host(t) /\ c # Hook(t)
  <2>1. Inner(c) # Hook(t) /\ Inner(c) # Host(t)
    BY <1>3, CallerNames
  <2>2. pc'[Host(t)] = pc[Host(t)] /\ pc'[Hook(t)] = pc[Hook(t)]
    BY <1>0, <1>3, <2>1, OthersStay
  <2>. QED  BY <2>2 DEF SwapInv, HookBelow
<1>. QED  BY <1>1, <1>2, <1>3

-----------------------------------------------------------------------------
\* Every step leaves each call at a label its entry point passes.
LEMMA CallFitsStep ==
  ASSUME SwapInv, NEW c \in Callers, Step(c)
  PROVE  CallFits'
<1>. USE DEF managerVars, heapVars, callVars
<1>. GuardInv /\ TypeOK /\ CallFits /\ Fits(c)
  BY DEF SwapInv, GuardInv, CallFits
<1>0. ASSUME NEW d \in Callers, d # c
      PROVE  Fits(d)'
  <2>1. Fits(d)
    BY DEF CallFits
  <2>. QED  BY <1>0, <2>1, OthersStay DEF Fits
<1>1. ASSUME NEW r, Return(c, r)
      PROVE  Fits(c)'
  BY <1>1, ReturnMoves DEF Fits
<1>. SUFFICES ASSUME \A r : ~Return(c, r)
              PROVE  Fits(c)'
  BY <1>0, <1>1 DEF CallFits
<1>. ~ReleaseWithoutOwner(c) /\ \A r : ~Unguard(c, r) /\ ~AbandonCreate(c, r)
  BY DEF ReleaseWithoutOwner, Unguard, AbandonCreate
<1>2. ASSUME NEW o \in Ops, NEW e \in Handles, Begin(c, o, e)
      PROVE  Fits(c)'
  <2>1. /\ o \in {"destroy", "use"} => e \in Engines
        /\ o = "limits" => e = NoEngine
        /\ op' = [op EXCEPT ![c] = o] /\ arg' = [arg EXCEPT ![c] = e]
        /\ GoTo(c, "lock") \/ GoTo(c, "publish")
    BY <1>2 DEF Begin, NeedsHandle, Handles
  <2>2. op'[c] = o /\ arg'[c] = e /\ pc'[c] \in {"lock", "publish"}
    BY <2>1, GoToMoves DEF TypeOK
  <2>. QED  BY <2>1, <2>2 DEF Fits
<1>3. ASSUME NEW label, GoTo(c, label), UNCHANGED <<op, arg, hookTo>>,
             label = "prepare" => MultiInstance,
             label = "check" => op[c] \in {"destroy", "use"},
             label = "run" => op[c] = "use",
             label \in {"alloc", "capture"} => op[c] = "create",
             label \in {"emit", "quiet"} => op[c] \in {"create", "destroy", "use"},
             label # "hook"
      PROVE  Fits(c)'
  BY <1>3, GoToMoves DEF Fits
<1>4. CASE PublishManager(c)
  BY <1>3, <1>4 DEF PublishManager
<1>5. CASE TakeGuard(c)
  BY <1>3, <1>5 DEF TakeGuard
<1>6. CASE PrepareBaseline(c)
  BY <1>3, <1>6 DEF PrepareBaseline
<1>7. CASE SwitchToOwner(c)
  BY <1>3, <1>7 DEF SwitchToOwner
<1>8. CASE SwitchToBaseline(c)
  BY <1>3, <1>8 DEF SwitchToBaseline
<1>9. CASE CheckHandle(c)
  <2>1. op[c] \in {"destroy", "use"}
    BY <1>9 DEF CheckHandle, Fits
  <2>. QED  BY <1>3, <1>9, <2>1 DEF CheckHandle
<1>10. CASE RunCore(c)
  <2>1. op[c] = "use"
    BY <1>10 DEF RunCore, Fits
  <2>. QED  BY <1>3, <1>10, <2>1 DEF RunCore
<1>11. CASE AllocateEngine(c)
  <2>1. op[c] = "create"
    BY <1>11 DEF AllocateEngine, Fits
  <2>2. /\ op' = op /\ hookTo' = hookTo /\ GoTo(c, "emit")
    BY <1>11 DEF AllocateEngine
  <2>. QED  BY <2>1, <2>2, GoToMoves DEF Fits
<1>12. CASE InitCore(c)
  BY <1>3, <1>12 DEF InitCore
<1>13. CASE RaiseHook(c)
  <2>1. c = <<c[1], "host">> /\ c[1] \in Threads
    BY <1>13, CallerNames DEF RaiseHook
  <2>2. owner[c[1]] = arg[c]
    BY <1>13, <2>1 DEF RaiseHook, SwapInv, OwnerExact, Past
  <2>3. /\ op' = op /\ arg' = arg /\ pc'[c] = "hook"
        /\ hookTo'[c] = arg[c]
        /\ pc[c] = "emit"
    BY <1>13, <2>2, GoToMoves DEF RaiseHook, TypeOK
  <2>. QED  BY <2>3 DEF Fits
<1>14. CASE ReturnHook(c)
  <2>1. /\ op' = op /\ arg' = arg /\ pc'[c] = "quiet"
    BY <1>14, HookMoves DEF ReturnHook
  <2>. QED  BY <1>14, <2>1 DEF ReturnHook, Fits
<1>15. ~ReportLimits(c) /\ ~FinishUse(c) /\ ~Teardown(c) /\ ~CaptureImage(c)
  BY DEF ReportLimits, FinishUse, Teardown, CaptureImage
<1>. QED  BY <1>2, <1>4, <1>5, <1>6, <1>7, <1>8, <1>9, <1>10, <1>11, <1>12,
             <1>13, <1>14, <1>15 DEF Step, Proceed

\* What a step of the host's call does to the owner of its thread.
LEMMA OwnerExactStep ==
  ASSUME SwapInv, NEW c \in Callers, Step(c)
  PROVE  OwnerExact'
<1>. USE DEF managerVars, heapVars, callVars
<1>. GuardInv /\ TypeOK /\ OwnerExact /\ Fits(c)
  BY DEF SwapInv, GuardInv, CallFits
<1>. DEFINE Host(t) == <<t, "host">>
            Exact(t) == owner[t] = IF pc[Host(t)] \in Past THEN arg[Host(t)]
                                                         ELSE NoEngine
<1>a. \A t \in Threads : Exact(t) /\ Host(t) \in Callers
  BY CallerNames DEF OwnerExact
<1>0. ASSUME NEW t \in Threads, c # Host(t)
      PROVE  Exact(t)'
  <2>1. CASE c[1] # t
    <3>1. Inner(c) # Host(t)
      BY CallerNames
    <3>. QED  BY <1>a, <2>1, <3>1, OthersStay, <1>0
  <2>2. CASE c[1] = t
    <3>1. c = <<t, "hook">> /\ ~Inside(c)
      BY <1>0, <2>2, CallerNames, InsideIsHost
    <3>2. (\E o \in Ops, e \in Handles : Begin(c, o, e))
          \/ PublishManager(c) \/ TakeGuard(c)
      BY <3>1 DEF Step, Proceed, PrepareBaseline, ReportLimits,
         SwitchToOwner, CheckHandle, RunCore, FinishUse, Teardown,
         SwitchToBaseline, AllocateEngine, InitCore, CaptureImage,
         RaiseHook, ReturnHook, Inside, Working
    <3>3. owner' = owner /\ ~ReturnHook(c)
      BY <3>1, <3>2, HookMoves
      DEF Begin, PublishManager, TakeGuard, Inside, Working
    <3>. QED  BY <1>0, <1>a, <3>3, OthersStay
  <2>. QED  BY <2>1, <2>2
<1>1. ASSUME NEW t \in Threads, c = Host(t)
      PROVE  Exact(t)'
  <2>0. c[1] = t /\ c = Outer(c) /\ c # Inner(c) /\ Exact(t)
    BY <1>1, <1>a, CallerNames DEF Outer, Inner
  <2>1. ASSUME NEW r, Return(c, r)
        PROVE  pc'[c] = "idle"
    BY <2>0, <2>1 DEF Return, TypeOK
  <2>2. ASSUME NEW r, Unguard(c, r)
        PROVE  Exact(t)'
    BY <1>1, <2>0, <2>1, <2>2 DEF Unguard, TypeOK, Past
  <2>3. ASSUME NEW r, Return(c, r), owner' = owner, pc[c] \notin Past
        PROVE  Exact(t)'
    BY <1>1, <2>0, <2>1, <2>3 DEF Past
  <2>4. ASSUME NEW label, GoTo(c, label), owner' = owner, arg' = arg,
               pc[c] \in Past <=> label \in Past
        PROVE  Exact(t)'
    BY <1>1, <2>0, <2>4, GoToMoves
  <2>5. ASSUME NEW o \in Ops, NEW e \in Handles, Begin(c, o, e)
        PROVE  Exact(t)'
    <3>1. pc[c] = "idle" /\ owner' = owner
      BY <2>5 DEF Begin
    <3>2. (\E r : Return(c, r)) \/ GoTo(c, "lock") \/ GoTo(c, "publish")
      BY <2>5 DEF Begin
    <3>3. pc'[c] \in {"idle", "lock", "publish"}
      BY <2>1, <3>2, GoToMoves
    <3>. QED  BY <1>1, <2>0, <3>1, <3>3 DEF Past
  <2>6. CASE PublishManager(c)
    BY <2>4, <2>6 DEF PublishManager, Past
  <2>7. CASE TakeGuard(c)
    BY <2>3, <2>4, <2>7 DEF TakeGuard, Past
  <2>8. CASE PrepareBaseline(c)
    BY <2>4, <2>8 DEF PrepareBaseline, Past
  <2>9. CASE ReportLimits(c)
    BY <2>3, <2>9 DEF ReportLimits, Past
  <2>10. CASE SwitchToOwner(c)
    BY <2>2, <2>4, <2>10 DEF SwitchToOwner, Past
  <2>11. CASE CheckHandle(c)
    <3>1. ASSUME owner' = [owner EXCEPT ![c[1]] = arg[c]], arg' = arg,
                 GoTo(c, "run") \/ GoTo(c, "emit")
          PROVE  Exact(t)'
      BY <1>1, <2>0, <3>1, GoToMoves DEF Past, TypeOK
    <3>. QED  BY <2>2, <2>3, <2>11, <3>1
              DEF CheckHandle, ReleaseWithoutOwner, Past
  <2>12. CASE RunCore(c)
    BY <2>2, <2>4, <2>12 DEF RunCore, Past
  <2>13. CASE FinishUse(c) \/ Teardown(c)
    BY <2>2, <2>13 DEF FinishUse, Teardown
  <2>14. CASE SwitchToBaseline(c)
    BY <2>2, <2>4, <2>14 DEF SwitchToBaseline, Past
  <2>15. CASE AllocateEngine(c)
    <3>1. ASSUME NEW e, owner' = [owner EXCEPT ![c[1]] = e],
                 arg' = [arg EXCEPT ![c] = e], GoTo(c, "emit")
          PROVE  Exact(t)'
      BY <1>1, <2>0, <3>1, GoToMoves DEF Past, TypeOK
    <3>. QED  BY <2>2, <2>15, <3>1 DEF AllocateEngine
  <2>16. CASE InitCore(c)
    BY <2>2, <2>4, <2>16 DEF InitCore, AbandonCreate, Past
  <2>17. CASE CaptureImage(c)
    BY <2>2, <2>17 DEF CaptureImage, AbandonCreate
  <2>18. CASE RaiseHook(c)
    BY <2>4, <2>18 DEF RaiseHook, Past
  <2>19. CASE ReturnHook(c)
    <3>1. owner' = owner /\ arg' = arg /\ pc[c] = "hook" /\ pc'[c] = "quiet"
      BY <2>19, HookMoves DEF ReturnHook
    <3>. QED  BY <1>1, <2>0, <3>1 DEF Past
  <2>. QED  BY <2>5, <2>6, <2>7, <2>8, <2>9, <2>10, <2>11, <2>12, <2>13,
               <2>14, <2>15, <2>16, <2>17, <2>18, <2>19 DEF Step, Proceed
<1>. QED  BY <1>0, <1>1 DEF OwnerExact

-----------------------------------------------------------------------------
\* What a caller that is inside the guard after its step has reached, or
\* what it leaves behind.
Reaches(c) == IF Inside(c)' THEN Stage(c)' ELSE Settled'

\* Everything but the guard, the callers and the publication.
World == <<baseline, available, prepared, active, saved, module, live, cores>>

\* A caller that returns is no longer inside.
LEMMA ReturnLeaves ==
  ASSUME TypeOK, NEW c \in Callers, NEW r, Return(c, r) \/ Unguard(c, r)
  PROVE  ~Inside(c)'
  BY ReturnMoves DEF Unguard, Inside, Working

\* Only the caller that crosses the guard has anything to show for it.
LEMMA OneStage ==
  ASSUME SwapInv, NEW c \in Callers, Step(c), Inside(c) \/ Inside(c)',
         Reaches(c)
  PROVE  Phases'
<1>1. GuardInv /\ GuardExclusion /\ Crosses(c) /\ GuardExclusion'
  BY StepCrosses, ExclusionStep DEF SwapInv, GuardInv, Step
<1>2. ASSUME NEW d \in Callers, Inside(d)'
      PROVE  Stage(d)'
  <2>1. d = c
    BY <1>1, <1>2 DEF Crosses, GuardExclusion
  <2>. QED  BY <1>2, <2>1 DEF Reaches
<1>3. ~guard' => Settled'
  BY <1>1 DEF Reaches, GuardExclusion
<1>. QED  BY <1>2, <1>3 DEF Phases

\* A caller that stays outside the guard changes nothing behind it.
LEMMA Bystander ==
  ASSUME SwapInv, NEW c \in Callers, Step(c), ~Inside(c), ~Inside(c)',
         UNCHANGED World
  PROVE  Phases'
<1>1. GuardInv /\ Crosses(c) /\ ~ReturnHook(c)
  BY StepCrosses DEF SwapInv, Step, ReturnHook, Inside, Working
<1>2. ASSUME NEW d \in Callers, Inside(d)'
      PROVE  Stage(d)'
  <2>1. d # c /\ Inside(d)
    BY <1>1, <1>2 DEF Crosses
  <2>2. pc'[d] = pc[d] /\ op'[d] = op[d] /\ arg'[d] = arg[d]
    BY <1>1, <2>1, OthersStay
  <2>3. Stage(d)
    BY <2>1 DEF SwapInv, Phases
  <2>. QED  BY <2>2, <2>3 DEF World, Stage, Creating, Settled, Owners, Embryo,
                              Registry
<1>3. ~guard' => Settled'
  <2>1. guard' = guard
    BY <1>1 DEF Crosses
  <2>. QED  BY <2>1 DEF World, SwapInv, Phases, Settled, Owners
<1>. QED  BY <1>2, <1>3 DEF Phases

\* A step that leaves the images alone keeps their shape, and so does one that
\* publishes the manager.
LEMMA ShapeStays ==
  ASSUME Shape, UNCHANGED <<baseline, available, prepared, active, saved>>,
         managerReady' = managerReady \/ managerReady'
  PROVE  Shape'
  BY DEF Shape, Registry

\* Publishing the manager writes values its fields already had.
LEMMA PublishChangesNothing ==
  ASSUME SwapInv, NEW c \in Callers, PublishManager(c)
  PROVE  UNCHANGED World
<1>. USE DEF managerVars, heapVars, callVars
<1>1. CASE managerReady
  BY <1>1 DEF PublishManager, PublishesFirst, World
<1>2. CASE ~managerReady
  <2>1. /\ ~prepared /\ ~available /\ Registry = {} /\ active = NoEngine
        /\ baseline = Pristine
    BY <1>2 DEF SwapInv, Shape
  <2>2. saved = [e \in Engines |-> NoImage]
    BY <2>1 DEF Registry, SwapInv, GuardInv, TypeOK
  <2>. QED  BY <1>2, <2>1, <2>2
            DEF PublishManager, PublishesFirst, World, SwapInv, GuardInv, TypeOK
<1>. QED  BY <1>1, <1>2

\* Before a call has an engine nothing is being created.
LEMMA EarlySettled ==
  ASSUME SwapInv, NEW c \in Callers, Inside(c), ~Creating(c)
  PROVE  Settled
  BY DEF SwapInv, Phases, Stage

\* Until the guard has been taken nothing behind it changes.
LEMMA EntryStep ==
  ASSUME SwapInv, NEW c \in Callers,
         \/ \E o \in Ops, e \in Handles : Begin(c, o, e)
         \/ PublishManager(c) \/ TakeGuard(c)
  PROVE  Shape' /\ Phases'
<1>. USE DEF managerVars, heapVars, callVars
<1>. TypeOK /\ Step(c) /\ Shape
  BY DEF SwapInv, GuardInv, Step, Proceed
<1>1. UNCHANGED World
  BY PublishChangesNothing DEF Begin, TakeGuard, World
<1>2. Shape'
  <2>1. managerReady' = managerReady \/ managerReady'
    BY DEF Begin, PublishManager, TakeGuard
  <2>. QED  BY <1>1, <2>1, ShapeStays DEF World
<1>3. ~Inside(c)
  BY DEF Begin, PublishManager, TakeGuard, Inside, Working
<1>4. CASE ~Inside(c)'
  BY <1>1, <1>2, <1>3, <1>4, Bystander
<1>5. CASE Inside(c)'
  <2>1. ~guard /\ pc'[c] \in {"prepare", "switch"}
    <3>1. ASSUME NEW o \in Ops, NEW e \in Handles, Begin(c, o, e)
          PROVE  FALSE
      <4>1. (\E r : Return(c, r)) \/ GoTo(c, "lock") \/ GoTo(c, "publish")
        BY <3>1 DEF Begin
      <4>. QED  BY <4>1, <1>5, ReturnLeaves, GoToMoves DEF Inside, Working
    <3>2. ~PublishManager(c)
      BY <1>5, GoToMoves DEF PublishManager, Inside, Working
    <3>. QED  BY <1>5, <3>1, <3>2, ReturnLeaves, GoToMoves
              DEF TakeGuard, TestAndSet
  <2>2. Settled'
    BY <1>1, <2>1 DEF SwapInv, Phases, Settled, Owners, World
  <2>3. Stage(c)'
    BY <2>1, <2>2 DEF Stage, Creating, Past
  <2>. QED  BY <1>2, <1>5, <2>3, OneStage DEF Reaches
<1>. QED  BY <1>4, <1>5

\* The baseline is captured before any engine has touched the globals.
LEMMA PrepareStep ==
  ASSUME SwapInv, NEW c \in Callers, PrepareBaseline(c)
  PROVE  Shape' /\ Reaches(c)
<1>. USE DEF managerVars, heapVars, callVars
<1>. TypeOK /\ Shape
  BY DEF SwapInv, GuardInv
<1>1. Inside(c) /\ ~Creating(c) /\ Settled /\ MultiInstance /\ managerReady
  <2>1. pc[c] = "prepare"
    BY DEF PrepareBaseline
  <2>2. Inside(c) /\ ~Creating(c)
    BY <2>1 DEF Inside, Working, Creating, Past
  <2>3. MultiInstance /\ managerReady
    BY <2>1 DEF SwapInv, CallFits, Fits, GuardInv, NoneBeforeManager
  <2>. QED  BY <2>2, <2>3, EarlySettled
<1>2. ~prepared => module = Pristine
  BY <1>1, NamesDistinct DEF Shape, Settled
<1>3. Shape'
  BY <1>1, <1>2 DEF PrepareBaseline, Shape, Registry
<1>4. pc'[c] = "switch" /\ Settled'
  BY <1>1, GoToMoves DEF PrepareBaseline, Settled, Owners
<1>5. Stage(c)'
  BY <1>4 DEF Stage, Creating, Past
<1>. QED  BY <1>3, <1>4, <1>5 DEF Reaches, Inside, Working

\* Saving the active engine's globals before others are loaded.
LEMMA ActivateShape ==
  ASSUME SwapInv, Settled, MultiInstance, available,
         NEW e \in Registry \cup {NoEngine}, Activate(module, e),
         UNCHANGED <<baseline, available, prepared, managerReady, live, cores>>
  PROVE  /\ Shape' /\ Settled'
         /\ active' = e /\ Registry' = Registry
<1>. TypeOK /\ Shape
  BY DEF SwapInv, GuardInv
<1>1. \A x \in Engines :
        /\ saved'[x] = IF x = active /\ active # e THEN module ELSE saved[x]
        /\ saved'[x] # NoImage <=> saved[x] # NoImage
  BY ImagesDistinct, NamesDistinct
  DEF Activate, Stored, Shape, Registry, TypeOK
<1>2. Registry' = Registry
  BY <1>1 DEF Registry
<1>3. active \in Engines => module.engine = active /\ module.core = active
  BY DEF Settled
<1>4. active' = e /\ module' = Loaded(module, e)
  BY DEF Activate
<1>5. \A x \in Registry' : saved'[x].engine = x /\ saved'[x].core = x
  BY <1>1, <1>2, <1>3 DEF Shape, Registry
<1>6. Shape'
  BY <1>2, <1>4, <1>5 DEF Shape
<1>7. /\ module'.core = module'.engine /\ module'.engine = e
      /\ e = NoEngine => module' = Pristine
  BY <1>3, <1>4, NamesDistinct
  DEF Loaded, Shape, Registry, Pristine, Settled
<1>8. Owners' = Owners
  BY <1>1 DEF Owners
<1>. QED  BY <1>2, <1>4, <1>6, <1>7, <1>8 DEF Settled

-----------------------------------------------------------------------------
\* A step that changes nothing behind the guard and does not cross the
\* beginning or the end of a creation.
LEMMA QuietStep ==
  ASSUME SwapInv, NEW c \in Callers, Step(c), Inside(c),
         UNCHANGED <<World, managerReady>>,
         \/ ~Inside(c)' /\ ~Creating(c)
         \/ /\ op'[c] = op[c] /\ arg'[c] = arg[c]
            /\ pc[c] \in {"check", "run", "emit", "hook", "quiet"}
            /\ pc'[c] \in {"run", "emit", "hook", "quiet"}
            /\ pc[c] = "check" => ~Creating(c) /\ ~Creating(c)' /\ module.engine = arg[c]
  PROVE  Shape' /\ Reaches(c)
<1>1. Shape'
  BY ShapeStays DEF World, SwapInv
<1>2. Stage(c)
  BY DEF SwapInv, Phases
<1>3. CASE ~Inside(c)' /\ ~Creating(c)
  <2>1. Settled
    BY <1>3, <1>2 DEF Stage
  <2>2. Settled'
    BY <2>1 DEF Settled, Owners, World
  <2>. QED  BY <1>1, <1>3, <2>2 DEF Reaches
<1>4. CASE ~(~Inside(c)' /\ ~Creating(c))
  <2>1. Settled => Settled'
    BY DEF Settled, Owners, World
  <2>2. Creating(c)' <=> Creating(c)
    BY <1>4 DEF Creating, Past
  <2>3. Embryo(c) => Embryo(c)'
    BY <1>4 DEF Embryo, Registry, World
  <2>4. module'.engine = arg'[c]
    BY <1>2, <1>4 DEF Stage, World, Past
  <2>5. Stage(c)'
    BY <1>2, <1>4, <2>1, <2>2, <2>3, <2>4 DEF Stage
  <2>6. Inside(c)'
    BY <1>4 DEF Inside, Working
  <2>. QED  BY <1>1, <2>5, <2>6 DEF Reaches
<1>. QED  BY <1>3, <1>4

\* The steps that only report, check or run a callback.
LEMMA UseStep ==
  ASSUME SwapInv, NEW c \in Callers,
         \/ ReportLimits(c) \/ CheckHandle(c) \/ FinishUse(c)
         \/ RaiseHook(c) \/ ReturnHook(c)
  PROVE  Shape' /\ Reaches(c)
<1>. USE DEF managerVars, heapVars, callVars
<1>. TypeOK /\ Step(c) /\ Fits(c)
  BY DEF SwapInv, GuardInv, CallFits, Step, Proceed
<1>1. UNCHANGED <<World, managerReady>> /\ Inside(c)
  BY DEF ReportLimits, CheckHandle, FinishUse, RaiseHook, ReturnHook, World,
         Inside, Working
<1>2. CASE ReportLimits(c) \/ FinishUse(c)
  <2>1. ~Inside(c)' /\ ~Creating(c)
    BY <1>2, ReturnLeaves DEF ReportLimits, FinishUse, Creating
  <2>. QED  BY <1>1, <2>1, QuietStep
<1>3. CASE CheckHandle(c)
  <2>1. pc[c] = "check" /\ ~Creating(c)
    BY <1>3 DEF CheckHandle, Creating, Past
  <2>2. CASE ~Inside(c)'
    BY <1>1, <2>1, <2>2, QuietStep
  <2>3. CASE Inside(c)'
    <3>1. /\ HandleValid(c) /\ UNCHANGED <<op, arg>>
          /\ GoTo(c, IF op[c] = "use" THEN "run" ELSE "emit")
      BY <1>3, <2>3, ReturnLeaves DEF CheckHandle, ReleaseWithoutOwner
    <3>2. pc'[c] \in {"run", "emit"} /\ op[c] \in {"destroy", "use"}
      BY <2>1, <3>1, GoToMoves DEF Fits
    <3>3. ~Creating(c)'
      BY <3>1, <3>2 DEF Creating
    <3>. QED  BY <1>1, <2>1, <3>1, <3>2, <3>3, QuietStep DEF HandleValid
  <2>. QED  BY <2>2, <2>3
<1>4. CASE RaiseHook(c)
  <2>1. pc[c] = "emit" /\ pc'[c] = "hook" /\ UNCHANGED <<op, arg>>
    BY <1>4, GoToMoves DEF RaiseHook
  <2>. QED  BY <1>1, <2>1, QuietStep
<1>5. CASE ReturnHook(c)
  <2>1. pc[c] = "hook" /\ pc'[c] = "quiet" /\ UNCHANGED <<op, arg>>
    BY <1>5, HookMoves DEF ReturnHook
  <2>. QED  BY <1>1, <2>1, QuietStep
<1>. QED  BY <1>2, <1>3, <1>4, <1>5

\* Both switches keep every image under its own handle.
LEMMA SwitchStep ==
  ASSUME SwapInv, NEW c \in Callers, SwitchToOwner(c) \/ SwitchToBaseline(c)
  PROVE  Shape' /\ Reaches(c)
<1>. USE DEF managerVars, heapVars, callVars
<1>. TypeOK /\ Shape /\ Fits(c)
  BY DEF SwapInv, GuardInv, CallFits
<1>1. Inside(c) /\ ~Creating(c) /\ Settled
  <2>1. pc[c] = "switch"
    BY DEF SwitchToOwner, SwitchToBaseline
  <2>. QED  BY <2>1, EarlySettled DEF Inside, Working, Creating, Past
<1>2. UNCHANGED <<baseline, available, prepared, managerReady, live, cores>>
  BY DEF SwitchToOwner, SwitchToBaseline
<1>3. CASE UNCHANGED <<module, saved, active>> /\ ~Inside(c)'
  <2>1. Shape'
    BY <1>2, <1>3, ShapeStays
  <2>. QED  BY <1>1, <1>2, <1>3, <2>1 DEF Reaches, Settled, Owners
<1>4. CASE SwitchToOwner(c) /\ Inside(c)'
  <2>1. /\ MultiInstance => available /\ Registered(arg[c])
        /\ IF MultiInstance THEN Activate(module, arg[c])
           ELSE UNCHANGED <<module, saved, active>>
        /\ GoTo(c, "check")
    BY <1>4, ReturnLeaves DEF SwitchToOwner
  <2>2. arg[c] \in Engines /\ pc'[c] = "check" /\ arg' = arg
    BY <1>4, <2>1, GoToMoves, ReturnLeaves DEF SwitchToOwner, Fits
  <2>3. CASE MultiInstance
    <3>1. arg[c] \in Registry
      BY <2>1, <2>2, <2>3 DEF Registered, Registry
    <3>2. Shape' /\ Settled' /\ active' = arg[c]
      BY <1>1, <1>2, <2>1, <2>3, <3>1, ActivateShape
    <3>3. Stage(c)'
      BY <2>2, <3>2 DEF Stage, Creating, Past
    <3>. QED  BY <1>4, <3>2, <3>3 DEF Reaches
  <2>4. CASE ~MultiInstance
    <3>1. Shape' /\ Settled'
      BY <1>1, <1>2, <2>1, <2>4, ShapeStays DEF Settled, Owners
    <3>2. Stage(c)'
      BY <2>2, <2>4, <3>1 DEF Stage, Creating, Past
    <3>. QED  BY <1>4, <3>1, <3>2 DEF Reaches
  <2>. QED  BY <2>3, <2>4
<1>5. CASE SwitchToBaseline(c) /\ Inside(c)'
  <2>1. /\ IF MultiInstance
           THEN available /\ Activate(module, NoEngine)
           ELSE module.engine = NoEngine /\ UNCHANGED <<module, saved, active>>
        /\ GoTo(c, "alloc")
    BY <1>5, ReturnLeaves DEF SwitchToBaseline
  <2>2. pc'[c] = "alloc"
    BY <2>1, GoToMoves
  <2>3. /\ Shape' /\ Settled' /\ module'.engine = NoEngine
        /\ MultiInstance => available'
    <3>1. CASE MultiInstance
      <4>1. Shape' /\ Settled' /\ active' = NoEngine
        BY <1>1, <1>2, <2>1, <3>1, ActivateShape
      <4>. QED  BY <1>2, <2>1, <3>1, <4>1 DEF Settled
    <3>2. CASE ~MultiInstance
      BY <1>1, <1>2, <2>1, <3>2, ShapeStays DEF Settled, Owners
    <3>. QED  BY <3>1, <3>2
  <2>4. Stage(c)'
    BY <2>2, <2>3 DEF Stage, Creating, Past
  <2>. QED  BY <1>5, <2>3, <2>4 DEF Reaches
<1>6. ~Inside(c)' => UNCHANGED <<module, saved, active>>
  BY GoToMoves DEF SwitchToOwner, SwitchToBaseline, Inside, Working
<1>. QED  BY <1>3, <1>4, <1>5, <1>6

\* Running the core keeps the globals under the handle of the call.
LEMMA RunStep ==
  ASSUME SwapInv, NEW c \in Callers, RunCore(c)
  PROVE  Shape' /\ Reaches(c)
<1>. USE DEF managerVars, heapVars, callVars
<1>. TypeOK /\ Shape /\ Fits(c) /\ Step(c)
  BY DEF SwapInv, GuardInv, CallFits, Step, Proceed
<1>1. pc[c] = "run" /\ Inside(c) /\ ~Creating(c) /\ arg[c] \in Engines
  BY DEF RunCore, Inside, Working, Fits, Creating
<1>2. Settled /\ module.engine = arg[c]
  BY <1>1 DEF SwapInv, Phases, Stage, Past
<1>3. Shape'
  BY ShapeStays DEF RunCore
<1>4. module'.engine = module.engine /\ module'.core = module.core
  BY DEF RunCore, TypeOK, Image
<1>5. Settled'
  <2>1. Owners' = Owners
    BY <1>4 DEF RunCore, Owners
  <2>2. MultiInstance => module'.engine = active' /\ active' # NoEngine
    BY <1>1, <1>2, <1>4, NamesDistinct DEF RunCore, Settled
  <2>. QED  BY <1>2, <1>4, <2>1, <2>2 DEF RunCore, Settled
<1>6. CASE Inside(c)'
  <2>1. pc'[c] = "emit" /\ op' = op /\ arg' = arg
    BY <1>6, ReturnLeaves, GoToMoves DEF RunCore
  <2>2. Stage(c)'
    BY <1>1, <1>2, <1>4, <1>5, <2>1 DEF Stage, Creating, Past
  <2>. QED  BY <1>3, <1>6, <2>2 DEF Reaches
<1>. QED  BY <1>3, <1>5, <1>6 DEF Reaches

\* A destruction takes the engine, its core and its image together.
LEMMA TeardownStep ==
  ASSUME SwapInv, NEW c \in Callers, Teardown(c)
  PROVE  Shape' /\ Reaches(c)
<1>. USE DEF managerVars, heapVars, callVars
<1>. TypeOK /\ Shape /\ Fits(c)
  BY DEF SwapInv, GuardInv, CallFits
<1>. DEFINE e == arg[c]
<1>1. Inside(c) /\ ~Creating(c) /\ pc[c] \in Past /\ e \in Engines
  BY DEF Teardown, Inside, Working, Fits, Creating, Past
<1>2. Settled /\ module.engine = e /\ module.core = e
  BY <1>1 DEF SwapInv, Phases, Stage, Settled
<1>3. ~Inside(c)'
  BY ReturnLeaves DEF Teardown
<1>4. live' = live \ {e} /\ cores' = cores \ {e} /\ live = Owners /\ cores = Owners
  BY <1>2 DEF Teardown, CoresLeft, Settled
<1>5. CASE MultiInstance
  <2>1. active = e
    BY <1>2, <1>5 DEF Settled
  <2>2. /\ module' = Pristine /\ active' = NoEngine
        /\ saved' = [saved EXCEPT ![e] = NoImage]
    BY <1>5, <2>1 DEF Teardown, Discarded, ActiveAfter, Shape
  <2>3. \A x \in Engines : saved'[x] = IF x = e THEN NoImage ELSE saved[x]
    BY <2>2 DEF TypeOK
  <2>4. Registry' = Registry \ {e}
    BY <2>3 DEF Registry
  <2>5. Shape'
    BY <2>2, <2>3, <2>4 DEF Teardown, Shape, Registry
  <2>6. Owners' = Owners \ {e}
    BY <1>5, <2>3 DEF Owners
  <2>7. Settled'
    BY <1>4, <1>5, <2>2, <2>6 DEF Settled, Pristine
  <2>. QED  BY <1>3, <2>5, <2>7 DEF Reaches
<1>6. CASE ~MultiInstance
  <2>1. module' = Terminated /\ UNCHANGED <<saved, active>>
    BY <1>6 DEF Teardown
  <2>2. module'.engine = NoEngine /\ module'.core = NoEngine
    BY <2>1 DEF Terminated, TypeOK, Image
  <2>3. Owners = {e} /\ Owners' = {}
    BY <1>1, <1>2, <1>6, <2>2, NamesDistinct DEF Owners
  <2>4. Settled'
    BY <1>4, <1>6, <2>2, <2>3 DEF Settled
  <2>5. Shape'
    BY <2>1, ShapeStays DEF Teardown
  <2>. QED  BY <1>3, <2>4, <2>5 DEF Reaches
<1>. QED  BY <1>5, <1>6

\* An allocated engine starts over the baseline.
LEMMA AllocateStep ==
  ASSUME SwapInv, NEW c \in Callers, AllocateEngine(c)
  PROVE  Shape' /\ Reaches(c)
<1>. USE DEF managerVars, heapVars, callVars
<1>. TypeOK /\ Shape /\ Fits(c)
  BY DEF SwapInv, GuardInv, CallFits
<1>1. pc[c] = "alloc" /\ Inside(c) /\ ~Creating(c) /\ op[c] = "create"
  BY DEF AllocateEngine, Inside, Working, Fits, Creating, Past
<1>2. /\ Settled /\ module.engine = NoEngine /\ module.core = NoEngine
      /\ MultiInstance => available
  BY <1>1 DEF SwapInv, Phases, Stage, Settled
<1>3. Shape'
  BY ShapeStays DEF AllocateEngine
<1>4. MultiInstance => module = Pristine /\ active = NoEngine
  BY <1>2 DEF Settled
<1>5. ~MultiInstance => Owners = {} /\ Registry = {} /\ active = NoEngine
  BY <1>2, NamesDistinct DEF Owners, Shape
<1>6. CASE UNCHANGED live
  <2>1. ~Inside(c)'
    BY <1>6, ReturnLeaves DEF AllocateEngine
  <2>2. /\ module'.engine = NoEngine /\ module'.core = NoEngine
        /\ MultiInstance => module' = Pristine
    <3>1. [module EXCEPT !.engine = NoEngine].engine = NoEngine
          /\ [module EXCEPT !.engine = NoEngine].core = NoEngine
      BY <1>2 DEF TypeOK, Image
    <3>2. CASE module' = module
      BY <1>2, <1>4, <3>2
    <3>3. CASE module' # module
      <4>1. module' = IF MultiInstance
                      THEN Loaded([module EXCEPT !.engine = NoEngine], NoEngine)
                      ELSE [module EXCEPT !.engine = NoEngine]
        BY <1>6, <3>3 DEF AllocateEngine
      <4>2. MultiInstance => module' = Pristine
        BY <4>1 DEF Loaded, Shape
      <4>. QED  BY <3>1, <4>1, <4>2 DEF Pristine
    <3>. QED  BY <3>2, <3>3
  <2>3. Owners' = Owners
    BY <1>2, <2>2 DEF AllocateEngine, Owners
  <2>4. Settled'
    BY <1>2, <1>6, <2>2, <2>3 DEF AllocateEngine, Settled
  <2>. QED  BY <1>3, <2>1, <2>4 DEF Reaches
<1>7. ASSUME NEW e \in Engines \ live,
             live' = live \cup {e},
             module' = [module EXCEPT !.engine = e, !.hooks = TRUE],
             arg' = [arg EXCEPT ![c] = e], op' = op,
             GoTo(c, "emit")
      PROVE  Shape' /\ Reaches(c)
  <2>1. pc'[c] = "emit" /\ arg'[c] = e /\ Creating(c)'
    BY <1>1, <1>7, GoToMoves DEF TypeOK, Creating, Past
  <2>2. /\ module'.engine = e /\ module'.core = NoEngine
        /\ module'.touched = module.touched
    BY <1>2, <1>7 DEF TypeOK, Image
  <2>3. Owners = Registry
    BY <1>5 DEF Owners, Registry
  <2>4. live = Registry /\ cores = Registry /\ saved[e] = NoImage
    BY <1>2, <1>7, <2>3 DEF Settled, Registry
  <2>5. UNCHANGED <<saved, active, available, cores>> /\ Registry' = Registry
    BY DEF AllocateEngine, Registry
  <2>6. MultiInstance => ~module'.touched
    BY <1>4, <2>2 DEF Pristine
  <2>7. Embryo(c)'
    BY <1>2, <1>4, <1>5, <1>7, <2>1, <2>2, <2>4, <2>5, <2>6 DEF Embryo
  <2>8. Stage(c)' /\ Inside(c)'
    BY <2>1, <2>2, <2>7 DEF Stage, Inside, Working
  <2>. QED  BY <1>3, <2>8 DEF Reaches
<1>. QED  BY <1>6, <1>7 DEF AllocateEngine

\* A creation that is abandoned leaves what was there before it.
LEMMA AbandonStep ==
  ASSUME SwapInv, NEW c \in Callers, Inside(c), Creating(c), NEW r,
         AbandonCreate(c, r),
         UNCHANGED <<managerReady, prepared, available, baseline>>
  PROVE  Shape' /\ Reaches(c)
<1>. TypeOK /\ Shape
  BY DEF SwapInv, GuardInv
<1>. DEFINE e == arg[c]
<1>1. Embryo(c) /\ e \in Engines /\ module.engine = e
  BY DEF SwapInv, Phases, Stage, GuardInv, CallHasEngine, Creating, Past
<1>2. ~Inside(c)'
  BY ReturnLeaves DEF AbandonCreate
<1>3. e \notin Registry /\ NoEngine \notin Registry
  BY <1>1, NamesDistinct DEF Embryo, Registry
<1>4. live' = Registry /\ cores' = Registry
  BY <1>1, <1>3 DEF AbandonCreate, CoresLeft, Embryo
<1>. DEFINE spent == [Terminated EXCEPT !.touched = TRUE]
<1>5. spent.engine = NoEngine /\ spent.core = NoEngine
  BY DEF Terminated, TypeOK, Image
<1>6. UNCHANGED <<saved, active>>
  <2>1. CASE MultiInstance
    BY <1>1, <2>1 DEF AbandonCreate, Activate, Stored, Embryo
  <2>2. CASE ~MultiInstance
    BY <2>2 DEF AbandonCreate
  <2>. QED  BY <2>1, <2>2
<1>7. /\ module'.engine = NoEngine /\ module'.core = NoEngine
      /\ MultiInstance => module' = Pristine
  <2>1. CASE MultiInstance
    <3>1. module' = Pristine
      BY <2>1 DEF AbandonCreate, Activate, Loaded, Shape
    <3>. QED  BY <3>1 DEF Pristine
  <2>2. CASE ~MultiInstance
    BY <1>5, <2>2 DEF AbandonCreate
  <2>. QED  BY <2>1, <2>2
<1>8. Shape'
  BY <1>6, ShapeStays
<1>9. Owners' = Registry
  <2>1. CASE MultiInstance
    BY <1>6, <2>1 DEF Owners, Registry
  <2>2. CASE ~MultiInstance
    BY <1>7, <2>2, NamesDistinct DEF Owners, Shape
  <2>. QED  BY <2>1, <2>2
<1>10. Settled'
  BY <1>1, <1>4, <1>6, <1>7, <1>9 DEF Settled, Embryo
<1>. QED  BY <1>2, <1>8, <1>10 DEF Reaches

\* The core of the new engine comes up, or the creation is abandoned.
LEMMA InitCoreStep ==
  ASSUME SwapInv, NEW c \in Callers, InitCore(c)
  PROVE  Shape' /\ Reaches(c)
<1>. USE DEF managerVars, heapVars, callVars
<1>. TypeOK /\ Shape
  BY DEF SwapInv, GuardInv
<1>1. Creating(c) /\ Inside(c) /\ pc[c] # "capture"
  BY DEF InitCore, Creating, Past, Inside, Working
<1>2. UNCHANGED <<managerReady, prepared, available, baseline>>
  BY DEF InitCore
<1>3. CASE \E r : AbandonCreate(c, r)
  BY <1>1, <1>2, <1>3, AbandonStep
<1>4. CASE ~\E r : AbandonCreate(c, r)
  <2>1. /\ cores' = CoresLeft \cup {arg[c]} /\ module' = Booted(arg[c])
        /\ GoTo(c, "capture")
        /\ UNCHANGED <<live, op, arg, saved, active>>
    BY <1>4 DEF InitCore
  <2>2. Embryo(c) /\ arg[c] \in Engines
    BY <1>1 DEF SwapInv, Phases, Stage, GuardInv, CallHasEngine, Creating, Past
  <2>3. /\ module'.engine = arg[c] /\ module'.core = arg[c]
        /\ module'.ticks = 0
    BY <2>1, <2>2 DEF Booted, Embryo, TypeOK, Image
  <2>4. NoEngine \notin Registry
    BY NamesDistinct DEF Registry
  <2>5. cores' = live'
    BY <1>1, <2>1, <2>2, <2>4 DEF CoresLeft, Embryo
  <2>6. Registry' = Registry
    BY <2>1 DEF Registry
  <2>7. pc'[c] = "capture"
    BY <2>1, GoToMoves
  <2>8. Embryo(c)'
    BY <1>2, <2>1, <2>2, <2>3, <2>5, <2>6, <2>7 DEF Embryo
  <2>9. Stage(c)' /\ Inside(c)'
    BY <1>1, <2>1, <2>3, <2>7, <2>8 DEF Stage, Creating, Past, Inside, Working
  <2>10. Shape'
    BY <1>2, <2>1, ShapeStays
  <2>. QED  BY <2>9, <2>10 DEF Reaches
<1>. QED  BY <1>3, <1>4

\* The new engine is registered with its own image, or abandoned.
LEMMA CaptureStep ==
  ASSUME SwapInv, NEW c \in Callers, CaptureImage(c)
  PROVE  Shape' /\ Reaches(c)
<1>. USE DEF managerVars, heapVars, callVars
<1>. TypeOK /\ Shape /\ Fits(c)
  BY DEF SwapInv, GuardInv, CallFits
<1>1. Creating(c) /\ Inside(c) /\ pc[c] = "capture"
  BY DEF CaptureImage, Fits, Creating, Past, Inside, Working
<1>2. UNCHANGED <<managerReady, prepared, available, baseline>>
  BY DEF CaptureImage
<1>3. CASE \E r : AbandonCreate(c, r)
  BY <1>1, <1>2, <1>3, AbandonStep
<1>4. CASE ~\E r : AbandonCreate(c, r)
  <2>. DEFINE e == arg[c]
  <2>1. /\ IF MultiInstance
           THEN /\ saved' = [saved EXCEPT ![e] = module]
                /\ active' = e
           ELSE UNCHANGED <<saved, active>>
        /\ Unguard(c, "OK")
        /\ UNCHANGED <<module, live, cores>>
    BY <1>4 DEF CaptureImage
  <2>2. Embryo(c) /\ e \in Engines
    BY <1>1 DEF SwapInv, Phases, Stage, GuardInv, CallHasEngine, Creating
  <2>3. /\ module.engine = e /\ module.core = e
        /\ live = Registry \cup {e} /\ cores = live
    BY <1>1, <2>2 DEF Embryo
  <2>4. ~Inside(c)'
    BY <2>1, ReturnLeaves
  <2>5. CASE MultiInstance
    <3>1. \A x \in Engines : saved'[x] = IF x = e THEN module ELSE saved[x]
      BY <2>1, <2>5 DEF TypeOK
    <3>2. Registry' = Registry \cup {e} /\ Owners' = Registry \cup {e}
      BY <2>2, <2>5, <3>1, ImagesDistinct DEF Registry, Owners, TypeOK
    <3>3. \A x \in Registry' : saved'[x].engine = x /\ saved'[x].core = x
      BY <2>3, <3>1, <3>2 DEF Registry, Shape
    <3>4. Shape'
      BY <1>2, <2>1, <2>2, <2>5, <3>2, <3>3 DEF Shape, Embryo
    <3>5. Settled'
      BY <2>1, <2>2, <2>3, <2>5, <3>2, NamesDistinct DEF Settled
    <3>. QED  BY <2>4, <3>4, <3>5 DEF Reaches
  <2>6. CASE ~MultiInstance
    <3>1. Shape'
      BY <1>2, <2>1, <2>6, ShapeStays
    <3>2. Registry = {} /\ Owners' = {e}
      BY <2>1, <2>2, <2>3, <2>6 DEF Shape, Owners
    <3>3. Settled'
      BY <2>1, <2>3, <2>6, <3>2 DEF Settled
    <3>. QED  BY <2>4, <3>1, <3>3 DEF Reaches
  <2>. QED  BY <2>5, <2>6
<1>. QED  BY <1>3, <1>4

\* Every step keeps the shape of the images and the phase of the call.
LEMMA PhaseStep ==
  ASSUME SwapInv, NEW c \in Callers, Step(c)
  PROVE  Shape' /\ Phases'
<1>1. CASE (\E o \in Ops, e \in Handles : Begin(c, o, e))
           \/ PublishManager(c) \/ TakeGuard(c)
  BY <1>1, EntryStep
<1>2. CASE ~((\E o \in Ops, e \in Handles : Begin(c, o, e))
             \/ PublishManager(c) \/ TakeGuard(c))
  <2>1. Inside(c)
    BY <1>2 DEF Step, Proceed, PrepareBaseline, ReportLimits, SwitchToOwner,
       CheckHandle, RunCore, FinishUse, Teardown, SwitchToBaseline,
       AllocateEngine, InitCore, CaptureImage, RaiseHook, ReturnHook, Inside,
       Working
  <2>2. Shape' /\ Reaches(c)
    BY <1>2, PrepareStep, UseStep, SwitchStep, RunStep, TeardownStep,
       AllocateStep, InitCoreStep, CaptureStep DEF Step, Proceed
  <2>. QED  BY <2>1, <2>2, OneStage
<1>. QED  BY <1>1, <1>2

\* The strengthened invariant holds in every state.
LEMMA SwapInductive == Spec => []SwapInv
<1>1. SwapInv /\ [Next]_vars => SwapInv'
  <2>. SUFFICES ASSUME SwapInv, [Next]_vars
                PROVE  SwapInv'
    OBVIOUS
  <2>1. CASE Next
    <3>1. PICK c \in Callers : Step(c)
      BY <2>1 DEF Next, Step
    <3>2. GuardInv'
      BY <3>1, TypeStep, StepCrosses, ExclusionStep, AuxiliaryStep
      DEF SwapInv, GuardInv, Step
    <3>. QED  BY <3>1, <3>2, HookBelowStep, CallFitsStep, OwnerExactStep,
                 PhaseStep DEF SwapInv
  <2>2. CASE UNCHANGED vars
    <3>. USE <2>2 DEF vars, managerVars, heapVars, callVars
    <3>1. GuardInv'
      BY DEF SwapInv, GuardInv, TypeOK, GuardExclusion, NoneBeforeManager,
             CallHasEngine, Inside
    <3>2. HookBelow' /\ CallFits' /\ OwnerExact'
      BY DEF SwapInv, HookBelow, CallFits, Fits, OwnerExact
    <3>3. Shape' /\ Phases'
      BY DEF SwapInv, Shape, Registry, Phases, Inside, Stage, Creating,
             Embryo, Settled, Owners
    <3>. QED  BY <3>1, <3>2, <3>3 DEF SwapInv
  <2>. QED  BY <2>1, <2>2
<1>. QED  BY SwapInit, <1>1, PTL DEF Spec

-----------------------------------------------------------------------------
\* Whoever is or is not inside, the globals are in one of two phases.
LEMMA TwoPhases ==
  ASSUME SwapInv
  PROVE  Settled \/ \E c \in Callers : Inside(c) /\ Creating(c) /\ Embryo(c)
  BY DEF SwapInv, GuardInv, GuardExclusion, Phases, Stage

\* What the strengthened invariant says of handles, boots and callbacks.
LEMMA SwapMatches ==
  ASSUME SwapInv
  PROVE  ImagesMatchHandles /\ CleanBoot /\ HookReachesCaller
<1>1. ImagesMatchHandles
  <2>1. active # NoEngine => module.engine = active
    <3>1. CASE Settled
      <4>1. ~MultiInstance => active = NoEngine
        BY DEF SwapInv, Shape
      <4>. QED  BY <3>1, <4>1 DEF Settled
    <3>2. CASE \E c \in Callers : Embryo(c)
      BY <3>2 DEF Embryo
    <3>. QED  BY <3>1, <3>2, TwoPhases
  <2>. QED  BY <2>1 DEF SwapInv, Shape, Registry, ImagesMatchHandles
<1>2. CleanBoot
  <2>. SUFFICES ASSUME NEW c \in Callers, MultiInstance, op[c] = "create",
                       pc[c] \in {"emit", "hook", "quiet"}
                PROVE  ~module.touched /\ module.core = NoEngine
    BY DEF CleanBoot
  <2>1. Inside(c) /\ Creating(c)
    BY DEF Inside, Working, Creating, Past
  <2>. QED  BY <2>1 DEF SwapInv, Phases, Stage, Embryo
<1>3. HookReachesCaller
  <2>1. ASSUME NEW c \in Callers, pc[c] = "hook"
        PROVE  hookTo[c] = arg[c] /\ module.engine = arg[c]
    <3>1. Inside(c)
      BY <2>1 DEF Inside, Working
    <3>. QED  BY <2>1, <3>1
              DEF SwapInv, CallFits, Fits, Phases, Stage, Past
  <2>2. ASSUME NEW t \in Threads, owner[t] # NoEngine
        PROVE  Inside(<<t, "host">>) /\ arg[<<t, "host">>] = owner[t]
    BY <2>2 DEF SwapInv, OwnerExact, Past, Inside, Working
  <2>. QED  BY <2>1, <2>2 DEF HookReachesCaller
<1>. QED  BY <1>1, <1>2, <1>3

\* What it says of memory.
LEMMA SwapDangles ==
  ASSUME SwapInv
  PROVE  NothingDanglesOrLeaks
<1>. TypeOK /\ Shape
  BY DEF SwapInv, GuardInv
<1>1. /\ Registry \subseteq live /\ Registry \subseteq cores
      /\ module.engine \in live \cup {NoEngine}
      /\ module.core \in cores \cup {NoEngine}
  <2>1. CASE Settled
    <3>1. module.engine \in Engines \cup {NoEngine}
      BY DEF TypeOK, Image, Handles
    <3>2. Registry \subseteq Owners
      BY DEF Shape, Registry, Owners
    <3>3. module.engine \in Owners \cup {NoEngine}
      <4>1. CASE MultiInstance
        BY <2>1, <4>1 DEF Settled, Shape, Registry, Owners
      <4>2. CASE ~MultiInstance
        BY <3>1, <4>2 DEF Owners
      <4>. QED  BY <4>1, <4>2
    <3>. QED  BY <2>1, <3>2, <3>3 DEF Settled
  <2>2. CASE \E c \in Callers : Embryo(c)
    BY <2>2 DEF Embryo
  <2>. QED  BY <2>1, <2>2, TwoPhases
<1>2. \A e \in Engines : saved[e] # NoImage => Sound(saved[e])
  BY <1>1 DEF Shape, Registry, Sound
<1>3. Sound(baseline) /\ Sound(module)
  BY <1>1 DEF Shape, Pristine, Sound
<1>4. ~guard => live = Owners /\ cores = live
  BY DEF SwapInv, Phases, Settled
<1>. QED  BY <1>2, <1>3, <1>4 DEF NothingDanglesOrLeaks, Owners

\* The swap never mixes up two engines: every saved image is registered under
\* the handle it carries, and the globals carry the handle of the active
\* context.
THEOREM ImagesAreTheirHandles == Spec => []ImagesMatchHandles
  BY SwapInductive, SwapMatches, PTL

\* In a shared build a new core comes up over globals nothing has touched.
THEOREM BootIsClean == Spec => []CleanBoot
  BY SwapInductive, SwapMatches, PTL

\* A callback reaches the engine whose call is running, and no thread keeps an
\* engine after its call.
THEOREM HookIsForItsCaller == Spec => []HookReachesCaller
  BY SwapInductive, SwapMatches, PTL

\* No image points to freed memory at any step of a call, and between calls
\* every engine can still be destroyed and every core has its engine.
THEOREM NothingIsLost == Spec => []NothingDanglesOrLeaks
  BY SwapInductive, SwapDangles, PTL

-----------------------------------------------------------------------------
\* The simulations behind the handles, as the abstract specification sees them.
Stores == [e \in Engines |-> Store(e)]

\* The call of c goes to the engine that is loaded.
LEMMA LoadedStore ==
  ASSUME SwapInv, NEW c \in Callers, Inside(c), pc[c] \in Past, ~Creating(c)
  PROVE  /\ Settled /\ arg[c] \in Engines /\ module.engine = arg[c]
         /\ module.core = arg[c]
         /\ MultiInstance => active = arg[c] /\ saved[arg[c]] # NoImage
         /\ Store(arg[c]) = module.ticks /\ module.ticks \in 0 .. MaxTicks
         /\ Store(arg[c]) # Absent
<1>1. Settled /\ arg[c] \in Engines /\ module.engine = arg[c]
  BY DEF SwapInv, Phases, Stage, GuardInv, CallHasEngine, Past
<1>2. MultiInstance => active = arg[c] /\ saved[arg[c]] # NoImage
  BY <1>1, NamesDistinct DEF Settled, SwapInv, Shape, Registry
<1>3. module.core = arg[c]
  BY <1>1 DEF Settled
<1>4. module.ticks \in 0 .. MaxTicks
  BY DEF SwapInv, GuardInv, TypeOK, Image
<1>5. Store(arg[c]) = module.ticks
  BY <1>1, <1>2, <1>3 DEF Store
<1>. QED  BY <1>1, <1>2, <1>3, <1>4, <1>5, AbsentDistinct

\* The engine that is being created has its simulation from the capture on
\* (shared builds) or from the initialisation on (static archives).
LEMMA EmbryoStore ==
  ASSUME SwapInv, NEW c \in Callers, Inside(c), Creating(c)
  PROVE  /\ Embryo(c) /\ arg[c] \in Engines /\ module.engine = arg[c]
         /\ MultiInstance => Store(arg[c]) = Absent
         /\ ~MultiInstance => Store(arg[c]) = IF pc[c] = "capture" THEN 0
                                                                  ELSE Absent
<1>1. Embryo(c) /\ arg[c] \in Engines
  BY DEF SwapInv, Phases, Stage, GuardInv, CallHasEngine, Creating, Past
<1>. QED  BY <1>1, NamesDistinct DEF Embryo, Store

\* Switching moves the globals but no simulation.
LEMMA SwitchKeepsStores ==
  ASSUME SwapInv, NEW c \in Callers, SwitchToOwner(c) \/ SwitchToBaseline(c)
  PROVE  \A e \in Engines : Store(e)' = Store(e)
<1>. USE DEF managerVars, heapVars, callVars
<1>. TypeOK /\ Shape /\ Fits(c)
  BY DEF SwapInv, GuardInv, CallFits
<1>1. Settled
  <2>1. pc[c] = "switch"
    BY DEF SwitchToOwner, SwitchToBaseline
  <2>. QED  BY <2>1, EarlySettled DEF Inside, Working, Creating, Past
<1>2. CASE UNCHANGED <<module, saved, active>>
  BY <1>2 DEF Store
<1>3. ASSUME NEW x \in Registry \cup {NoEngine}, Activate(module, x),
             MultiInstance
      PROVE  \A e \in Engines : Store(e)' = Store(e)
  <2>1. \A e \in Engines :
          saved'[e] = IF e = active /\ active # x THEN module ELSE saved[e]
    BY <1>3, NamesDistinct DEF Activate, Stored, Shape, Registry, TypeOK
  <2>2. active' = x /\ module' = Loaded(module, x)
    BY <1>3 DEF Activate
  <2>3. active \in Engines => saved[active] # NoImage
    BY NamesDistinct DEF Shape, Registry
  <2>. SUFFICES ASSUME NEW e \in Engines
                PROVE  Store(e)' = Store(e)
    OBVIOUS
  <2>4. CASE e = x
    BY <1>3, <2>1, <2>2, <2>4, NamesDistinct DEF Store, Loaded, Registry
  <2>5. CASE e # x /\ e = active
    BY <1>3, <2>1, <2>2, <2>3, <2>5, ImagesDistinct DEF Store, TypeOK
  <2>6. CASE e # x /\ e # active
    BY <1>3, <2>1, <2>2, <2>6 DEF Store
  <2>. QED  BY <2>4, <2>5, <2>6
<1>4. CASE ~UNCHANGED <<module, saved, active>>
  <2>1. CASE SwitchToOwner(c)
    <3>1. MultiInstance /\ Registered(arg[c]) /\ Activate(module, arg[c])
      BY <1>4, <2>1 DEF SwitchToOwner
    <3>2. arg[c] \in Registry
      BY <2>1, <3>1 DEF SwitchToOwner, Fits, Registered, Registry
    <3>. QED  BY <1>3, <3>1, <3>2
  <2>2. CASE SwitchToBaseline(c)
    BY <1>3, <1>4, <2>2 DEF SwitchToBaseline
  <2>. QED  BY <2>1, <2>2
<1>. QED  BY <1>2, <1>4

-----------------------------------------------------------------------------
\* One simulation appears, moves on or goes, and the others stay.
Appears(e) == Store(e) = Absent /\ Store(e)' = 0
MovesOn(e) == Store(e) \in 0 .. MaxTicks - 1 /\ Store(e)' = Store(e) + 1
Goes(e) == Store(e) # Absent /\ Store(e)' = Absent
Only(e) == \A x \in Engines : x # e => Store(x)' = Store(x)
AllStay == \A e \in Engines : Store(e)' = Store(e)

\* A call moves the simulation it names on.
LEMMA RunMovesOn ==
  ASSUME SwapInv, NEW c \in Callers, RunCore(c), NEW e \in Engines, e = arg[c]
  PROVE  AllStay \/ (MovesOn(e) /\ Only(e))
<1>. USE DEF managerVars, heapVars, callVars
<1>. TypeOK /\ Fits(c)
  BY DEF SwapInv, GuardInv, CallFits
<1>1. pc[c] \in Past /\ Inside(c) /\ ~Creating(c)
  BY DEF RunCore, Past, Inside, Working, Fits, Creating
<1>2. CASE UNCHANGED module
  BY <1>2 DEF RunCore, AllStay, Store
<1>3. CASE ~UNCHANGED module
  <2>1. /\ module.ticks < MaxTicks
        /\ module' = [module EXCEPT !.ticks = @ + 1]
        /\ UNCHANGED <<active, saved>>
    BY <1>3 DEF RunCore
  <2>2. /\ module'.engine = module.engine /\ module'.core = module.core
        /\ module'.ticks = module.ticks + 1
    BY <2>1 DEF TypeOK, Image
  <2>3. /\ MultiInstance => active = e /\ saved[e] # NoImage
        /\ module.engine = e /\ module.core = e
        /\ Store(e) = module.ticks /\ module.ticks \in 0 .. MaxTicks
    BY <1>1, LoadedStore
  <2>4. Store(e)' = module.ticks + 1
    BY <2>1, <2>2, <2>3 DEF Store
  <2>5. Only(e)
    BY <2>1, <2>2, <2>3 DEF Store, Only
  <2>6. Store(e) \in 0 .. MaxTicks - 1
    BY <2>1, <2>3, TicksAssumption
  <2>. QED  BY <2>3, <2>4, <2>5, <2>6 DEF MovesOn
<1>. QED  BY <1>2, <1>3

\* A destruction removes the simulation it names.
LEMMA TeardownGoes ==
  ASSUME SwapInv, NEW c \in Callers, Teardown(c), NEW e \in Engines, e = arg[c]
  PROVE  Goes(e) /\ Only(e)
<1>. TypeOK /\ Fits(c) /\ Shape
  BY DEF SwapInv, GuardInv, CallFits
<1>1. pc[c] \in Past /\ Inside(c) /\ ~Creating(c)
  BY DEF Teardown, Past, Inside, Working, Creating
<1>2. /\ MultiInstance => active = e /\ saved[e] # NoImage
      /\ module.engine = e /\ module.core = e /\ Store(e) # Absent
  BY <1>1, LoadedStore
<1>3. CASE MultiInstance
  <2>1. active' = NoEngine /\ saved' = [saved EXCEPT ![e] = NoImage]
    BY <1>2, <1>3 DEF Teardown, ActiveAfter
  <2>. QED  BY <1>2, <1>3, <2>1, NamesDistinct
            DEF Goes, Only, Store, TypeOK
<1>4. CASE ~MultiInstance
  <2>1. module'.engine = NoEngine
    BY <1>4 DEF Teardown, Terminated, TypeOK, Image
  <2>. QED  BY <1>2, <1>4, <2>1, NamesDistinct DEF Goes, Only, Store
<1>. QED  BY <1>3, <1>4

\* An engine without a core has no simulation.
LEMMA AllocateStays ==
  ASSUME SwapInv, NEW c \in Callers, AllocateEngine(c)
  PROVE  AllStay
<1>. TypeOK /\ Fits(c) /\ Shape
  BY DEF SwapInv, GuardInv, CallFits
<1>1. pc[c] = "alloc" /\ Inside(c) /\ ~Creating(c)
  BY DEF AllocateEngine, Inside, Working, Creating, Past
<1>2. module.engine = NoEngine /\ module.core = NoEngine
      /\ (MultiInstance => active = NoEngine)
  BY <1>1 DEF SwapInv, Phases, Stage, Settled
<1>3. UNCHANGED <<saved, active>>
  BY DEF AllocateEngine
<1>4. CASE MultiInstance
  BY <1>2, <1>3, <1>4, NamesDistinct DEF AllStay, Store
<1>5. CASE ~MultiInstance
  <2>1. [module EXCEPT !.engine = NoEngine].core = NoEngine
    BY <1>2 DEF TypeOK, Image
  <2>2. \A e : [module EXCEPT !.engine = e, !.hooks = TRUE].core = NoEngine
    BY <1>2 DEF TypeOK, Image
  <2>3. module'.core = NoEngine
    BY <1>2, <1>5, <2>1, <2>2 DEF AllocateEngine
  <2>. QED  BY <1>2, <1>5, <2>3, NamesDistinct DEF AllStay, Store
<1>. QED  BY <1>4, <1>5

\* An abandoned creation leaves no simulation.
LEMMA AbandonGoes ==
  ASSUME SwapInv, NEW c \in Callers, Inside(c), Creating(c), NEW r,
         AbandonCreate(c, r), NEW e \in Engines, e = arg[c]
  PROVE  AllStay \/ (Goes(e) /\ Only(e))
<1>. TypeOK /\ Shape
  BY DEF SwapInv, GuardInv
<1>1. Embryo(c) /\ module.engine = e
  BY EmbryoStore
<1>2. CASE MultiInstance
  <2>1. active = NoEngine /\ UNCHANGED <<saved, active>>
    BY <1>1, <1>2 DEF AbandonCreate, Activate, Stored, Embryo
  <2>. QED  BY <1>2, <2>1, NamesDistinct DEF AllStay, Store
<1>3. CASE ~MultiInstance
  <2>1. module'.engine = NoEngine
    BY <1>3 DEF AbandonCreate, Terminated, TypeOK, Image
  <2>2. Store(e)' = Absent /\ Only(e)
    BY <1>1, <1>3, <2>1, NamesDistinct DEF Only, Store
  <2>. QED  BY <2>2 DEF AllStay, Only, Goes
<1>. QED  BY <1>2, <1>3

\* In a static archive the simulation appears with its core.
LEMMA InitCoreAppears ==
  ASSUME SwapInv, NEW c \in Callers, InitCore(c), NEW e \in Engines, e = arg[c]
  PROVE  AllStay \/ ((Appears(e) \/ Goes(e)) /\ Only(e))
<1>. USE DEF managerVars, heapVars, callVars
<1>. TypeOK /\ Shape
  BY DEF SwapInv, GuardInv
<1>1. Creating(c) /\ Inside(c) /\ pc[c] # "capture"
  BY DEF InitCore, Creating, Past, Inside, Working
<1>2. CASE \E r : AbandonCreate(c, r)
  BY <1>1, <1>2, AbandonGoes
<1>3. CASE ~\E r : AbandonCreate(c, r)
  <2>1. module' = Booted(e) /\ UNCHANGED <<saved, active>>
    BY <1>3 DEF InitCore
  <2>2. /\ Embryo(c) /\ module.engine = e
        /\ ~MultiInstance => Store(e) = Absent
    BY <1>1, EmbryoStore
  <2>3. CASE MultiInstance
    BY <2>1, <2>2, <2>3, NamesDistinct DEF AllStay, Store, Embryo
  <2>4. CASE ~MultiInstance
    <3>1. module'.engine = e /\ module'.core = e /\ module'.ticks = 0
      BY <2>1, <2>2 DEF Booted, TypeOK, Image
    <3>. QED  BY <2>2, <2>4, <3>1 DEF Appears, Only, Store
  <2>. QED  BY <2>3, <2>4
<1>. QED  BY <1>2, <1>3

\* In a shared build it appears with its image.
LEMMA CaptureAppears ==
  ASSUME SwapInv, NEW c \in Callers, CaptureImage(c),
         NEW e \in Engines, e = arg[c]
  PROVE  /\ AllStay \/ ((Appears(e) \/ Goes(e)) /\ Only(e))
         /\ returned' = "OK" => Store(e)' = 0
<1>. USE DEF managerVars, heapVars, callVars
<1>. TypeOK /\ Shape /\ Fits(c)
  BY DEF SwapInv, GuardInv, CallFits
<1>1. Creating(c) /\ Inside(c) /\ pc[c] = "capture"
  BY DEF CaptureImage, Fits, Creating, Past, Inside, Working
<1>2. CASE \E r \in {"OUT_OF_MEMORY", "NOT_AVAILABLE"} : AbandonCreate(c, r)
  <2>1. returned' # "OK"
    BY <1>2 DEF AbandonCreate, Unguard, Return
  <2>. QED  BY <1>1, <1>2, <2>1, AbandonGoes
<1>3. CASE ~\E r \in {"OUT_OF_MEMORY", "NOT_AVAILABLE"} : AbandonCreate(c, r)
  <2>1. /\ IF MultiInstance
           THEN /\ saved' = [saved EXCEPT ![e] = module]
                /\ active' = e
           ELSE UNCHANGED <<saved, active>>
        /\ UNCHANGED module
    BY <1>3 DEF CaptureImage
  <2>2. /\ Embryo(c) /\ module.engine = e /\ module.core = e
        /\ module.ticks = 0 /\ active = NoEngine
        /\ MultiInstance => Store(e) = Absent
        /\ ~MultiInstance => Store(e) = 0
    BY <1>1, EmbryoStore DEF Embryo
  <2>3. CASE MultiInstance
    <3>1. module # NoImage
      BY ImagesDistinct DEF TypeOK
    <3>2. Store(e)' = 0
      BY <2>1, <2>2, <2>3, <3>1 DEF Store, TypeOK
    <3>3. Only(e)
      BY <2>1, <2>2, <2>3, NamesDistinct DEF Only, Store, TypeOK
    <3>. QED  BY <2>2, <2>3, <3>2, <3>3 DEF Appears
  <2>4. CASE ~MultiInstance
    <3>1. AllStay
      BY <2>1, <2>4 DEF AllStay, Store
    <3>. QED  BY <2>2, <2>4, <3>1 DEF AllStay
  <2>. QED  BY <2>3, <2>4
<1>. QED  BY <1>2, <1>3

\* Every step is a step of one private simulation, or none.
LEMMA StoresStep ==
  ASSUME SwapInv, NEW c \in Callers, Step(c)
  PROVE  AllStay \/ \E e \in Engines :
                      (Appears(e) \/ MovesOn(e) \/ Goes(e)) /\ Only(e)
<1>. USE DEF managerVars, heapVars, callVars
<1>1. CASE SwitchToOwner(c) \/ SwitchToBaseline(c)
  BY <1>1, SwitchKeepsStores DEF AllStay
<1>2. CASE AllocateEngine(c)
  BY <1>2, AllocateStays
<1>3. CASE RunCore(c) \/ Teardown(c) \/ InitCore(c) \/ CaptureImage(c)
  <2>1. pc[c] \in Past
    BY <1>3 DEF RunCore, Teardown, InitCore, CaptureImage, Past
  <2>2. PICK e \in Engines : e = arg[c]
    BY <2>1 DEF SwapInv, GuardInv, CallHasEngine, Past
  <2>. QED  BY <1>3, <2>2, RunMovesOn, TeardownGoes, InitCoreAppears,
               CaptureAppears
<1>4. CASE PublishManager(c)
  BY <1>4, PublishChangesNothing DEF World, AllStay, Store
<1>5. CASE \/ \E o \in Ops, e \in Handles : Begin(c, o, e)
           \/ TakeGuard(c) \/ PrepareBaseline(c) \/ ReportLimits(c)
           \/ CheckHandle(c) \/ FinishUse(c) \/ RaiseHook(c) \/ ReturnHook(c)
  <2>1. UNCHANGED <<module, saved, active>>
    BY <1>5 DEF Begin, TakeGuard, PrepareBaseline, ReportLimits, CheckHandle,
                FinishUse, RaiseHook, ReturnHook
  <2>. QED  BY <2>1 DEF AllStay, Store
<1>. QED  BY <1>1, <1>2, <1>3, <1>4, <1>5 DEF Step, Proceed

\* Every step maps to a step of IsolatedEngines or to none.
LEMMA StoresSimulate ==
  ASSUME SwapInv, [Next]_vars
  PROVE  [Isolated!Next]_Stores
<1>1. CASE AllStay
  BY <1>1 DEF AllStay, Stores
<1>2. ASSUME NEW e \in Engines, Only(e)
      PROVE  /\ Appears(e) => Isolated!Create(e)
             /\ MovesOn(e) => Isolated!Use(e)
             /\ Goes(e) => Isolated!Destroy(e)
  BY <1>2 DEF Only, Appears, MovesOn, Goes, Isolated!Create, Isolated!Use,
     Isolated!Destroy
<1>3. CASE UNCHANGED vars
  BY <1>1, <1>3 DEF vars, managerVars, AllStay, Store
<1>4. CASE Next
  <2>1. PICK c \in Callers : Step(c)
    BY <1>4 DEF Next, Step
  <2>2. ASSUME NEW e \in Engines, Appears(e) \/ MovesOn(e) \/ Goes(e), Only(e)
        PROVE  Isolated!Next
    BY <1>2, <2>2 DEF Isolated!Next
  <2>. QED  BY <1>1, <2>1, <2>2, StoresStep
<1>. QED  BY <1>3, <1>4

\* Refinement: one set of globals that is swapped behaves as one private
\* simulation per handle.
THEOREM SwapRefinesIsolation == Spec => EnginesAreIsolated
<1>1. Init => Isolated!Init
  BY NamesDistinct DEF Init, Isolated!Init, Store, Pristine
<1>2. SwapInv /\ [Next]_vars => [Isolated!Next]_Stores
  BY StoresSimulate
<1>. QED  BY <1>1, <1>2, SwapInductive, PTL
          DEF Spec, EnginesAreIsolated, Isolated!Spec, Stores

\* A call reports success only when the handle had a simulation behind it.
THEOREM SuccessIsTruthful == Spec => OkIsTruthful
<1>. DEFINE Truthful == \A c \in Callers, e \in Engines :
       (Inside(c) /\ ~Inside(c)' /\ returned' = "OK" /\ arg[c] = e) =>
         CASE op[c] = "use"     -> Store(e) # Absent
           [] op[c] = "destroy" -> Store(e) # Absent /\ Store(e)' = Absent
           [] op[c] = "create"  -> Store(e)' = 0
<1>1. SwapInv /\ [Next]_vars => [Truthful]_vars
  <2>. SUFFICES ASSUME SwapInv, Next, NEW c \in Callers, NEW e \in Engines,
                       Inside(c), ~Inside(c)', returned' = "OK", arg[c] = e
                PROVE  CASE op[c] = "use"     -> Store(e) # Absent
                         [] op[c] = "destroy" -> Store(e) # Absent /\ Store(e)' = Absent
                         [] op[c] = "create"  -> Store(e)' = 0
    OBVIOUS
  <2>. TypeOK /\ Fits(c) /\ GuardInv
    BY DEF SwapInv, GuardInv, CallFits
  <2>1. Step(c)
    <3>1. PICK d \in Callers : Step(d)
      BY DEF Next, Step
    <3>. QED  BY <3>1, StepCrosses DEF Step, Crosses
  <2>2. FinishUse(c) \/ Teardown(c) \/ CaptureImage(c)
    <3>1. /\ ~\E o \in Ops, x \in Handles : Begin(c, o, x)
          /\ ~PublishManager(c) /\ ~TakeGuard(c)
      BY DEF Inside, Working, Begin, PublishManager, TakeGuard
    <3>2. ~ReportLimits(c)
      BY NamesDistinct DEF ReportLimits, Fits
    <3>3. /\ ~PrepareBaseline(c) /\ ~RaiseHook(c) /\ ~ReturnHook(c)
      BY DEF PrepareBaseline, RaiseHook, ReturnHook, GoTo
    <3>4. /\ ~SwitchToOwner(c) /\ ~CheckHandle(c) /\ ~SwitchToBaseline(c)
          /\ ~RunCore(c) /\ ~AllocateEngine(c)
      BY DEF SwitchToOwner, CheckHandle, SwitchToBaseline, RunCore,
         AllocateEngine, Unguard, ReleaseWithoutOwner, Return, GoTo
    <3>5. ~InitCore(c)
      BY DEF InitCore, AbandonCreate, Unguard, Return, GoTo
    <3>. QED  BY <2>1, <3>1, <3>2, <3>3, <3>4, <3>5 DEF Step, Proceed
  <2>3. CASE FinishUse(c)
    <3>1. op[c] = "use" /\ pc[c] \in Past /\ ~Creating(c)
      BY <2>3 DEF FinishUse, Past, Creating
    <3>. QED  BY <3>1, LoadedStore
  <2>4. CASE Teardown(c)
    <3>1. op[c] = "destroy"
      BY <2>4 DEF Teardown
    <3>. QED  BY <2>4, <3>1, TeardownGoes DEF Goes
  <2>5. CASE CaptureImage(c)
    <3>1. op[c] = "create"
      BY <2>5 DEF CaptureImage, Fits
    <3>. QED  BY <2>5, <3>1, CaptureAppears
  <2>. QED  BY <2>2, <2>3, <2>4, <2>5
<1>. QED  BY <1>1, SwapInductive, PTL DEF Spec, OkIsTruthful
=============================================================================
