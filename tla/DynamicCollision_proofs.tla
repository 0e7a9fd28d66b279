------------------------ MODULE DynamicCollision_proofs ------------------------
(***************************************************************************)
(* Proof that handles, objects and bg actors stay in step, that enabled    *)
(* objects collide where the host has put them, that Link is carried the   *)
(* whole way, and that the objects fit the triangle list of the game, for  *)
(* any sizes of the tables, poses and sizes of objects.                    *)
(***************************************************************************)
EXTENDS DynamicCollision, FiniteSetTheorems, FunctionTheorems,
        WellFoundedInduction, TLAPS

\* The rows of the tables.
Entry == [active : BOOLEAN, token : 0 .. MaxToken,
          native : Slots \X (0 .. MaxGeneration)]
Object == [active : BOOLEAN, generation : 0 .. MaxGeneration, bgId : BgIds \cup {0},
           enabled : BOOLEAN, pose : Poses \cup {NoPose}, size : Sizes \cup {0},
           carries : BOOLEAN]
BgActor == [object : Slots \cup {0}, prev : Poses \cup {NoPose},
            cur : Poses \cup {NoPose}, disabled : BOOLEAN,
            laid : Poses \cup {NoPose}]

\* The history has its type.
HistoryOK ==
  history \in [who : [Slots -> 0 .. MaxToken], seen : [Slots -> Poses \cup {NoPose}],
               moved : SUBSET Slots, twice : SUBSET Slots, standing : 0 .. MaxToken]

\* The slot a handle names, and the bg actor of an object.
Target(e) == table[e].native[1]
Bg(s) == bgActors[objects[s].bgId]

\* Handles and objects are paired off: a handle names a live object of the
\* generation it was made in, no two the same one, and none is without a handle.
HandlesReach ==
  /\ \A e \in Entries :
       /\ Target(e) \in Live
       /\ table[e].native[2] = objects[Target(e)].generation
       /\ table[e].token = history.who[Target(e)]
  /\ \A e, f \in Entries : Target(e) = Target(f) => e = f
  /\ \A s \in Live : \E e \in Entries : Target(e) = s

\* Live objects are told apart by tokens that have been given out.
TokensTell ==
  /\ \A s \in Live : history.who[s] \in 1 .. nextToken
  /\ \A s, t \in Live : history.who[s] = history.who[t] => s = t

\* Objects and bg actors in use are paired off, and agree.
Registered ==
  /\ \A s \in Live :
       /\ objects[s].bgId \in BgIds
       /\ Bg(s).object = s
       /\ (Bg(s).disabled <=> ~objects[s].enabled)
       /\ Bg(s).cur = objects[s].pose
  /\ \A b \in BgIds : bgActors[b].object # 0 =>
       /\ bgActors[b].object \in Live
       /\ objects[bgActors[b].object].bgId = b

\* The previous pose is that of the last tick, so that an object that has not moved
\* since is where it was; enabled ones that moved at most once are laid out.
PosesKept ==
  \A s \in Live :
    /\ Bg(s).prev = history.seen[s]
    /\ s \notin history.moved => Bg(s).prev = objects[s].pose
    /\ s \notin history.twice /\ objects[s].enabled => Bg(s).laid = objects[s].pose

\* While Link stands on an object his floor is the bg actor of that very object.
StandsOn ==
  history.standing # 0 =>
    /\ floor \in BgIds /\ bgActors[floor].object # 0
    /\ history.who[bgActors[floor].object] = history.standing

\* The inductive invariant.
PlatformInv ==
  /\ TypeOK /\ HistoryOK /\ HandlesReach /\ TokensTell
  /\ Registered /\ PosesKept /\ StandsOn

-----------------------------------------------------------------------------
\* What a slot adds to the total.
SizeIn(objs, n) == IF objs[n].active THEN objs[n].size ELSE 0

\* f adds the slots up to n.
Adds(f, objs, n) ==
  /\ f = [i \in 0 .. n |-> IF i = 0 THEN 0 ELSE f[i - 1] + SizeIn(objs, i)]

\* A set of natural numbers that is not empty has a least element.
LEMMA LeastExists ==
  ASSUME NEW S, S \subseteq Nat, S # {}
  PROVE  Min(S) \in S /\ \A y \in S : Min(S) <= y
<1> DEFINE R == OpToRel(<, Nat)
<1>1. IsWellFoundedOn(R, Nat)
  BY NatLessThanWellFounded
<1>2. \A x, y \in Nat : <<y, x>> \in R <=> y < x
  BY DEF OpToRel
<1> HIDE DEF R
<1>3. PICK x \in S : \A y \in S : ~(<<y, x>> \in R)
  BY <1>1, WFMin
<1>4. \A y \in S : x <= y
  <2> SUFFICES ASSUME NEW y \in S PROVE x <= y
    OBVIOUS
  <2>1. ~(y < x)
    BY <1>2, <1>3
  <2> QED BY <2>1
<1> QED BY <1>4 DEF Min

\* The sum up to a slot can be written down: by the least slot for which it could
\* not.
LEMMA AddsExists ==
  ASSUME NEW objs, \A i \in Slots : SizeIn(objs, i) \in Nat, NEW n \in 0 .. MaxObjects
  PROVE  \E f : Adds(f, objs, n)
<1> DEFINE Bad == {k \in 0 .. MaxObjects : ~\E f : Adds(f, objs, k)}
<1> SUFFICES ASSUME Bad # {} PROVE FALSE
  OBVIOUS
<1> DEFINE m == Min(Bad)
<1>0. Bad \subseteq Nat
  BY BoundsAssumption
<1>1. m \in Bad /\ \A k \in Bad : m <= k
  BY <1>0, LeastExists
<1>2. m # 0
  <2> SUFFICES ASSUME m = 0 PROVE FALSE
    OBVIOUS
  <2> DEFINE f == [i \in 0 .. 0 |-> 0]
  <2>1. Adds(f, objs, 0)
    BY DEF Adds
  <2>. QED  BY <2>1, <1>1
<1> HIDE DEF m
<1>3. /\ m \in Nat /\ m - 1 \in 0 .. m /\ m - 1 \in Nat
      /\ m - 1 \in 0 .. MaxObjects /\ m - 1 \notin Bad
  <2>1. m \in Nat /\ m # 0 /\ m <= MaxObjects /\ MaxObjects \in Nat
    BY <1>1, <1>2, BoundsAssumption
  <2>2. m - 1 \in Nat /\ m - 1 \in 0 .. m /\ m - 1 \in 0 .. MaxObjects
    BY <2>1
  <2>3. ~(m <= m - 1)
    BY <2>1
  <2> HIDE DEF Bad
  <2>4. m - 1 \notin Bad
    BY <2>3, <1>1
  <2>. QED  BY <2>1, <2>2, <2>4
<1>4. PICK f : Adds(f, objs, m - 1)
  BY <1>3
<1> DEFINE g == [i \in 0 .. m |-> IF i = 0 THEN 0 ELSE f[i - 1] + SizeIn(objs, i)]
<1>5. \A i \in 0 .. m - 1 : g[i] = f[i]
  <2> SUFFICES ASSUME NEW i \in 0 .. m - 1 PROVE g[i] = f[i]
    OBVIOUS
  <2>1. i \in 0 .. m
    BY <1>3
  <2>. QED  BY <2>1, <1>4 DEF Adds
<1>6. \A i \in 0 .. m : i # 0 => g[i - 1] = f[i - 1]
  BY <1>3, <1>5
<1>7. Adds(g, objs, m)
  BY <1>6 DEF Adds
<1>. QED  BY <1>7, <1>1

\* dynamic_totals adds the slots one after the other.
LEMMA SurfacesAdd ==
  ASSUME NEW objs, \A i \in Slots : SizeIn(objs, i) \in Nat
  PROVE  \E f : Adds(f, objs, MaxObjects) /\ Surfaces(objs) = f[MaxObjects]
<1>1. MaxObjects \in 0 .. MaxObjects
  BY BoundsAssumption
<1>2. \E f : Adds(f, objs, MaxObjects)
  BY <1>1, AddsExists
<1>. QED BY <1>2, Zenon DEF Surfaces, Adds, SizeIn

\* Two sums over slots of which all but one are the same differ by what one slot adds.
LEMMA OneSlotChanges ==
  ASSUME NEW objs, \A i \in Slots : SizeIn(objs, i) \in Nat,
         NEW new, \A i \in Slots : SizeIn(new, i) \in Nat,
         NEW s \in Slots, \A i \in Slots \ {s} : SizeIn(new, i) = SizeIn(objs, i)
  PROVE  /\ Surfaces(objs) \in Nat /\ Surfaces(new) \in Nat
         /\ Surfaces(new) = Surfaces(objs) - SizeIn(objs, s) + SizeIn(new, s)
<1>1. PICK f : Adds(f, objs, MaxObjects) /\ Surfaces(objs) = f[MaxObjects]
  BY SurfacesAdd
<1>2. PICK g : Adds(g, new, MaxObjects) /\ Surfaces(new) = g[MaxObjects]
  BY SurfacesAdd
<1> DEFINE d == SizeIn(new, s) - SizeIn(objs, s)
           Good(k) == /\ f[k] \in Nat /\ g[k] \in Nat
                      /\ g[k] = f[k] + (IF k < s THEN 0 ELSE d)
           Bad == {k \in 0 .. MaxObjects : ~Good(k)}
<1>3. Bad = {}
  <2> SUFFICES ASSUME Bad # {} PROVE FALSE
    OBVIOUS
  <2> DEFINE m == Min(Bad)
  <2>1. m \in Bad /\ \A k \in Bad : m <= k
    BY LeastExists, BoundsAssumption
  <2>2. f[0] = 0 /\ g[0] = 0
    BY <1>1, <1>2, BoundsAssumption DEF Adds
  <2>3. Good(0)
    BY <2>2, BoundsAssumption DEF Slots
  <2> HIDE DEF m
  <2>4. /\ m \in Slots /\ m - 1 \in 0 .. MaxObjects
        /\ ~(m <= m - 1) /\ m \in 0 .. MaxObjects
    BY <2>1, <2>3, BoundsAssumption DEF Slots
  <2>5. m - 1 \notin Bad
    BY <2>1, <2>4
  <2>6. Good(m - 1)
    BY <2>4, <2>5
  <2>7. f[m] = f[m - 1] + SizeIn(objs, m) /\ g[m] = g[m - 1] + SizeIn(new, m)
    <3>1. m \in 0 .. MaxObjects /\ m # 0
      BY <2>4, BoundsAssumption DEF Slots
    <3>. QED  BY <1>1, <1>2, <3>1 DEF Adds
  <2>8. /\ SizeIn(objs, m) \in Nat /\ SizeIn(new, m) \in Nat
        /\ SizeIn(objs, s) \in Nat /\ SizeIn(new, s) \in Nat
        /\ m # s => SizeIn(new, m) = SizeIn(objs, m)
        /\ m \in Nat /\ s \in Nat
    BY <2>4, BoundsAssumption DEF Slots
  <2>9. Good(m)
    <3>1. CASE m < s
      BY <3>1, <2>6, <2>7, <2>8
    <3>2. CASE m = s
      BY <3>2, <2>6, <2>7, <2>8
    <3>3. CASE s < m
      BY <3>3, <2>6, <2>7, <2>8
    <3>. QED  BY <2>8, <3>1, <3>2, <3>3
  <2>. QED  BY <2>1, <2>9
<1>4. MaxObjects \in 0 .. MaxObjects /\ ~(MaxObjects < s)
  BY BoundsAssumption DEF Slots
<1>5. Good(MaxObjects)
  BY <1>3, <1>4
<1>6. SizeIn(objs, s) \in Nat /\ SizeIn(new, s) \in Nat
  OBVIOUS
<1>. QED  BY <1>1, <1>2, <1>4, <1>5, <1>6

\* What a slot adds to the total is a natural number.
LEMMA SizesAreNatural ==
  ASSUME NEW objs \in [Slots -> Object]
  PROVE  \A i \in Slots : SizeIn(objs, i) \in Nat
<1>1. \A i \in Slots : objs[i] \in Object
  OBVIOUS
<1>2. \A o \in Object : o.size \in Sizes \cup {0}
  BY DEF Object
<1>3. Sizes \cup {0} \subseteq Nat
  BY BoundsAssumption
<1>. QED  BY <1>1, <1>2, <1>3 DEF SizeIn

\* The tables as intervals of natural numbers.
LEMMA Ranges ==
  /\ Slots \subseteq Nat /\ 0 \notin Slots /\ BgIds = Slots
  /\ IsFiniteSet(Slots) /\ Cardinality(Slots) = MaxObjects
  /\ MaxObjects \in Nat /\ MaxToken \in Nat /\ MaxSurfaces \in Nat
  /\ MaxGeneration \in Nat \ {0} /\ Sizes \subseteq Nat
  /\ \A s \in Slots : s - 1 \in Nat
<1>1. /\ MaxObjects \in Nat /\ MaxToken \in Nat /\ MaxSurfaces \in Nat
      /\ MaxGeneration \in Nat \ {0} /\ Sizes \subseteq Nat
      /\ MaxObjects \in Int /\ 1 \in Int /\ ~(1 > MaxObjects)
  BY BoundsAssumption
<1>2. /\ Slots \subseteq Nat /\ 0 \notin Slots /\ BgIds = Slots
      /\ \A s \in Slots : s - 1 \in Nat
  BY <1>1 DEF Slots, BgIds
<1>3. /\ IsFiniteSet(1 .. MaxObjects)
      /\ Cardinality(1 .. MaxObjects) = MaxObjects - 1 + 1
  BY <1>1, FS_Interval
<1>. QED  BY <1>1, <1>2, <1>3 DEF Slots

\* A part of the table of slots can be counted.
LEMMA FinitePart ==
  ASSUME NEW S, S \subseteq Slots
  PROVE  IsFiniteSet(S) /\ Cardinality(S) \in Nat /\ Cardinality(S) <= MaxObjects
         /\ (Cardinality(S) = MaxObjects => S = Slots)
BY Ranges, FS_Subset, FS_CardinalityType

\* The rows of the tables.
LEMMA Types ==
  ASSUME TypeOK
  PROVE  /\ table \in [Slots -> Entry] /\ objects \in [Slots -> Object]
         /\ bgActors \in [BgIds -> BgActor]
BY DEF TypeOK, Entry, Object, BgActor

\* Handles, objects and bg actors in use are as many as each other: every handle has
\* an object of its own, and every object a bg actor.
LEMMA CountsAgree ==
  ASSUME TypeOK, HandlesReach, Registered
  PROVE  /\ Cardinality(Live) = Cardinality(Entries)
         /\ Cardinality(FreeBgIds) + Cardinality(Live) = MaxObjects
<1>1. /\ Entries \subseteq Slots /\ Live \subseteq Slots /\ FreeBgIds \subseteq Slots
      /\ BgIds \ FreeBgIds \subseteq Slots
  BY Ranges DEF Entries, Live, FreeBgIds
<1>2. /\ IsFiniteSet(Entries) /\ IsFiniteSet(Live) /\ IsFiniteSet(FreeBgIds)
      /\ Cardinality(FreeBgIds) \in Nat
  BY <1>1, FinitePart
<1>3. ExistsBijection(Entries, Live)
  <2> DEFINE f == [e \in Entries |-> Target(e)]
  <2>1. f \in [Entries -> Live] /\ \A a, b \in Entries : f[a] = f[b] => a = b
    BY DEF HandlesReach
  <2>2. \A s \in Live : \E e \in Entries : f[e] = s
    BY DEF HandlesReach
  <2>3. f \in Bijection(Entries, Live)
    BY <2>1, <2>2, Fun_IsBij
  <2>. QED  BY <2>3 DEF ExistsBijection
<1>4. Cardinality(Live) = Cardinality(Entries)
  BY <1>2, <1>3, FS_Bijection
<1>5. ExistsBijection(Live, BgIds \ FreeBgIds)
  <2> DEFINE f == [s \in Live |-> objects[s].bgId]
  <2>0. \A s \in Live : Bg(s).object = s /\ s # 0 /\ objects[s].bgId \in BgIds
    BY <1>1, Ranges DEF Registered
  <2>1. f \in [Live -> BgIds \ FreeBgIds] /\ \A a, b \in Live : f[a] = f[b] => a = b
    BY <2>0 DEF FreeBgIds, Bg
  <2>2. \A b \in BgIds \ FreeBgIds : \E s \in Live : f[s] = b
    BY DEF Registered, FreeBgIds
  <2>3. f \in Bijection(Live, BgIds \ FreeBgIds)
    BY <2>1, <2>2, Fun_IsBij
  <2>. QED  BY <2>3 DEF ExistsBijection
<1>6. Cardinality(Live) = Cardinality(BgIds \ FreeBgIds)
  BY <1>2, <1>5, FS_Bijection
<1>7. Cardinality(BgIds \ FreeBgIds) = MaxObjects - Cardinality(FreeBgIds)
  <2>1. Slots \cap FreeBgIds = FreeBgIds
    BY <1>1
  <2>. QED  BY <2>1, Ranges, FS_Difference
<1>. QED  BY <1>2, <1>4, <1>6, <1>7, Ranges

\* The bg actor b is laid out again.
LaysOut(bgs, objs, invalid, b) ==
  ~bgs[b].disabled /\ (invalid \/ bgs[b].prev # objs[bgs[b].object].pose)

\* The bg actors new are those of bgs, brought up to date with their objects.
Follows(new, bgs, objs, invalid) ==
  \A b \in BgIds :
    /\ new[b].object = bgs[b].object
    /\ bgs[b].object # 0 =>
         /\ new[b].prev = bgs[b].prev
         /\ new[b].cur = objs[bgs[b].object].pose
         /\ new[b].disabled = bgs[b].disabled
         /\ new[b].laid = IF LaysOut(bgs, objs, invalid, b)
                          THEN objs[bgs[b].object].pose ELSE bgs[b].laid

\* What DynaPoly_UpdateContext does to one bg actor.
LEMMA Refreshing ==
  ASSUME NEW bgs \in [BgIds -> BgActor], NEW objs \in [Slots -> Object],
         NEW invalid \in BOOLEAN
  PROVE  /\ UpdateContext(bgs, objs, invalid) \in [BgIds -> BgActor]
         /\ Follows(UpdateContext(bgs, objs, invalid), bgs, objs, invalid)
<1> DEFINE new == UpdateContext(bgs, objs, invalid)
<1>1. NoBgActor \in BgActor /\ NoBgActor.object = 0
  BY DEF NoBgActor, BgActor
<1>2. SUFFICES ASSUME NEW b \in BgIds
      PROVE  /\ new[b] \in BgActor /\ new[b].object = bgs[b].object
             /\ bgs[b].object # 0 =>
                /\ new[b].prev = bgs[b].prev
                /\ new[b].cur = objs[bgs[b].object].pose
                /\ new[b].disabled = bgs[b].disabled
                /\ new[b].laid =
                     IF LaysOut(bgs, objs, invalid, b)
                     THEN objs[bgs[b].object].pose ELSE bgs[b].laid
  BY DEF UpdateContext, Follows
<1>3. new[b] = Refreshed(b, bgs, objs, invalid)
  BY DEF UpdateContext
<1>4. CASE bgs[b].object = 0
  BY <1>1, <1>3, <1>4 DEF Refreshed
<1>5. CASE bgs[b].object # 0
  <2>1. bgs[b] \in BgActor /\ bgs[b].object \in Slots /\ objs[bgs[b].object] \in Object
    BY <1>5 DEF BgActor
  <2>2. objs[bgs[b].object].pose \in Poses \cup {NoPose}
    BY <2>1 DEF Object
  <2>. QED  BY <1>3, <1>5, <2>1, <2>2 DEF Refreshed, BgActor, LaysOut
<1>. QED  BY <1>4, <1>5

\* Without an object there are no surfaces.
LEMMA NothingAdds ==
  ASSUME NEW objs, \A i \in Slots : SizeIn(objs, i) = 0
  PROVE  Surfaces(objs) = 0
<1>1. PICK f : Adds(f, objs, MaxObjects) /\ Surfaces(objs) = f[MaxObjects]
  BY SurfacesAdd
<1> DEFINE Bad == {k \in 0 .. MaxObjects : f[k] # 0}
<1>2. Bad = {}
  <2> SUFFICES ASSUME Bad # {} PROVE FALSE
    OBVIOUS
  <2> DEFINE m == Min(Bad)
  <2>1. m \in Bad /\ \A k \in Bad : m <= k
    BY LeastExists, BoundsAssumption
  <2>2. f[0] = 0
    BY <1>1, BoundsAssumption DEF Adds
  <2> HIDE DEF m
  <2>3. m \in Slots /\ m - 1 \in 0 .. MaxObjects /\ ~(m <= m - 1)
    BY <2>1, <2>2, BoundsAssumption DEF Slots
  <2>4. f[m - 1] = 0
    BY <2>1, <2>3
  <2>5. f[m] = f[m - 1] + SizeIn(objs, m)
    BY <1>1, <2>3, BoundsAssumption DEF Adds, Slots
  <2>. QED  BY <2>1, <2>3, <2>4, <2>5
<1>. QED  BY <1>1, <1>2, BoundsAssumption

\* The engine starts without objects.
LEMMA InitHolds ==
  ASSUME Init
  PROVE  PlatformInv
<1>1. NoObject(0) \in Object /\ NoEntry \in Entry /\ NoBgActor \in BgActor
  BY Ranges, BoundsAssumption
     DEF NoObject, Object, NoEntry, Entry, NoBgActor, BgActor, Slots
<1>2. /\ table \in [Slots -> Entry] /\ objects \in [Slots -> Object]
      /\ bgActors \in [BgIds -> BgActor]
  BY <1>1 DEF Init
<1>3. \A s \in Slots : ~objects[s].active /\ ~table[s].active /\ bgActors[s].object = 0
  BY Ranges DEF Init, NoObject, NoEntry, NoBgActor
<1>4. Surfaces(objects) = 0
  BY <1>3, NothingAdds DEF SizeIn
<1>5. TypeOK
  <2>1. 0 <= MaxSurfaces /\ nextToken \in 0 .. MaxToken
    BY Ranges DEF Init
  <2>2. worldLoaded \in BOOLEAN /\ floor \in BgIds \cup {Ground, NoLink}
    BY DEF Init
  <2>. QED  BY <1>2, <1>4, <2>1, <2>2 DEF TypeOK, Entry, Object, BgActor
<1>6. HistoryOK /\ StandsOn
  BY Ranges DEF Init, HistoryOK, StandsOn
<1>7. Live = {} /\ Entries = {}
  BY <1>3 DEF Live, Entries
<1>8. HandlesReach /\ TokensTell /\ Registered /\ PosesKept
  BY <1>3, <1>7, Ranges DEF HandlesReach, TokensTell, Registered, PosesKept
<1>. QED  BY <1>5, <1>6, <1>8 DEF PlatformInv

-----------------------------------------------------------------------------
\* What the calls that leave the objects alone have in common.
LEMMA ObjectsStay ==
  ASSUME PlatformInv, UNCHANGED <<table, objects, bgActors>>,
         worldLoaded' \in BOOLEAN,
         nextToken' \in 0 .. MaxToken, nextToken' >= nextToken,
         floor' \in BgIds \cup {Ground, NoLink}, HistoryOK', StandsOn',
         history'.who = history.who, history'.seen = history.seen,
         history'.moved = history.moved, history'.twice = history.twice
  PROVE  PlatformInv'
<1>. TypeOK /\ HandlesReach /\ TokensTell /\ Registered /\ PosesKept
  BY DEF PlatformInv
<1>1. TypeOK'
  BY DEF TypeOK, Live, Surfaces
<1>2. HandlesReach' /\ Registered' /\ PosesKept'
  BY DEF HandlesReach, Registered, PosesKept, Live, Entries, Bg, Target
<1>3. TokensTell'
  <2>1. nextToken \in Nat /\ nextToken' \in Nat
    BY Ranges DEF TypeOK
  <2>. QED  BY <2>1 DEF TokensTell, Live
<1>. QED  BY <1>1, <1>2, <1>3 DEF PlatformInv

\* The calls that move no object: tokens, Link's pose, and Link himself.
LEMMA SmallSteps ==
  ASSUME PlatformInv,
         TakeToken \/ SetPose \/ CreateLink \/ DeleteLink \/ UNCHANGED vars
  PROVE  PlatformInv'
<1>. TypeOK /\ HistoryOK /\ StandsOn
  BY DEF PlatformInv
<1>1. /\ UNCHANGED <<table, objects, bgActors>>
      /\ worldLoaded' \in BOOLEAN
      /\ floor' \in BgIds \cup {Ground, NoLink}
  BY DEF TypeOK, TakeToken, SetPose, CreateLink, DeleteLink, vars
<1>2. nextToken' \in 0 .. MaxToken /\ nextToken' >= nextToken
  BY Ranges DEF TypeOK, TakeToken, SetPose, CreateLink, DeleteLink, vars
<1>3. history' = history \/ history' = [history EXCEPT !.standing = 0]
  BY DEF TakeToken, SetPose, CreateLink, DeleteLink, vars
<1>4. /\ HistoryOK'
      /\ history'.who = history.who /\ history'.seen = history.seen
      /\ history'.moved = history.moved /\ history'.twice = history.twice
  BY <1>3, Ranges DEF HistoryOK
<1>5. \/ history'.standing = 0
      \/ history' = history /\ floor' = floor
      \/ history' = history /\ floor = NoLink
  BY DEF TakeToken, SetPose, CreateLink, DeleteLink, vars, HistoryOK
<1>6. StandsOn'
  <2>1. NoLink \notin BgIds
    BY Ranges DEF NoLink
  <2>. QED  BY <1>1, <1>5, <2>1 DEF StandsOn
<1>. QED  BY <1>1, <1>2, <1>4, <1>6, ObjectsStay

\* A tick, in which the previous poses catch up with the current ones.
LEMMA TickStep ==
  ASSUME PlatformInv, FrozenTick \/ \E f \in BgIds \cup {Ground} : Tick(f)
  PROVE  PlatformInv'
<1>. /\ TypeOK /\ HistoryOK /\ HandlesReach /\ TokensTell
     /\ Registered /\ PosesKept /\ StandsOn
  BY DEF PlatformInv
<1>1. PICK standing :
        /\ bgActors' = UpdateBgActorTransforms(bgActors)
        /\ history' = [history EXCEPT !.seen = [s \in Slots |-> objects[s].pose],
                                      !.moved = {}, !.standing = standing]
        /\ \/ standing = history.standing /\ floor' = floor
           \/ standing = 0 /\ floor' = Ground
           \/ /\ floor' \in BgIds /\ bgActors[floor'].object # 0
              /\ standing = history.who[bgActors[floor'].object]
  BY DEF FrozenTick, Tick, TickEnds
<1>2. UNCHANGED <<worldLoaded, table, objects, nextToken>>
  BY DEF FrozenTick, Tick
<1>3. /\ objects \in [Slots -> Object] /\ bgActors \in [BgIds -> BgActor]
      /\ \A s \in Slots : objects[s].pose \in Poses \cup {NoPose}
  BY Types DEF Object
<1>4. /\ bgActors' \in [BgIds -> BgActor]
      /\ \A b \in BgIds : /\ bgActors'[b].object = bgActors[b].object
                          /\ bgActors'[b].prev = bgActors[b].cur
                          /\ bgActors'[b].cur = bgActors[b].cur
                          /\ bgActors'[b].disabled = bgActors[b].disabled
                          /\ bgActors'[b].laid = bgActors[b].laid
  BY <1>1, <1>3 DEF UpdateBgActorTransforms, BgActor
<1>5. standing \in 0 .. MaxToken /\ floor' \in BgIds \cup {Ground, NoLink}
  <2>1. \A b \in BgIds : bgActors[b].object # 0 => bgActors[b].object \in Slots
    BY <1>3 DEF BgActor
  <2>. QED  BY <1>1, <2>1, Ranges DEF HistoryOK, TypeOK
<1>6. TypeOK'
  BY <1>2, <1>4, <1>5 DEF TypeOK, BgActor, Surfaces
<1>7. /\ HistoryOK' /\ history'.who = history.who /\ history'.moved = {}
      /\ history'.twice = history.twice /\ history'.standing = standing
      /\ \A s \in Slots : history'.seen[s] = objects[s].pose
  BY <1>1, <1>3, <1>5 DEF HistoryOK
<1>8. HandlesReach' /\ TokensTell'
  BY <1>2, <1>7 DEF HandlesReach, TokensTell, Live, Entries, Target
<1>9. Registered'
  BY <1>2, <1>4 DEF Registered, Live, Bg
<1>10. PosesKept'
  BY <1>2, <1>4, <1>7 DEF PosesKept, Registered, Live, Bg
<1>11. StandsOn'
  BY <1>1, <1>4, <1>7, Ranges DEF StandsOn, Ground
<1>. QED  BY <1>6, <1>7, <1>8, <1>9, <1>10, <1>11 DEF PlatformInv

\* The object that a handle reaches.
LEMMA FoundIsTarget ==
  ASSUME HandlesReach, NEW e \in Entries, NEW s \in Found(e)
  PROVE  s = Target(e) /\ s \in Live
BY DEF Found, HandlesReach, Target

\* An object is moved: the lookup is not invalidated, and only a pose that differs
\* from the previous one is laid out.
LEMMA SetTransformStep ==
  ASSUME PlatformInv, NEW e \in Slots, NEW p \in Poses, SetTransform(e, p)
  PROVE  PlatformInv'
<1>. /\ TypeOK /\ HistoryOK /\ HandlesReach /\ TokensTell
     /\ Registered /\ PosesKept /\ StandsOn
  BY DEF PlatformInv
<1> DEFINE objs(s) == [objects EXCEPT ![s].pose = p]
<1>1. PICK s \in Found(e) :
        /\ objects' = objs(s)
        /\ bgActors' = Moved(objs(s))
        /\ history' = [history EXCEPT !.moved = @ \cup {s},
                                      !.twice = @ \cup (history.moved \cap {s})]
  BY DEF SetTransform
<1>2. UNCHANGED <<worldLoaded, table, nextToken, floor>>
  BY DEF SetTransform
<1>3. s \in Live /\ s \in Slots
  BY DEF Found, Live
<1>4. objects \in [Slots -> Object] /\ bgActors \in [BgIds -> BgActor]
  BY Types
<1>5. /\ objects' \in [Slots -> Object]
      /\ objects'[s].pose = p
      /\ \A t \in Slots :
           /\ t # s => objects'[t] = objects[t]
           /\ objects'[t].active = objects[t].active
           /\ objects'[t].generation = objects[t].generation
           /\ objects'[t].bgId = objects[t].bgId
           /\ objects'[t].enabled = objects[t].enabled
           /\ objects'[t].size = objects[t].size
  BY <1>1, <1>3, <1>4 DEF Object
<1>6. FALSE \in BOOLEAN
  OBVIOUS
<1>7. /\ bgActors' \in [BgIds -> BgActor]
      /\ \A b \in BgIds : bgActors'[b].object = bgActors[b].object
      /\ \A b \in BgIds : bgActors[b].object # 0 =>
           /\ bgActors'[b].prev = bgActors[b].prev
           /\ bgActors'[b].cur = objects'[bgActors[b].object].pose
           /\ bgActors'[b].disabled = bgActors[b].disabled
           /\ bgActors'[b].laid =
                IF LaysOut(bgActors, objects', FALSE, b)
                THEN objects'[bgActors[b].object].pose ELSE bgActors[b].laid
  <2>1. bgActors' = UpdateContext(bgActors, objects', FALSE)
    BY <1>1 DEF Moved
  <2>2. objects' \in [Slots -> Object]
    BY <1>5
  <2>3. bgActors' \in [BgIds -> BgActor] /\ Follows(bgActors', bgActors, objects', FALSE)
    BY <1>4, <1>6, <2>1, <2>2, Refreshing
  <2>. QED  BY <2>3 DEF Follows
<1>8. Live' = Live /\ Entries' = Entries
  BY <1>2, <1>5 DEF Live, Entries
<1>9. Surfaces(objects') = Surfaces(objects)
  <2>1. \A i \in Slots : SizeIn(objects', i) = SizeIn(objects, i)
    BY <1>5 DEF SizeIn
  <2>2. \A i \in Slots : SizeIn(objects, i) \in Nat
    BY <1>4, SizesAreNatural
  <2>. QED  BY <1>3, <2>1, <2>2, OneSlotChanges
<1>10. TypeOK'
  BY <1>2, <1>5, <1>7, <1>9 DEF TypeOK, Object, BgActor
<1>11. /\ HistoryOK' /\ history'.who = history.who /\ history'.seen = history.seen
       /\ history'.standing = history.standing
       /\ history'.moved = history.moved \cup {s}
       /\ history'.twice = history.twice \cup (history.moved \cap {s})
  BY <1>1, <1>3 DEF HistoryOK
<1>12. HandlesReach' /\ TokensTell'
  <2>1. \A f \in Entries : Target(f) \in Slots /\ Target(f)' = Target(f)
    BY <1>2 DEF HandlesReach, Live, Target
  <2>. QED  BY <1>2, <1>5, <1>8, <1>11, <2>1 DEF HandlesReach, TokensTell, Live
<1>13. \A t \in Live : /\ t \in Slots /\ t # 0 /\ Bg(t)' = bgActors'[objects[t].bgId]
                       /\ objects[t].bgId \in BgIds /\ Bg(t).object = t
  BY <1>5, Ranges DEF Registered, Live, Bg
<1>14. Registered'
  <2>1. \A t \in Live : /\ Bg(t)'.object = t
                        /\ (Bg(t)'.disabled <=> ~objects'[t].enabled)
                        /\ Bg(t)'.cur = objects'[t].pose
    <3> SUFFICES ASSUME NEW t \in Live
                 PROVE  /\ Bg(t)'.object = t /\ Bg(t)'.cur = objects'[t].pose
                        /\ (Bg(t)'.disabled <=> ~objects'[t].enabled)
      OBVIOUS
    <3>0. /\ objects[t].bgId \in BgIds /\ Bg(t)' = bgActors'[objects[t].bgId]
          /\ bgActors[objects[t].bgId].object = t /\ t # 0
      BY <1>13 DEF Bg
    <3>1. /\ Bg(t)'.object = t /\ Bg(t)'.cur = objects'[t].pose
          /\ Bg(t)'.disabled = bgActors[objects[t].bgId].disabled
      BY <1>7, <3>0
    <3>2. objects'[t].enabled = objects[t].enabled
      BY <1>5, <1>13
    <3>3. Bg(t).disabled <=> ~objects[t].enabled
      BY DEF Registered
    <3>. QED  BY <3>1, <3>2, <3>3 DEF Bg
  <2>2. \A b \in BgIds : bgActors'[b].object # 0 =>
           bgActors'[b].object \in Live /\ objects'[bgActors'[b].object].bgId = b
    BY <1>5, <1>7 DEF Registered, Live
  <2>. QED  BY <1>5, <1>8, <1>13, <2>1, <2>2 DEF Registered
<1>15. PosesKept'
  <2> SUFFICES ASSUME NEW t \in Live
               PROVE  /\ Bg(t)'.prev = history'.seen[t]
                      /\ t \notin history'.moved => Bg(t)'.prev = objects'[t].pose
                      /\ t \notin history'.twice /\ objects'[t].enabled =>
                           Bg(t)'.laid = objects'[t].pose
    BY <1>8 DEF PosesKept
  <2>0. /\ objects[t].bgId \in BgIds /\ Bg(t)' = bgActors'[objects[t].bgId]
        /\ bgActors[objects[t].bgId].object = t /\ t # 0
    BY <1>13 DEF Bg
  <2>1. Bg(t)'.prev = Bg(t).prev
    BY <1>7, <2>0 DEF Bg
  <2>2. CASE t # s
    BY <2>1, <2>2, <1>5, <1>7, <1>11, <1>13 DEF PosesKept, Registered, Bg, LaysOut
  <2>3. CASE t = s
    BY <2>1, <2>3, <1>5, <1>7, <1>11, <1>13 DEF PosesKept, Registered, Bg, LaysOut
  <2>. QED  BY <2>2, <2>3
<1>16. StandsOn'
  BY <1>2, <1>7, <1>11 DEF StandsOn
<1>. QED  BY <1>10, <1>11, <1>12, <1>14, <1>15, <1>16 DEF PlatformInv

\* An object is switched: every enabled one is laid out again.
LEMMA SetEnabledStep ==
  ASSUME PlatformInv, NEW e \in Slots, NEW on \in BOOLEAN, SetEnabled(e, on)
  PROVE  PlatformInv'
<1>. /\ TypeOK /\ HistoryOK /\ HandlesReach /\ TokensTell
     /\ Registered /\ PosesKept /\ StandsOn
  BY DEF PlatformInv
<1> DEFINE objs(s) == [objects EXCEPT ![s].enabled = on]
<1>0. PICK off \in BOOLEAN : off = ~on
  OBVIOUS
<1> DEFINE switched(s) == [bgActors EXCEPT ![objects[s].bgId].disabled = off]
<1>1. PICK s \in Found(e) :
        objects' = objs(s) /\ bgActors' = UpdateContext(switched(s), objs(s), TRUE)
  BY <1>0 DEF SetEnabled, InvalidatesLookup
<1>2. UNCHANGED <<worldLoaded, table, nextToken, floor, history>>
  BY DEF SetEnabled
<1>3. /\ s \in Live /\ s \in Slots /\ objects[s].bgId \in BgIds
      /\ bgActors[objects[s].bgId].object = s
  BY DEF Found, Live, Registered, Bg
<1>4. objects \in [Slots -> Object] /\ bgActors \in [BgIds -> BgActor]
  BY Types
<1>5. /\ objects' \in [Slots -> Object]
      /\ objects'[s].enabled = on
      /\ \A t \in Slots :
           /\ t # s => objects'[t] = objects[t]
           /\ objects'[t].active = objects[t].active
           /\ objects'[t].generation = objects[t].generation
           /\ objects'[t].bgId = objects[t].bgId
           /\ objects'[t].pose = objects[t].pose
           /\ objects'[t].size = objects[t].size
  BY <1>1, <1>3, <1>4 DEF Object
<1>6. /\ switched(s) \in [BgIds -> BgActor]
      /\ switched(s)[objects[s].bgId].disabled = off
      /\ \A b \in BgIds : /\ switched(s)[b].object = bgActors[b].object
                          /\ switched(s)[b].prev = bgActors[b].prev
                          /\ b # objects[s].bgId =>
                               switched(s)[b].disabled = bgActors[b].disabled
  BY <1>3, <1>4 DEF BgActor
<1> HIDE DEF switched
<1>7. /\ bgActors' \in [BgIds -> BgActor]
      /\ \A b \in BgIds : bgActors'[b].object = bgActors[b].object
      /\ \A b \in BgIds : bgActors[b].object # 0 =>
           /\ bgActors'[b].prev = bgActors[b].prev
           /\ bgActors'[b].cur = objects'[bgActors[b].object].pose
           /\ bgActors'[b].disabled = switched(s)[b].disabled
           /\ ~switched(s)[b].disabled =>
                bgActors'[b].laid = objects'[bgActors[b].object].pose
  <2>1. TRUE \in BOOLEAN
    OBVIOUS
  <2>2. bgActors' = UpdateContext(switched(s), objects', TRUE)
    BY <1>1
  <2>3. \A b \in BgIds : ~switched(s)[b].disabled =>
          LaysOut(switched(s), objects', TRUE, b)
    BY DEF LaysOut
  <2>0. switched(s) \in [BgIds -> BgActor] /\ objects' \in [Slots -> Object]
    BY <1>5, <1>6
  <2>4. /\ bgActors' \in [BgIds -> BgActor]
        /\ Follows(bgActors', switched(s), objects', TRUE)
    BY <2>0, <2>1, <2>2, Refreshing
  <2>5. \A b \in BgIds : /\ switched(s)[b].object = bgActors[b].object
                         /\ switched(s)[b].prev = bgActors[b].prev
    BY <1>6
  <2>. QED  BY <2>3, <2>4, <2>5 DEF Follows
<1>8. Live' = Live /\ Entries' = Entries
  BY <1>2, <1>5 DEF Live, Entries
<1>9. Surfaces(objects') = Surfaces(objects)
  <2>1. \A i \in Slots : SizeIn(objects', i) = SizeIn(objects, i)
    BY <1>5 DEF SizeIn
  <2>2. \A i \in Slots : SizeIn(objects, i) \in Nat
    BY <1>4, SizesAreNatural
  <2>. QED  BY <1>3, <2>1, <2>2, OneSlotChanges
<1>10. TypeOK'
  BY <1>2, <1>5, <1>7, <1>9 DEF TypeOK, Object, BgActor
<1>11. HistoryOK'
  BY <1>2 DEF HistoryOK
<1>12. HandlesReach' /\ TokensTell'
  <2>1. \A f \in Entries : Target(f) \in Slots /\ Target(f)' = Target(f)
    BY <1>2 DEF HandlesReach, Live, Target
  <2>. QED  BY <1>2, <1>5, <1>8, <2>1 DEF HandlesReach, TokensTell, Live
<1>13. \A t \in Live : /\ t \in Slots /\ t # 0 /\ Bg(t)' = bgActors'[objects[t].bgId]
                       /\ objects[t].bgId \in BgIds /\ Bg(t).object = t
                       /\ t # s => objects[t].bgId # objects[s].bgId
  BY <1>3, <1>5, Ranges DEF Registered, Live, Bg
<1>14. \A t \in Live : /\ Bg(t)'.object = t
                       /\ (Bg(t)'.disabled <=> ~objects'[t].enabled)
                       /\ Bg(t)'.cur = objects'[t].pose
  <2> SUFFICES ASSUME NEW t \in Live
               PROVE  /\ Bg(t)'.object = t /\ Bg(t)'.cur = objects'[t].pose
                      /\ (Bg(t)'.disabled <=> ~objects'[t].enabled)
    OBVIOUS
  <2>1. /\ Bg(t)'.object = t /\ Bg(t)'.cur = objects'[t].pose
        /\ Bg(t)'.disabled = switched(s)[objects[t].bgId].disabled
    BY <1>7, <1>13 DEF Bg
  <2>2. CASE t = s
    <3>1. Bg(t)'.disabled = off /\ objects'[t].enabled = on
      BY <2>1, <2>2, <1>5, <1>6
    <3>. QED  BY <1>0, <2>1, <3>1
  <2>3. CASE t # s
    <3>1. Bg(t)'.disabled = Bg(t).disabled /\ objects'[t].enabled = objects[t].enabled
      BY <2>1, <2>3, <1>5, <1>6, <1>13 DEF Bg
    <3>2. Bg(t).disabled <=> ~objects[t].enabled
      BY DEF Registered
    <3>. QED  BY <2>1, <3>1, <3>2
  <2>. QED  BY <2>2, <2>3
<1>15. Registered'
  <2>2. \A b \in BgIds : bgActors'[b].object # 0 =>
           bgActors'[b].object \in Live /\ objects'[bgActors'[b].object].bgId = b
    BY <1>5, <1>7 DEF Registered, Live
  <2>. QED  BY <1>5, <1>8, <1>13, <1>14, <2>2 DEF Registered
<1>16. PosesKept'
  <2> SUFFICES ASSUME NEW t \in Live
               PROVE  /\ Bg(t)'.prev = history.seen[t]
                      /\ t \notin history.moved => Bg(t)'.prev = objects'[t].pose
                      /\ t \notin history.twice /\ objects'[t].enabled =>
                           Bg(t)'.laid = objects'[t].pose
    BY <1>2, <1>8 DEF PosesKept
  <2>0. /\ objects[t].bgId \in BgIds /\ Bg(t)' = bgActors'[objects[t].bgId]
        /\ bgActors[objects[t].bgId].object = t /\ t # 0
    BY <1>13 DEF Bg
  <2>1. Bg(t)'.prev = Bg(t).prev
    BY <1>7, <2>0 DEF Bg
  <2>2. objects'[t].enabled => ~switched(s)[objects[t].bgId].disabled
    BY <1>7, <1>13, <1>14
  <2>. QED  BY <2>1, <2>2, <1>5, <1>7, <1>13 DEF PosesKept, Bg
<1>17. StandsOn'
  BY <1>2, <1>7 DEF StandsOn
<1>. QED  BY <1>10, <1>11, <1>12, <1>15, <1>16, <1>17 DEF PlatformInv

\* Generations stay in their range.
LEMMA GenerationsStay ==
  ASSUME TypeOK, NEW s \in Slots
  PROVE  /\ objects[s].generation \in 0 .. MaxGeneration
         /\ FirstGeneration(s) \in 0 .. MaxGeneration
         /\ \A generation \in 0 .. MaxGeneration :
              NextGeneration(generation) \in 0 .. MaxGeneration
<1>1. objects[s].generation \in 0 .. MaxGeneration
  BY Types DEF Object
<1>. QED  BY <1>1, Ranges DEF FirstGeneration, NextGeneration

\* A slot that is freed holds no object and adds nothing to the total.
LEMMA FreedSlot ==
  ASSUME TypeOK, NEW s \in Slots, NEW generation \in 0 .. MaxGeneration,
         objects' = Freed(s, generation)
  PROVE  /\ objects' \in [Slots -> Object]
         /\ Live' = Live \ {s}
         /\ \A t \in Slots \ {s} : objects'[t] = objects[t]
         /\ Surfaces(objects') <= MaxSurfaces
<1>. objects \in [Slots -> Object]
  BY Types
<1>1. NextGeneration(generation) \in 0 .. MaxGeneration
  BY GenerationsStay
<1>2. /\ NoObject(NextGeneration(generation)) \in Object
      /\ ~NoObject(NextGeneration(generation)).active
  BY <1>1 DEF NoObject, Object
<1>3. /\ objects' \in [Slots -> Object] /\ ~objects'[s].active
      /\ \A t \in Slots \ {s} : objects'[t] = objects[t]
  BY <1>2 DEF Freed
<1>4. Live' = Live \ {s}
  BY <1>3 DEF Live
<1>5. /\ \A i \in Slots : SizeIn(objects, i) \in Nat
      /\ \A i \in Slots : SizeIn(objects', i) \in Nat
      /\ SizeIn(objects', s) = 0
      /\ \A i \in Slots \ {s} : SizeIn(objects', i) = SizeIn(objects, i)
  <2>1. \A i \in Slots : SizeIn(objects', i) \in Nat
    BY <1>3, SizesAreNatural
  <2>. QED  BY <1>3, <2>1, SizesAreNatural DEF SizeIn
<1>6. /\ Surfaces(objects) \in Nat /\ Surfaces(objects') \in Nat
      /\ Surfaces(objects') =
           Surfaces(objects) - SizeIn(objects, s) + SizeIn(objects', s)
  BY <1>5, OneSlotChanges
<1>7. Surfaces(objects') <= Surfaces(objects)
  BY <1>5, <1>6
<1>. QED  BY <1>3, <1>4, <1>6, <1>7, Ranges DEF TypeOK

\* A refusal only moves the generation of a slot that holds no object.
LEMMA RefusalStep ==
  ASSUME PlatformInv, NEW s \in Slots \ Live, NEW generation \in 0 .. MaxGeneration,
         objects' = Freed(s, generation),
         bgActors' = bgActors \/ bgActors' = UpdateContext(bgActors, objects, TRUE),
         UNCHANGED <<worldLoaded, table, nextToken, floor, history>>
  PROVE  PlatformInv'
<1>. /\ TypeOK /\ HistoryOK /\ HandlesReach /\ TokensTell
     /\ Registered /\ PosesKept /\ StandsOn
  BY DEF PlatformInv
<1>. objects \in [Slots -> Object] /\ bgActors \in [BgIds -> BgActor]
  BY Types
<1>1. /\ objects' \in [Slots -> Object] /\ Live' = Live /\ Entries' = Entries
      /\ \A t \in Live : t \in Slots /\ objects'[t] = objects[t]
      /\ Surfaces(objects') <= MaxSurfaces
  BY FreedSlot DEF Live, Entries
<1>2. /\ bgActors' \in [BgIds -> BgActor]
      /\ \A b \in BgIds : bgActors'[b].object = bgActors[b].object
      /\ \A b \in BgIds : bgActors[b].object # 0 =>
           /\ bgActors'[b].prev = bgActors[b].prev
           /\ bgActors'[b].cur = objects[bgActors[b].object].pose
           /\ bgActors'[b].disabled = bgActors[b].disabled
           /\ \/ bgActors'[b].laid = bgActors[b].laid
              \/ bgActors'[b].laid = objects[bgActors[b].object].pose
  <2>1. CASE bgActors' = bgActors
    BY <2>1 DEF Registered, Bg
  <2>2. CASE bgActors' = UpdateContext(bgActors, objects, TRUE)
    <3>1. TRUE \in BOOLEAN
      OBVIOUS
    <3>2. bgActors' \in [BgIds -> BgActor] /\ Follows(bgActors', bgActors, objects, TRUE)
      BY <2>2, <3>1, Refreshing
    <3>. QED  BY <3>2 DEF Follows
  <2>. QED  BY <2>1, <2>2
<1>3. TypeOK'
  BY <1>1, <1>2 DEF TypeOK, Object, BgActor
<1>4. HistoryOK' /\ StandsOn'
  BY <1>2 DEF HistoryOK, StandsOn
<1>5. HandlesReach' /\ TokensTell'
  BY <1>1 DEF HandlesReach, TokensTell, Target
<1>6. \A t \in Live : /\ objects[t].bgId \in BgIds /\ Bg(t).object = t /\ t # 0
                      /\ Bg(t)' = bgActors'[objects[t].bgId]
                      /\ Bg(t) = bgActors[objects[t].bgId]
  BY <1>1, Ranges DEF Registered, Bg
<1>7. \A t \in Live : /\ Bg(t)'.object = t /\ Bg(t)'.cur = objects'[t].pose
                      /\ Bg(t)'.prev = Bg(t).prev
                      /\ Bg(t)'.disabled = Bg(t).disabled
                      /\ Bg(t)'.laid = Bg(t).laid \/ Bg(t)'.laid = objects[t].pose
  BY <1>1, <1>2, <1>6
<1>8. Registered'
  <2>1. \A b \in BgIds : bgActors'[b].object # 0 =>
           bgActors'[b].object \in Live /\ objects'[bgActors'[b].object].bgId = b
    BY <1>1, <1>2 DEF Registered
  <2>2. \A t \in Live : Bg(t)'.disabled <=> ~objects'[t].enabled
    BY <1>1, <1>7 DEF Registered
  <2>. QED  BY <1>1, <1>6, <1>7, <2>1, <2>2 DEF Registered
<1>9. PosesKept'
  BY <1>1, <1>7 DEF PosesKept
<1>. QED  BY <1>3, <1>4, <1>5, <1>8, <1>9 DEF PlatformInv

\* An object is deleted, and with it what stands on it is forgotten.
LEMMA DeleteStep ==
  ASSUME PlatformInv, NEW e \in Slots, Delete(e)
  PROVE  PlatformInv'
<1>. /\ TypeOK /\ HistoryOK /\ HandlesReach /\ TokensTell
     /\ Registered /\ PosesKept /\ StandsOn
  BY DEF PlatformInv
<1>. objects \in [Slots -> Object] /\ bgActors \in [BgIds -> BgActor]
     /\ table \in [Slots -> Entry]
  BY Types
<1> DEFINE cleared(s) == [bgActors EXCEPT ![objects[s].bgId] = NoBgActor]
<1>1. PICK s \in Found(e) :
        /\ objects' = Freed(s, objects[s].generation)
        /\ bgActors' = UpdateContext(cleared(s), objects, TRUE)
        /\ history' = Forgets(s)
  BY DEF Delete
<1>2. /\ table' = [table EXCEPT ![e].active = FALSE, ![e].native = <<1, 0>>]
      /\ UNCHANGED <<worldLoaded, nextToken, floor>> /\ e \in Entries
  BY DEF Delete
<1>3. /\ s = Target(e) /\ s \in Live /\ s \in Slots
      /\ objects[s].bgId \in BgIds /\ bgActors[objects[s].bgId].object = s
  BY <1>2, FoundIsTarget DEF Live, Registered, Bg
<1>4. /\ objects' \in [Slots -> Object] /\ Live' = Live \ {s}
      /\ \A t \in Live' : t \in Slots /\ objects'[t] = objects[t]
      /\ Surfaces(objects') <= MaxSurfaces
  <2>1. objects[s].generation \in 0 .. MaxGeneration
    BY <1>3, GenerationsStay
  <2>. QED  BY <1>1, <1>3, <2>1, FreedSlot DEF Live
<1>5. NoBgActor \in BgActor /\ NoBgActor.object = 0
  BY DEF NoBgActor, BgActor
<1>6. /\ cleared(s) \in [BgIds -> BgActor]
      /\ cleared(s)[objects[s].bgId].object = 0
      /\ \A b \in BgIds \ {objects[s].bgId} : cleared(s)[b] = bgActors[b]
  BY <1>3, <1>5
<1> HIDE DEF cleared
<1>7. /\ bgActors' \in [BgIds -> BgActor]
      /\ \A b \in BgIds : bgActors'[b].object = cleared(s)[b].object
      /\ \A b \in BgIds : cleared(s)[b].object # 0 =>
           /\ bgActors'[b].prev = cleared(s)[b].prev
           /\ bgActors'[b].cur = objects[cleared(s)[b].object].pose
           /\ bgActors'[b].disabled = cleared(s)[b].disabled
           /\ \/ bgActors'[b].laid = cleared(s)[b].laid
              \/ bgActors'[b].laid = objects[cleared(s)[b].object].pose
  <2>0. cleared(s) \in [BgIds -> BgActor] /\ TRUE \in BOOLEAN
    BY <1>6
  <2>1. bgActors' \in [BgIds -> BgActor] /\ Follows(bgActors', cleared(s), objects, TRUE)
    BY <1>1, <2>0, Refreshing
  <2>. QED  BY <2>1 DEF Follows
<1>8. /\ bgActors'[objects[s].bgId].object = 0
      /\ \A b \in BgIds \ {objects[s].bgId} :
           bgActors'[b].object = bgActors[b].object
      /\ \A b \in BgIds \ {objects[s].bgId} : bgActors[b].object # 0 =>
           /\ bgActors'[b].prev = bgActors[b].prev
           /\ bgActors'[b].cur = objects[bgActors[b].object].pose
           /\ bgActors'[b].disabled = bgActors[b].disabled
           /\ \/ bgActors'[b].laid = bgActors[b].laid
              \/ bgActors'[b].laid = objects[bgActors[b].object].pose
  BY <1>3, <1>6, <1>7
<1>9. /\ table' \in [Slots -> Entry] /\ Entries' = Entries \ {e}
      /\ \A f \in Slots \ {e} : table'[f] = table[f]
  <2>1. FALSE \in BOOLEAN /\ <<1, 0>> \in Slots \X (0 .. MaxGeneration)
    BY Ranges DEF Slots
  <2>. QED  BY <1>2, <2>1 DEF Entry, Entries
<1>10. TypeOK'
  BY <1>2, <1>4, <1>7, <1>9 DEF TypeOK, Object, BgActor, Entry
<1>11. /\ HistoryOK' /\ \A t \in Slots \ {s} : history'.who[t] = history.who[t]
       /\ \A t \in Slots \ {s} : history'.seen[t] = history.seen[t]
       /\ history'.moved = history.moved \ {s}
       /\ history'.twice = history.twice \ {s}
       /\ history'.standing = IF history.standing = history.who[s] THEN 0
                              ELSE history.standing
  <2>1. 0 \in 0 .. MaxToken
    BY Ranges
  <2>. QED  BY <1>1, <1>3, <2>1 DEF Forgets, HistoryOK
<1>12. HandlesReach'
  <2>1. \A f \in Entries' :
          Target(f)' = Target(f) /\ f \in Entries /\ Target(f) \in Live'
    BY <1>2, <1>3, <1>4, <1>9 DEF HandlesReach, Target, Entries
  <2>2. \A t \in Live' : \E f \in Entries' : Target(f) = t
    BY <1>3, <1>4, <1>9 DEF HandlesReach
  <2>3. \A f \in Entries' : table'[f] = table[f]
    BY <1>9 DEF Entries
  <2>. QED  BY <1>4, <1>11, <2>1, <2>2, <2>3 DEF HandlesReach, Live
<1>13. TokensTell'
  BY <1>2, <1>4, <1>11 DEF TokensTell, Live
<1>14. \A t \in Live' :
         /\ t \in Live /\ t # s /\ t # 0 /\ Bg(t)' = bgActors'[objects[t].bgId]
         /\ Bg(t) = bgActors[objects[t].bgId] /\ Bg(t).object = t
         /\ objects[t].bgId \in BgIds \ {objects[s].bgId}
  <2>1. \A t \in Live : t \in Slots /\ t # 0
    BY Ranges DEF Live
  <2>. QED  BY <1>3, <1>4, <2>1 DEF Registered, Bg
<1>15. \A t \in Live' : /\ Bg(t)'.object = t /\ Bg(t)'.cur = objects'[t].pose
                        /\ Bg(t)'.prev = Bg(t).prev
                        /\ Bg(t)'.disabled = Bg(t).disabled
                        /\ Bg(t)'.laid = Bg(t).laid \/ Bg(t)'.laid = objects[t].pose
  BY <1>4, <1>8, <1>14
<1>16. Registered'
  <2>1. \A b \in BgIds : bgActors'[b].object # 0 =>
           bgActors'[b].object \in Live' /\ objects'[bgActors'[b].object].bgId = b
    BY <1>3, <1>4, <1>8 DEF Registered
  <2>2. \A t \in Live' : Bg(t)'.disabled <=> ~objects'[t].enabled
    BY <1>4, <1>14, <1>15 DEF Registered
  <2>. QED  BY <1>4, <1>14, <1>15, <2>1, <2>2 DEF Registered
<1>17. PosesKept'
  BY <1>4, <1>11, <1>14, <1>15 DEF PosesKept
<1>18. StandsOn'
  <2> SUFFICES ASSUME history'.standing # 0
               PROVE  /\ floor \in BgIds /\ bgActors'[floor].object # 0
                      /\ history'.who[bgActors'[floor].object] = history'.standing
    BY <1>2 DEF StandsOn
  <2>1. /\ history.standing # 0 /\ history'.standing = history.standing
        /\ history.standing # history.who[s]
    BY <1>11
  <2>2. /\ floor \in BgIds /\ bgActors[floor].object # 0
        /\ history.who[bgActors[floor].object] = history.standing
    BY <2>1 DEF StandsOn
  <2>3. /\ floor # objects[s].bgId /\ bgActors[floor].object # s
        /\ bgActors[floor].object \in Slots
    BY <1>3, <2>1, <2>2 DEF Registered, Live
  <2>. QED  BY <1>8, <1>11, <2>1, <2>2, <2>3
<1>. QED  BY <1>10, <1>11, <1>12, <1>13, <1>16, <1>17, <1>18 DEF PlatformInv

\* An object finds a bg actor for itself.
LEMMA BgIdIsFree ==
  ASSUME TypeOK, HandlesReach, Registered, Live # Slots
  PROVE  Min(FreeBgIds) \in FreeBgIds
<1>1. Live \subseteq Slots /\ FreeBgIds \subseteq Slots
  BY Ranges DEF Live, FreeBgIds
<1>2. Cardinality(Live) # MaxObjects
  BY <1>1, FinitePart
<1>3. Cardinality(FreeBgIds) # 0
  <2>1. /\ Cardinality(FreeBgIds) \in Nat /\ Cardinality(Live) \in Nat
        /\ MaxObjects \in Nat
    BY <1>1, FinitePart, Ranges
  <2>2. Cardinality(FreeBgIds) + Cardinality(Live) = MaxObjects
    BY CountsAgree
  <2>. QED  BY <1>2, <2>1, <2>2
<1>4. FreeBgIds # {}
  BY <1>3, FS_EmptySet
<1>. QED  BY <1>1, <1>4, LeastExists, Ranges

\* A new object takes the lowest slot and the lowest bg actor that are free.
LEMMA CreateSucceedsStep ==
  ASSUME PlatformInv, NEW e \in Slots \ Entries, NEW s \in Slots \ Live,
         NEW size \in Sizes, NEW p \in Poses, NEW carries \in BOOLEAN,
         Live # Slots, CreateSucceeds(e, s, size, p, carries),
         UNCHANGED <<worldLoaded, floor>>
  PROVE  PlatformInv'
<1>. /\ TypeOK /\ HistoryOK /\ HandlesReach /\ TokensTell
     /\ Registered /\ PosesKept /\ StandsOn
  BY DEF PlatformInv
<1>. objects \in [Slots -> Object] /\ bgActors \in [BgIds -> BgActor]
     /\ table \in [Slots -> Entry]
  BY Types
<1> DEFINE b == Min(FreeBgIds)
           made == [active |-> TRUE, generation |-> FirstGeneration(s),
                    bgId |-> b, enabled |-> TRUE, pose |-> p, size |-> size,
                    carries |-> carries]
           registered == [bgActors EXCEPT ![b] = SetBgActor(s, p, TRUE)]
           updated == UpdateContext(registered, objects', TRUE)
           token == nextToken + 1
<1>1. /\ Fits(size) /\ nextToken < MaxToken
      /\ objects' = [objects EXCEPT ![s] = made]
      /\ bgActors' = [updated EXCEPT ![b].prev = p]
      /\ nextToken' = token
      /\ table' = [table EXCEPT ![e] = [active |-> TRUE, token |-> token,
                                        native |-> <<s, FirstGeneration(s)>>]]
      /\ history' = [history EXCEPT !.who[s] = token, !.seen[s] = p]
  BY DEF CreateSucceeds, Published
<1>2. b \in BgIds /\ bgActors[b].object = 0
  <2>1. b \in FreeBgIds
    BY BgIdIsFree
  <2>. QED  BY <2>1 DEF FreeBgIds
<1> HIDE DEF b
<1>3. FirstGeneration(s) \in 0 .. MaxGeneration
  BY Ranges DEF FirstGeneration, Object
<1>4. made \in Object /\ made.active /\ made.enabled
  BY <1>2, <1>3 DEF Object
<1>5. /\ objects' \in [Slots -> Object] /\ objects'[s] = made
      /\ \A t \in Slots \ {s} : objects'[t] = objects[t]
      /\ Live' = Live \cup {s}
  <2>1. /\ objects' \in [Slots -> Object] /\ objects'[s] = made
        /\ \A t \in Slots \ {s} : objects'[t] = objects[t]
    BY <1>1, <1>4
  <2>. QED  BY <1>4, <2>1 DEF Live
<1>6. /\ objects'[s].active /\ objects'[s].enabled /\ objects'[s].pose = p
      /\ objects'[s].bgId = b /\ objects'[s].size = size
      /\ objects'[s].generation = FirstGeneration(s)
  BY <1>4, <1>5
<1> HIDE DEF made
<1>7. /\ registered \in [BgIds -> BgActor] /\ registered[b].object = s
      /\ registered[b].prev = p /\ ~registered[b].disabled
      /\ \A c \in BgIds \ {b} : registered[c] = bgActors[c]
  <2>0. PICK off \in BOOLEAN : off = ~TRUE /\ ~off
    OBVIOUS
  <2>1. PICK bg : bg = SetBgActor(s, p, TRUE)
    OBVIOUS
  <2>2. bg = [object |-> s, prev |-> p, cur |-> p, disabled |-> off, laid |-> NoPose]
    BY <2>0, <2>1 DEF SetBgActor
  <2>3. bg \in BgActor /\ bg.object = s /\ bg.prev = p /\ ~bg.disabled
    BY <2>0, <2>2 DEF BgActor
  <2>4. registered = [bgActors EXCEPT ![b] = bg]
    BY <2>1
  <2> HIDE DEF registered
  <2>. QED  BY <1>2, <2>3, <2>4
<1> HIDE DEF registered
<1>8. /\ updated \in [BgIds -> BgActor]
      /\ \A c \in BgIds : updated[c].object = registered[c].object
      /\ \A c \in BgIds : registered[c].object # 0 =>
           /\ updated[c].prev = registered[c].prev
           /\ updated[c].cur = objects'[registered[c].object].pose
           /\ updated[c].disabled = registered[c].disabled
           /\ updated[c].laid =
                IF LaysOut(registered, objects', TRUE, c)
                THEN objects'[registered[c].object].pose ELSE registered[c].laid
  <2>0. /\ registered \in [BgIds -> BgActor]
        /\ objects' \in [Slots -> Object] /\ TRUE \in BOOLEAN
    BY <1>5, <1>7
  <2>1. updated \in [BgIds -> BgActor] /\ Follows(updated, registered, objects', TRUE)
    BY <2>0, Refreshing
  <2> HIDE DEF updated
  <2>. QED  BY <2>1 DEF Follows
<1> HIDE DEF updated
<1>9. /\ bgActors' \in [BgIds -> BgActor]
      /\ bgActors'[b].prev = p /\ bgActors'[b].object = updated[b].object
      /\ bgActors'[b].cur = updated[b].cur /\ bgActors'[b].laid = updated[b].laid
      /\ bgActors'[b].disabled = updated[b].disabled
      /\ \A c \in BgIds \ {b} : bgActors'[c] = updated[c]
  BY <1>1, <1>2, <1>8 DEF BgActor
<1>10. s # 0
  BY Ranges
<1>11. /\ bgActors'[b].object = s /\ bgActors'[b].cur = p
       /\ bgActors'[b].laid = p /\ ~bgActors'[b].disabled
  <2>1. LaysOut(registered, objects', TRUE, b)
    BY <1>7 DEF LaysOut
  <2>2. /\ updated[b].object = s /\ updated[b].cur = p
        /\ updated[b].disabled = registered[b].disabled
        /\ updated[b].laid = IF LaysOut(registered, objects', TRUE, b)
                             THEN p ELSE registered[b].laid
    <3>1. registered[b].object = s /\ s # 0 /\ b \in BgIds /\ objects'[s].pose = p
      BY <1>2, <1>6, <1>7, <1>10
    <3>. QED  BY <1>8, <3>1
  <2>. QED  BY <1>7, <1>9, <2>1, <2>2
<1>12. \A t \in Live : /\ t \in Slots /\ t # s /\ t # 0
                       /\ objects[t].bgId \in BgIds \ {b}
                       /\ Bg(t) = bgActors[objects[t].bgId]
                       /\ Bg(t).object = t
                       /\ Bg(t)' = bgActors'[objects[t].bgId]
  <2>1. \A t \in Live : t \in Slots /\ t # s /\ t # 0
    BY Ranges DEF Live
  <2>. QED  BY <1>2, <1>5, <2>1 DEF Registered, Bg
<1>13. \A c \in BgIds \ {b} : bgActors'[c].object = bgActors[c].object
  BY <1>7, <1>8, <1>9
<1>14. \A t \in Live : /\ Bg(t)'.object = t /\ Bg(t)'.cur = objects'[t].pose
                       /\ Bg(t)'.prev = Bg(t).prev
                       /\ Bg(t)'.disabled = Bg(t).disabled
                       /\ Bg(t)'.laid = Bg(t).laid \/ Bg(t)'.laid = objects'[t].pose
  <2> SUFFICES ASSUME NEW t \in Live
      PROVE  /\ Bg(t)'.object = t /\ Bg(t)'.cur = objects'[t].pose
             /\ Bg(t)'.prev = Bg(t).prev
             /\ Bg(t)'.disabled = Bg(t).disabled
             /\ Bg(t)'.laid = Bg(t).laid \/ Bg(t)'.laid = objects'[t].pose
    OBVIOUS
  <2> DEFINE c == objects[t].bgId
  <2>1. /\ c \in BgIds \ {b} /\ registered[c] = Bg(t) /\ Bg(t).object = t /\ t # 0
        /\ Bg(t)' = updated[c]
    BY <1>7, <1>9, <1>12
  <2> HIDE DEF c
  <2>2. /\ updated[c].object = t /\ updated[c].cur = objects'[t].pose
        /\ updated[c].prev = registered[c].prev
        /\ updated[c].disabled = registered[c].disabled
        /\ updated[c].laid = IF LaysOut(registered, objects', TRUE, c)
                             THEN objects'[t].pose ELSE registered[c].laid
    BY <1>8, <2>1
  <2>. QED  BY <2>1, <2>2
<1>15. /\ table' \in [Slots -> Entry] /\ Entries' = Entries \cup {e}
       /\ table'[e].token = token /\ table'[e].native = <<s, FirstGeneration(s)>>
       /\ \A f \in Slots \ {e} : table'[f] = table[f]
  <2>1. token \in 0 .. MaxToken /\ TRUE \in BOOLEAN
    BY <1>1, Ranges DEF TypeOK
  <2> HIDE DEF token
  <2> DEFINE entry == [active |-> TRUE, token |-> token,
                       native |-> <<s, FirstGeneration(s)>>]
  <2>2. entry \in Entry /\ entry.active /\ entry.token = token
        /\ entry.native = <<s, FirstGeneration(s)>>
    BY <1>3, <2>1 DEF Entry
  <2> HIDE DEF entry
  <2>3. table' = [table EXCEPT ![e] = entry]
    BY <1>1 DEF entry
  <2>. QED  BY <2>2, <2>3 DEF Entries
<1>16. Surfaces(objects') <= MaxSurfaces
  <2>1. /\ \A i \in Slots : SizeIn(objects, i) \in Nat
        /\ \A i \in Slots : SizeIn(objects', i) \in Nat
    BY <1>5, SizesAreNatural
  <2>2. /\ SizeIn(objects, s) = 0 /\ SizeIn(objects', s) = size
        /\ \A i \in Slots \ {s} : SizeIn(objects', i) = SizeIn(objects, i)
    BY <1>5, <1>6 DEF SizeIn, Live
  <2>3. /\ Surfaces(objects) \in Nat
        /\ Surfaces(objects') = Surfaces(objects) - 0 + size
    BY <2>1, <2>2, OneSlotChanges
  <2>. QED  BY <1>1, <2>3, Ranges DEF Fits
<1>17. token \in 1 .. MaxToken /\ nextToken \in Nat /\ nextToken' = token
  BY <1>1, Ranges DEF TypeOK
<1>18. TypeOK'
  BY <1>5, <1>9, <1>15, <1>16, <1>17 DEF TypeOK, Object, BgActor, Entry
<1>19. /\ HistoryOK' /\ history'.who[s] = token /\ history'.seen[s] = p
       /\ \A t \in Slots \ {s} : history'.who[t] = history.who[t]
       /\ \A t \in Slots \ {s} : history'.seen[t] = history.seen[t]
       /\ history'.moved = history.moved /\ history'.twice = history.twice
       /\ history'.standing = history.standing
  <2>1. token \in 0 .. MaxToken
    BY <1>17
  <2> HIDE DEF token
  <2>. QED  BY <1>1, <2>1 DEF HistoryOK
<1>20. HandlesReach'
  <2>1. /\ Target(e)' = s /\ table'[e].native[2] = FirstGeneration(s)
    BY <1>15 DEF Target
  <2>2. \A f \in Entries : /\ f # e /\ table'[f] = table[f] /\ Target(f)' = Target(f)
                           /\ Target(f) \in Live /\ Target(f) # s
    BY <1>15 DEF HandlesReach, Target, Entries
  <2>3. \A t \in Live' : \E f \in Entries' : Target(f)' = t
    BY <1>5, <1>15, <2>1, <2>2 DEF HandlesReach
  <2>4. \A f, g \in Entries' : Target(f)' = Target(g)' => f = g
    BY <1>15, <2>1, <2>2 DEF HandlesReach
  <2>5. \A f \in Entries' : /\ Target(f)' \in Live'
                            /\ table'[f].native[2] = objects'[Target(f)'].generation
                            /\ table'[f].token = history'.who[Target(f)']
    BY <1>5, <1>6, <1>12, <1>15, <1>19, <2>1, <2>2 DEF HandlesReach
  <2>. QED  BY <2>3, <2>4, <2>5 DEF HandlesReach
<1>21. TokensTell'
  BY <1>5, <1>12, <1>17, <1>19 DEF TokensTell
<1>22. Bg(s)' = bgActors'[b]
  BY <1>6 DEF Bg
<1>23. Registered'
  <2>1. \A c \in BgIds : bgActors'[c].object # 0 =>
           bgActors'[c].object \in Live' /\ objects'[bgActors'[c].object].bgId = c
    BY <1>5, <1>6, <1>11, <1>12, <1>13 DEF Registered
  <2>2. \A t \in Live : Bg(t)'.disabled <=> ~objects'[t].enabled
    BY <1>5, <1>12, <1>14 DEF Registered
  <2>3. \A t \in Live : objects'[t].bgId \in BgIds
    BY <1>5, <1>12
  <2>. QED  BY <1>2, <1>5, <1>6, <1>11, <1>14, <1>22, <2>1, <2>2, <2>3 DEF Registered
<1>24. PosesKept'
  BY <1>5, <1>6, <1>9, <1>11, <1>12, <1>14, <1>19, <1>22 DEF PosesKept
<1>25. StandsOn'
  <2>1. floor \in BgIds /\ bgActors[floor].object # 0 =>
          /\ bgActors'[floor].object = bgActors[floor].object
          /\ bgActors[floor].object \in Slots \ {s}
    BY <1>2, <1>12, <1>13 DEF Registered
  <2>. QED  BY <1>19, <2>1 DEF StandsOn
<1>. QED  BY <1>18, <1>19, <1>20, <1>21, <1>23, <1>24, <1>25 DEF PlatformInv

\* The objects that are registered up to and with s.
UpTo(s) == {t \in Live : t <= s}

\* Objects registered in the order of the slots get numbers of their own.
LEMMA NumbersDiffer ==
  ASSUME TypeOK
  PROVE  /\ \A s \in Live : BgIdOf(s) \in BgIds
         /\ \A s, t \in Live : BgIdOf(s) = BgIdOf(t) => s = t
<1>1. Live \subseteq Slots /\ Slots \subseteq Nat
  BY Ranges DEF Live
<1>2. \A s \in Live :
        /\ IsFiniteSet(UpTo(s)) /\ Cardinality(UpTo(s)) \in Nat
        /\ Cardinality(UpTo(s)) <= MaxObjects /\ s \in UpTo(s)
        /\ BgIdOf(s) = Cardinality(UpTo(s))
  <2> SUFFICES ASSUME NEW s \in Live
               PROVE  /\ IsFiniteSet(UpTo(s)) /\ Cardinality(UpTo(s)) \in Nat
                      /\ Cardinality(UpTo(s)) <= MaxObjects /\ s \in UpTo(s)
                      /\ BgIdOf(s) = Cardinality(UpTo(s))
    OBVIOUS
  <2>0. s \in Nat /\ s <= s
    BY <1>1
  <2>1. UpTo(s) \subseteq Slots /\ s \in UpTo(s)
    BY <1>1, <2>0 DEF UpTo
  <2>. QED  BY <2>1, FinitePart DEF BgIdOf, UpTo
<1>3. \A s \in Live : Cardinality(UpTo(s)) # 0
  BY <1>2, FS_EmptySet
<1>4. \A s \in Live : BgIdOf(s) \in BgIds
  BY <1>2, <1>3, Ranges DEF BgIds
<1>5. ASSUME NEW s \in Live, NEW t \in Live, s < t
      PROVE  BgIdOf(s) # BgIdOf(t)
  <2>1. UpTo(s) \in SUBSET UpTo(t) /\ t \notin UpTo(s) /\ t \in UpTo(t)
    <3>1. \A u \in Live : u <= s => u <= t
      BY <1>1, <1>5
    <3>2. ~(t <= s) /\ t <= t
      BY <1>1, <1>5
    <3>. QED  BY <3>1, <3>2 DEF UpTo
  <2>2. Cardinality(UpTo(t)) # Cardinality(UpTo(s))
    BY <1>2, <2>1, FS_Subset
  <2>. QED  BY <1>2, <2>2
<1>6. ASSUME NEW s \in Live, NEW t \in Live, s # t
      PROVE  BgIdOf(s) # BgIdOf(t)
  <2>1. s < t \/ t < s
    BY <1>1, <1>6
  <2>. QED  BY <1>5, <2>1
<1>. QED  BY <1>4, <1>6

\* A new world numbers the objects again, in the order of their slots.
LEMMA ReplaceWorldStep ==
  ASSUME PlatformInv, ReplaceWorld
  PROVE  PlatformInv'
<1>. /\ TypeOK /\ HistoryOK /\ HandlesReach /\ TokensTell
     /\ Registered /\ PosesKept /\ StandsOn
  BY DEF PlatformInv
<1>. objects \in [Slots -> Object] /\ bgActors \in [BgIds -> BgActor]
  BY Types
<1> DEFINE Numbered(b) == {t \in Live : Cardinality({u \in Live : u <= t}) = b}
           fresh == [b \in BgIds |->
                       IF Numbered(b) = {} THEN NoBgActor
                       ELSE SetBgActor(Min(Numbered(b)), objects[Min(Numbered(b))].pose,
                                       objects[Min(Numbered(b))].enabled)]
           updated == UpdateContext(fresh, objects, TRUE)
<1>1. /\ worldLoaded' = TRUE
      /\ objects' = Rebound
      /\ bgActors' = UpdateBgActorTransforms(updated)
      /\ floor' = IF floor = NoLink THEN NoLink ELSE Ground
      /\ history' = [history EXCEPT
                       !.seen = [s \in Slots |-> objects[s].pose],
                       !.moved = {}, !.twice = {}, !.standing = 0]
      /\ UNCHANGED <<table, nextToken>>
  BY DEF ReplaceWorld
<1>2. \A t \in Live : t \in Slots /\ t # 0 /\ t \in Nat
  BY Ranges DEF Live
<1>3. \A t \in Live : Numbered(BgIdOf(t)) = {t} /\ Min(Numbered(BgIdOf(t))) = t
  <2> SUFFICES ASSUME NEW t \in Live
               PROVE  Numbered(BgIdOf(t)) = {t} /\ Min(Numbered(BgIdOf(t))) = t
    OBVIOUS
  <2>1. Numbered(BgIdOf(t)) = {t}
    BY NumbersDiffer DEF BgIdOf
  <2>2. Min({t}) \in {t}
    BY <1>2, LeastExists
  <2>. QED  BY <2>1, <2>2
<1>4. \A b \in BgIds : Numbered(b) = {} \/ \E t \in Live : b = BgIdOf(t)
  BY DEF BgIdOf
<1> HIDE DEF Numbered
<1>5. \A t \in Live : /\ fresh[BgIdOf(t)] \in BgActor
                      /\ fresh[BgIdOf(t)].object = t
                      /\ (fresh[BgIdOf(t)].disabled <=> ~objects[t].enabled)
  <2> SUFFICES ASSUME NEW t \in Live
               PROVE  /\ fresh[BgIdOf(t)] \in BgActor
                      /\ fresh[BgIdOf(t)].object = t
                      /\ (fresh[BgIdOf(t)].disabled <=> ~objects[t].enabled)
    OBVIOUS
  <2>1. BgIdOf(t) \in BgIds /\ Numbered(BgIdOf(t)) # {}
    BY <1>3, NumbersDiffer
  <2>2. fresh[BgIdOf(t)] = SetBgActor(t, objects[t].pose, objects[t].enabled)
    BY <1>3, <2>1
  <2>3. PICK off \in BOOLEAN : off = ~objects[t].enabled
    OBVIOUS
  <2>4. fresh[BgIdOf(t)] = [object |-> t, prev |-> objects[t].pose,
                            cur |-> objects[t].pose, disabled |-> off, laid |-> NoPose]
    BY <2>2, <2>3 DEF SetBgActor
  <2> HIDE DEF fresh
  <2>5. objects[t].pose \in Poses \cup {NoPose}
    BY <1>2 DEF Object
  <2>6. fresh[BgIdOf(t)] \in BgActor /\ fresh[BgIdOf(t)].object = t
    BY <1>2, <2>4, <2>5 DEF BgActor
  <2>7. fresh[BgIdOf(t)].disabled = off
    BY <2>4
  <2>. QED  BY <2>3, <2>6, <2>7
<1>6. \A b \in BgIds : (\E t \in Live : b = BgIdOf(t)) \/ fresh[b] = NoBgActor
  BY <1>4
<1>7. fresh \in [BgIds -> BgActor] /\ NoBgActor.object = 0
  <2>1. NoBgActor \in BgActor /\ NoBgActor.object = 0
    BY DEF NoBgActor, BgActor
  <2>3. fresh = [b \in BgIds |-> fresh[b]]
    OBVIOUS
  <2> HIDE DEF fresh
  <2>2. \A b \in BgIds : fresh[b] \in BgActor
    BY <1>5, <1>6, <2>1
  <2>. QED  BY <2>1, <2>2, <2>3
<1> HIDE DEF fresh
<1>8. /\ updated \in [BgIds -> BgActor]
      /\ \A b \in BgIds : updated[b].object = fresh[b].object
      /\ \A b \in BgIds : fresh[b].object # 0 =>
           /\ updated[b].prev = fresh[b].prev
           /\ updated[b].cur = objects[fresh[b].object].pose
           /\ updated[b].disabled = fresh[b].disabled
           /\ updated[b].laid = IF LaysOut(fresh, objects, TRUE, b)
                                THEN objects[fresh[b].object].pose ELSE fresh[b].laid
  <2>0. TRUE \in BOOLEAN
    OBVIOUS
  <2>1. updated \in [BgIds -> BgActor] /\ Follows(updated, fresh, objects, TRUE)
    BY <1>7, <2>0, Refreshing
  <2> HIDE DEF updated
  <2>. QED  BY <2>1 DEF Follows
<1> HIDE DEF updated
<1>9. /\ bgActors' \in [BgIds -> BgActor]
      /\ \A b \in BgIds : /\ bgActors'[b].object = updated[b].object
                          /\ bgActors'[b].prev = updated[b].cur
                          /\ bgActors'[b].cur = updated[b].cur
                          /\ bgActors'[b].disabled = updated[b].disabled
                          /\ bgActors'[b].laid = updated[b].laid
  BY <1>1, <1>8 DEF UpdateBgActorTransforms, BgActor
<1>10. \A t \in Live : /\ bgActors'[BgIdOf(t)].object = t
                       /\ bgActors'[BgIdOf(t)].prev = objects[t].pose
                       /\ bgActors'[BgIdOf(t)].cur = objects[t].pose
                       /\ (bgActors'[BgIdOf(t)].disabled <=> ~objects[t].enabled)
                       /\ objects[t].enabled =>
                            bgActors'[BgIdOf(t)].laid = objects[t].pose
  <2> SUFFICES ASSUME NEW t \in Live
               PROVE  /\ bgActors'[BgIdOf(t)].object = t
                      /\ bgActors'[BgIdOf(t)].prev = objects[t].pose
                      /\ bgActors'[BgIdOf(t)].cur = objects[t].pose
                      /\ (bgActors'[BgIdOf(t)].disabled <=> ~objects[t].enabled)
                      /\ objects[t].enabled =>
                           bgActors'[BgIdOf(t)].laid = objects[t].pose
    OBVIOUS
  <2>1. PICK b \in BgIds : b = BgIdOf(t)
    BY NumbersDiffer
  <2>2. /\ fresh[b].object = t /\ t # 0
        /\ (fresh[b].disabled <=> ~objects[t].enabled)
    BY <1>2, <1>5, <2>1
  <2>3. /\ bgActors'[b].object = t /\ bgActors'[b].prev = objects[t].pose
        /\ bgActors'[b].cur = objects[t].pose
        /\ bgActors'[b].disabled = fresh[b].disabled
        /\ bgActors'[b].laid = IF LaysOut(fresh, objects, TRUE, b)
                               THEN objects[t].pose ELSE fresh[b].laid
    BY <1>8, <1>9, <2>2
  <2>4. objects[t].enabled => LaysOut(fresh, objects, TRUE, b)
    BY <2>2 DEF LaysOut
  <2>. QED  BY <2>1, <2>2, <2>3, <2>4
<1>11. \A b \in BgIds : bgActors'[b].object # 0 => \E t \in Live : b = BgIdOf(t)
  BY <1>6, <1>7, <1>8, <1>9
<1>12. /\ objects' \in [Slots -> Object]
       /\ \A t \in Slots : /\ objects'[t].active = objects[t].active
                           /\ objects'[t].generation = objects[t].generation
                           /\ objects'[t].enabled = objects[t].enabled
                           /\ objects'[t].pose = objects[t].pose
                           /\ objects'[t].size = objects[t].size
       /\ \A t \in Live : objects'[t].bgId = BgIdOf(t)
  <2>1. \A t \in Live : BgIdOf(t) \in BgIds /\ t \in Slots
    BY <1>2, NumbersDiffer
  <2>2. \A t \in Slots :
          objects'[t] = IF t \in Live THEN [objects[t] EXCEPT !.bgId = BgIdOf(t)]
                        ELSE objects[t]
    BY <1>1 DEF Rebound
  <2>3. objects' = [t \in Slots |-> objects'[t]]
    BY <1>1 DEF Rebound
  <2>4. \A t \in Slots : objects[t] \in Object
    OBVIOUS
  <2>5. \A t \in Slots : objects'[t] \in Object
    <3> SUFFICES ASSUME NEW t \in Slots PROVE objects'[t] \in Object
      OBVIOUS
    <3>1. CASE t \in Live
      <4>1. PICK b \in BgIds : b = BgIdOf(t)
        BY <2>1, <3>1
      <4>2. objects'[t] = [objects[t] EXCEPT !.bgId = b]
        BY <2>2, <3>1, <4>1
      <4>. QED  BY <2>4, <4>2 DEF Object
    <3>2. CASE t \notin Live
      BY <2>2, <2>4, <3>2
    <3>. QED  BY <3>1, <3>2
  <2>. QED  BY <2>1, <2>2, <2>3, <2>4, <2>5 DEF Object
<1>13. Live' = Live /\ Entries' = Entries
  BY <1>1, <1>12 DEF Live, Entries
<1>14. Surfaces(objects') <= MaxSurfaces
  <2>1. \A i \in Slots : SizeIn(objects', i) = SizeIn(objects, i)
    BY <1>12 DEF SizeIn
  <2>2. \A i \in Slots : SizeIn(objects, i) \in Nat
    BY SizesAreNatural
  <2>3. 1 \in Slots /\ SizeIn(objects, 1) \in Nat
    BY <2>2, BoundsAssumption DEF Slots
  <2>4. /\ Surfaces(objects) \in Nat
        /\ Surfaces(objects') =
             Surfaces(objects) - SizeIn(objects, 1) + SizeIn(objects', 1)
    BY <2>1, <2>2, <2>3, OneSlotChanges
  <2>. QED  BY <2>1, <2>3, <2>4 DEF TypeOK
<1>15. TypeOK'
  <2>1. worldLoaded' \in BOOLEAN /\ floor' \in BgIds \cup {Ground, NoLink}
    BY <1>1
  <2>. QED  BY <1>1, <1>9, <1>12, <1>14, <2>1 DEF TypeOK, Object, BgActor
<1>16. /\ HistoryOK' /\ history'.who = history.who /\ history'.moved = {}
       /\ history'.twice = {} /\ history'.standing = 0
       /\ \A s \in Slots : history'.seen[s] = objects[s].pose
  <2>1. \A s \in Slots : objects[s].pose \in Poses \cup {NoPose}
    BY DEF Object
  <2>2. PICK seen : seen = [s \in Slots |-> objects[s].pose]
    OBVIOUS
  <2>3. /\ seen \in [Slots -> Poses \cup {NoPose}] /\ 0 \in 0 .. MaxToken
        /\ \A s \in Slots : seen[s] = objects[s].pose
    BY <2>1, <2>2, Ranges
  <2>4. history' = [history EXCEPT !.seen = seen, !.moved = {}, !.twice = {},
                                   !.standing = 0]
    BY <1>1, <2>2
  <2>. QED  BY <2>3, <2>4 DEF HistoryOK
<1>17. HandlesReach' /\ TokensTell' /\ StandsOn'
  BY <1>1, <1>2, <1>12, <1>13, <1>16 DEF HandlesReach, TokensTell, StandsOn, Target
<1>18. \A t \in Live : Bg(t)' = bgActors'[BgIdOf(t)]
  BY <1>12 DEF Bg
<1>19. Registered'
  <2>1. \A b \in BgIds : bgActors'[b].object # 0 =>
           bgActors'[b].object \in Live /\ objects'[bgActors'[b].object].bgId = b
    BY <1>10, <1>11, <1>12
  <2>2. \A t \in Live : Bg(t)'.disabled <=> ~objects'[t].enabled
    BY <1>2, <1>10, <1>12, <1>18
  <2>. QED  BY <1>2, <1>10, <1>12, <1>13, <1>18, <2>1, <2>2, NumbersDiffer
            DEF Registered
<1>20. PosesKept'
  BY <1>2, <1>10, <1>12, <1>13, <1>16, <1>18 DEF PosesKept
<1>. QED  BY <1>15, <1>16, <1>17, <1>19, <1>20 DEF PlatformInv

\* The two lowest slots that are free, of the wrapper and of the core.
LEMMA CreateStep ==
  ASSUME PlatformInv, NEW size \in Sizes, NEW p \in Poses, NEW carries \in BOOLEAN,
         Create(size, p, carries)
  PROVE  PlatformInv'
<1>. TypeOK
  BY DEF PlatformInv
<1> DEFINE e == Min(Slots \ Entries)
           s == Min(Slots \ Live)
<1>1. /\ Entries # Slots /\ Live # Slots
      /\ \/ CreateSucceeds(e, s, size, p, carries)
         \/ CreateRefused(s)
         \/ CreateWithoutToken(s, size, p)
      /\ UNCHANGED <<worldLoaded, floor>>
  BY DEF Create
<1>2. e \in Slots \ Entries /\ s \in Slots \ Live
  <2>1. Entries \subseteq Slots /\ Live \subseteq Slots /\ Slots \subseteq Nat
    BY Ranges DEF Entries, Live
  <2>2. Slots \ Entries # {} /\ Slots \ Live # {}
    BY <1>1, <2>1
  <2>. QED  BY <2>1, <2>2, LeastExists
<1> HIDE DEF e, s
<1>3. FirstGeneration(s) \in 0 .. MaxGeneration
  BY <1>2, GenerationsStay
<1>4. CASE CreateSucceeds(e, s, size, p, carries)
  BY <1>1, <1>2, <1>4, CreateSucceedsStep
<1>5. CASE CreateRefused(s)
  BY <1>1, <1>2, <1>3, <1>5, RefusalStep DEF CreateRefused
<1>6. CASE CreateWithoutToken(s, size, p)
  BY <1>1, <1>2, <1>3, <1>6, RefusalStep DEF CreateWithoutToken, DeletesNative
<1>. QED  BY <1>1, <1>4, <1>5, <1>6

\* Every step keeps the inductive invariant.
LEMMA NextKeeps ==
  ASSUME PlatformInv, [Next]_vars
  PROVE  PlatformInv'
<1>1. CASE \E size \in Sizes, p \in Poses, carries \in BOOLEAN :
             Create(size, p, carries)
  BY <1>1, CreateStep
<1>2. CASE \E e \in Slots, p \in Poses : SetTransform(e, p)
  BY <1>2, SetTransformStep
<1>3. CASE \E e \in Slots, on \in BOOLEAN : SetEnabled(e, on)
  BY <1>3, SetEnabledStep
<1>4. CASE \E e \in Slots : Delete(e)
  BY <1>4, DeleteStep
<1>5. CASE ReplaceWorld
  BY <1>5, ReplaceWorldStep
<1>6. CASE FrozenTick \/ \E f \in BgIds \cup {Ground} : Tick(f)
  BY <1>6, TickStep
<1>7. CASE TakeToken \/ SetPose \/ CreateLink \/ DeleteLink \/ UNCHANGED vars
  BY <1>7, SmallSteps
<1>. QED  BY <1>1, <1>2, <1>3, <1>4, <1>5, <1>6, <1>7 DEF Next

\* The inductive invariant holds in every state.
LEMMA PlatformInvariant == Spec => []PlatformInv
<1>. QED  BY InitHolds, NextKeeps, PTL DEF Spec

-----------------------------------------------------------------------------
\* The slots, handles, bg actors and poses keep their types, and all the
\* objects together stay in the triangle list the game has room for
\* (dynamic_totals at every create), for any sizes of the tables.
THEOREM TypeCorrect == Spec => []TypeOK
<1>1. PlatformInv => TypeOK
  BY DEF PlatformInv
<1>. QED  BY <1>1, PlatformInvariant, PTL

\* A handle the host holds reaches the object it was made for although the
\* generations of the core wrap, no object of the core is left without a
\* handle, and each is one live bg actor, before and after the world is
\* replaced (dynamic_find, liboot_dynamic_collision_rebind).
THEOREM HandlesSurvive == Spec => []TablesAgree
<1>1. PlatformInv => TablesAgree
  <2> SUFFICES ASSUME PlatformInv PROVE TablesAgree
    OBVIOUS
  <2>. TypeOK /\ HandlesReach /\ Registered
    BY DEF PlatformInv
  <2>1. ASSUME NEW e \in Entries
        PROVE  \E s \in Found(e) : history.who[s] = table[e].token
    <3>1. table[e] \in Entry
      BY Types DEF Entries
    <3>2. table[e].native = <<Target(e), objects[Target(e)].generation>>
      BY <3>1 DEF HandlesReach, Target, Entry
    <3>3. Target(e) \in Found(e)
      BY <3>2 DEF HandlesReach, Found
    <3>. QED  BY <3>3 DEF HandlesReach
  <2>2. ASSUME NEW s \in Live
        PROVE  /\ objects[s].bgId # 0 /\ bgActors[objects[s].bgId].object = s
               /\ bgActors[objects[s].bgId].cur = objects[s].pose
    BY Ranges DEF Registered, Bg
  <2>3. ASSUME NEW s \in Live
        PROVE  bgActors[objects[s].bgId].disabled = ~objects[s].enabled
    <3>1. bgActors[objects[s].bgId].disabled <=> ~objects[s].enabled
      BY DEF Registered, Bg
    <3>2. bgActors[objects[s].bgId] \in BgActor
      BY Types DEF Registered
    <3>3. bgActors[objects[s].bgId].disabled \in BOOLEAN
      BY <3>2 DEF BgActor
    <3>. QED  BY <3>1, <3>3
  <2>. QED  BY <2>1, <2>2, <2>3, CountsAgree DEF TablesAgree
<1>. QED  BY <1>1, PlatformInvariant, PTL

\* Where an enabled object collides is where the host has put it, as long as
\* it is not moved twice between two ticks (DynaPoly_AddBgActorToLookup).
THEOREM CollisionFollows == Spec => []GeometryFollows
<1>1. PlatformInv => GeometryFollows
  BY DEF PlatformInv, PosesKept, GeometryFollows, LaidOut, Bg
<1>. QED  BY <1>1, PlatformInvariant, PTL

\* A tick carries Link by the whole way the object under him has gone since the
\* tick before, across any number of calls, deletions and new objects.
THEOREM CarriesWhole == Spec => CarryIsWhole
<1>1. ASSUME PlatformInv, NEW s \in Live,
             objects[s].carries, history.who[s] = history.standing
      PROVE  Carried = [by |-> history.who[s], from |-> history.seen[s],
                        to |-> objects[s].pose]
  <2>. TypeOK /\ TokensTell /\ Registered /\ PosesKept /\ StandsOn
    BY <1>1 DEF PlatformInv
  <2>1. history.standing # 0
    BY <1>1, Ranges DEF TokensTell, TypeOK
  <2>2. /\ floor \in BgIds /\ bgActors[floor].object # 0
        /\ bgActors[floor].object \in Live
        /\ history.who[bgActors[floor].object] = history.who[s]
    BY <1>1, <2>1 DEF StandsOn, Registered
  <2>3. bgActors[floor].object = s /\ s # 0
    BY <2>2 DEF TokensTell
  <2>4. Bg(s) = bgActors[floor]
    BY <2>2, <2>3 DEF Registered, Bg
  <2>5. bgActors[floor].prev = history.seen[s] /\ bgActors[floor].cur = objects[s].pose
    BY <2>4 DEF PosesKept, Registered
  <2>. QED  BY <1>1, <2>2, <2>3, <2>5 DEF Carried
<1>2. PlatformInv =>
        [\A s \in Live :
           (\E f \in BgIds \cup {Ground} : Tick(f))
             /\ objects[s].carries /\ history.who[s] = history.standing =>
           Carried = [by |-> history.who[s], from |-> history.seen[s],
                      to |-> objects[s].pose]]_vars
  BY <1>1
<1>. QED  BY <1>2, PlatformInvariant, PTL DEF CarryIsWhole
================================================================================
