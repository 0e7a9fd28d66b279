-------------------------- MODULE WorldEvents_proofs --------------------------
(***************************************************************************)
(* Proof that events are numbered without a gap, belong to the world that  *)
(* is loaded and come once per stay, for every queue length and width of   *)
(* the counter and any exits and voids.                                    *)
(***************************************************************************)
EXTENDS WorldEvents, SequenceTheorems, TLAPS

\* An announced stay is still the contact the game knows, so that the next
\* tick does not take it for a new one.
AnnouncedIsNoted == announced => contact = place

\* A Link whom the game has seen at a safe place is in contact with nothing,
\* so that the next trigger is new to it.
SafeIsNoted == settled /\ place \notin Triggers => contact = NoContact

Event == [at : Triggers, sequence : 0 .. Width - 1]

IInv ==
  /\ TypeOK
  /\ EventsAreInOrder
  /\ AnnouncedIsNoted
  /\ SafeIsNoted

-----------------------------------------------------------------------------
\* The places have different names.
LEMMA Places ==
  /\ NoContact \notin Triggers /\ "nowhere" \notin Triggers
  /\ \A rom \in BOOLEAN : \A p \in PlacesOf(rom) : p # "nowhere"
  /\ \A rom \in BOOLEAN : PlacesOf(rom) \cap Triggers \subseteq PlacesOf(rom)
  /\ \A rom \in BOOLEAN : PlacesOf(rom) \subseteq PlacesOf(TRUE)
BY PlacesDistinct DEF Triggers, NoContact, PlacesOf

\* The counter stays in its range and never takes the value of no event.
LEMMA SuccessorIsNumber ==
  ASSUME NEW n \in 0 .. Width - 1
  PROVE  Successor(n) \in 0 .. Width - 1 /\ Successor(n) # 0
<1>1. (n + 1) % Width \in 0 .. Width - 1
  BY WidthAssumption
<1> QED BY <1>1, WidthAssumption DEF Successor

\* What order means for a queue q up to number last in a world.
InOrder(q, last, rom) ==
  \A n \in 1 .. Len(q) :
    /\ q[n].sequence # 0
    /\ n = Len(q) => q[n].sequence = last
    /\ n < Len(q) => q[n + 1].sequence = Successor(q[n].sequence)
    /\ q[n].at \in PlacesOf(rom)

LEMMA OrderOfQueue ==
  ASSUME queue \in Seq(Event)
  PROVE  EventsAreInOrder <=> InOrder(queue, nextSequence, romScene)
<1>1. DOMAIN queue = 1 .. Len(queue)
  BY LenProperties
<1> QED BY <1>1 DEF EventsAreInOrder, InOrder

\* A new event keeps the order.
LEMMA AppendKeepsOrder ==
  ASSUME NEW q \in Seq(Event), NEW last \in 0 .. Width - 1, NEW rom \in BOOLEAN,
         InOrder(q, last, rom), NEW p \in Triggers, p \in PlacesOf(rom)
  PROVE  LET event == [at |-> p, sequence |-> Successor(last)]
         IN  /\ Append(q, event) \in Seq(Event)
             /\ Len(Append(q, event)) = Len(q) + 1
             /\ InOrder(Append(q, event), Successor(last), rom)
<1> DEFINE event == [at |-> p, sequence |-> Successor(last)]
           new == Append(q, event)
<1>1. event \in Event /\ event.sequence # 0 /\ event.sequence = Successor(last)
      /\ event.at = p
  BY SuccessorIsNumber DEF Event
<1>2. /\ new \in Seq(Event) /\ Len(new) = Len(q) + 1
      /\ \A n \in 1 .. Len(q) : new[n] = q[n]
      /\ new[Len(q) + 1] = event
  BY <1>1, AppendProperties
<1>3. Len(q) \in Nat
  BY LenProperties
<1> HIDE DEF event, new
<1>4. ASSUME NEW n \in 1 .. Len(new)
      PROVE  /\ new[n].sequence # 0
             /\ n = Len(new) => new[n].sequence = Successor(last)
             /\ n < Len(new) => new[n + 1].sequence = Successor(new[n].sequence)
             /\ new[n].at \in PlacesOf(rom)
  <2>1. CASE n = Len(q) + 1
    BY <2>1, <1>1, <1>2, <1>3
  <2>2. CASE n = Len(q)
    BY <2>2, <1>1, <1>2, <1>3, <1>4 DEF InOrder
  <2>3. CASE n < Len(q)
    <3>1. n \in 1 .. Len(q) /\ n + 1 \in 1 .. Len(q)
      BY <2>3, <1>3
    <3> QED BY <3>1, <2>3, <1>2, <1>3 DEF InOrder
  <2> QED BY <2>1, <2>2, <2>3, <1>2, <1>3
<1>5. InOrder(new, Successor(last), rom)
  BY <1>4 DEF InOrder
<1> QED BY <1>2, <1>5 DEF event, new

\* Taking the oldest event keeps the order.
LEMMA TailKeepsOrder ==
  ASSUME NEW q \in Seq(Event), q # <<>>, NEW last, NEW rom,
         InOrder(q, last, rom)
  PROVE  /\ Tail(q) \in Seq(Event) /\ Len(Tail(q)) = Len(q) - 1
         /\ InOrder(Tail(q), last, rom)
<1>1. /\ Tail(q) \in Seq(Event) /\ Len(Tail(q)) = Len(q) - 1
      /\ \A n \in 1 .. Len(Tail(q)) : Tail(q)[n] = q[n + 1]
  BY HeadTailProperties
<1>2. Len(q) \in Nat
  BY LenProperties
<1>3. ASSUME NEW n \in 1 .. Len(Tail(q))
      PROVE  /\ Tail(q)[n].sequence # 0
             /\ n = Len(Tail(q)) => Tail(q)[n].sequence = last
             /\ n < Len(Tail(q)) =>
                  Tail(q)[n + 1].sequence = Successor(Tail(q)[n].sequence)
             /\ Tail(q)[n].at \in PlacesOf(rom)
  <2>1. n + 1 \in 1 .. Len(q) /\ Tail(q)[n] = q[n + 1]
    BY <1>1, <1>2
  <2>2. /\ q[n + 1].sequence # 0 /\ q[n + 1].at \in PlacesOf(rom)
        /\ n + 1 = Len(q) => q[n + 1].sequence = last
        /\ n + 1 < Len(q) =>
             q[(n + 1) + 1].sequence = Successor(q[n + 1].sequence)
    BY <2>1 DEF InOrder
  <2>3. ASSUME n < Len(Tail(q))
        PROVE  Tail(q)[n + 1].sequence = Successor(Tail(q)[n].sequence)
    <3>1. n + 1 \in 1 .. Len(Tail(q)) /\ n + 1 < Len(q)
      BY <2>3, <1>1, <1>2
    <3>2. Tail(q)[n + 1] = q[(n + 1) + 1]
      BY <3>1, <1>1
    <3> QED BY <3>1, <3>2, <2>1, <2>2
  <2>4. n = Len(Tail(q)) => n + 1 = Len(q)
    BY <1>1, <1>2
  <2> QED BY <2>1, <2>2, <2>3, <2>4
<1> QED BY <1>1, <1>3 DEF InOrder

-----------------------------------------------------------------------------
LEMMA InitInv == Init => IInv
<1> SUFFICES ASSUME Init PROVE IInv
  OBVIOUS
<1>1. queue \in Seq(Event) /\ Len(queue) = 0
  BY EmptySeq DEF Init
<1>2. TypeOK
  <2>1. queue \in Seq(Event) /\ Len(queue) <= Capacity
    BY <1>1, CapacityAssumption
  <2>2. nextSequence \in 0 .. Width - 1
    BY WidthAssumption DEF Init
  <2>3. /\ contact \in Triggers \cup {NoContact}
        /\ romScene \in BOOLEAN /\ {settled, announced, refused} \subseteq BOOLEAN
        /\ place \in PlacesOf(romScene) \cup {"nowhere"}
    BY DEF Init
  <2> QED BY <2>1, <2>2, <2>3 DEF TypeOK, Event
<1>3. EventsAreInOrder
  BY <1>1, OrderOfQueue DEF InOrder
<1> QED BY <1>2, <1>3 DEF Init, IInv, AnnouncedIsNoted, SafeIsNoted

\* The push of a contact.
LEMMA PushKeeps ==
  ASSUME IInv, NEW p \in Triggers, p \in PlacesOf(romScene), Push(p),
         romScene' = romScene
  PROVE  /\ queue' \in Seq(Event) /\ Len(queue') <= Capacity
         /\ nextSequence' \in 0 .. Width - 1
         /\ contact' = IF Full THEN contact ELSE p
         /\ EventsAreInOrder'
         /\ Full => queue' = queue
<1>1. queue \in Seq(Event) /\ Len(queue) \in Nat /\ romScene \in BOOLEAN
      /\ nextSequence \in 0 .. Width - 1 /\ Len(queue) <= Capacity
  BY LenProperties DEF IInv, TypeOK, Event
<1>2. InOrder(queue, nextSequence, romScene)
  BY <1>1, OrderOfQueue DEF IInv
<1>3. CASE Full
  BY <1>1, <1>3 DEF IInv, Push, Notes, EventsAreInOrder
<1>4. CASE ~Full
  <2>1. /\ nextSequence' = Successor(nextSequence)
        /\ queue' = Append(queue, [at |-> p, sequence |-> Successor(nextSequence)])
        /\ contact' = p
    BY <1>4 DEF Push, Notes
  <2>2. /\ queue' \in Seq(Event) /\ Len(queue') = Len(queue) + 1
        /\ InOrder(queue', nextSequence', romScene')
    BY <2>1, <1>1, <1>2, AppendKeepsOrder
  <2>3. EventsAreInOrder'
    <3>1. DOMAIN queue' = 1 .. Len(queue')
      BY <2>2, LenProperties
    <3> QED BY <3>1, <2>2 DEF EventsAreInOrder, InOrder
  <2>4. Len(queue') <= Capacity
    BY <2>2, <1>1, <1>4, CapacityAssumption DEF Full
  <2>5. nextSequence' \in 0 .. Width - 1
    BY <2>1, <1>1, SuccessorIsNumber
  <2> QED BY <2>1, <2>2, <2>3, <2>4, <2>5, <1>4
<1> QED BY <1>3, <1>4

\* A step that leaves the queue and its world alone.
LEMMA SameQueue ==
  ASSUME IInv, UNCHANGED <<queue, nextSequence, romScene>>
  PROVE  /\ queue' \in Seq(Event) /\ Len(queue') <= Capacity
         /\ nextSequence' \in 0 .. Width - 1 /\ romScene' \in BOOLEAN
         /\ EventsAreInOrder'
BY DEF IInv, TypeOK, Event, EventsAreInOrder

LEMMA TickKeeps ==
  ASSUME IInv, NEW p \in PlacesOf(TRUE), Tick(p)
  PROVE  IInv'
<1>1. /\ p \in PlacesOf(romScene) /\ romScene' = romScene /\ place' = p
      /\ settled' = TRUE /\ romScene \in BOOLEAN /\ p # "nowhere"
      /\ contact \in Triggers \cup {NoContact}
      /\ announced \in BOOLEAN /\ refused \in BOOLEAN
  BY Places DEF Tick, IInv, TypeOK
<1>2. CASE p \notin Triggers
  <2>1. /\ contact' = NoContact /\ announced' = FALSE /\ refused' = FALSE
        /\ UNCHANGED <<queue, nextSequence>>
    BY <1>2 DEF Tick, EndsContact
  <2> QED BY <2>1, <1>1, <1>2, SameQueue
          DEF IInv, TypeOK, Event, AnnouncedIsNoted, SafeIsNoted
<1>3. CASE p \in Triggers /\ p = contact
  <2>1. /\ contact' = contact /\ announced' = Stays(p)
        /\ refused' = (refused /\ p = place)
        /\ UNCHANGED <<queue, nextSequence>>
    BY <1>3 DEF Tick
  <2>2. announced' \in BOOLEAN /\ refused' \in BOOLEAN
    BY <2>1 DEF Stays
  <2> QED BY <2>1, <2>2, <1>1, <1>3, SameQueue
          DEF IInv, TypeOK, Event, AnnouncedIsNoted, SafeIsNoted
<1>4. CASE p \in Triggers /\ p # contact
  <2>1. /\ Push(p) /\ announced' = (Stays(p) \/ ~Full) /\ refused' = Full
    BY <1>4 DEF Tick
  <2>2. announced' \in BOOLEAN /\ refused' \in BOOLEAN
    BY <2>1 DEF Stays, Full
  <2>3. ~Stays(p)
    BY <1>4 DEF IInv, AnnouncedIsNoted, Stays
  <2>4. /\ queue' \in Seq(Event) /\ Len(queue') <= Capacity
        /\ nextSequence' \in 0 .. Width - 1
        /\ contact' = IF Full THEN contact ELSE p
        /\ EventsAreInOrder'
    BY <2>1, <1>1, <1>4, PushKeeps
  <2>5. AnnouncedIsNoted' /\ SafeIsNoted'
    BY <2>1, <2>3, <2>4, <1>1, <1>4, Places DEF AnnouncedIsNoted, SafeIsNoted
  <2>6. TypeOK'
    BY <2>2, <2>4, <1>1, <1>4 DEF TypeOK, Event
  <2> QED BY <2>4, <2>5, <2>6 DEF IInv
<1> QED BY <1>2, <1>3, <1>4

LEMMA SetPoseKeeps ==
  ASSUME IInv, NEW p \in PlacesOf(TRUE), SetPose(p)
  PROVE  IInv'
<1>1. /\ p \in PlacesOf(romScene) /\ UNCHANGED <<queue, nextSequence, romScene>>
      /\ place' = p /\ settled' = (settled /\ p = place)
      /\ contact' = IF p # "below" /\ contact = "below" THEN NoContact ELSE contact
      /\ announced' = Stays(p) /\ refused' = (refused /\ p = place)
  BY DEF SetPose
<1>2. {settled', announced', refused'} \subseteq BOOLEAN
  BY <1>1 DEF Stays
<1>3. contact' \in Triggers \cup {NoContact}
  BY <1>1 DEF IInv, TypeOK
<1>4. TypeOK' /\ EventsAreInOrder'
  BY <1>1, <1>2, <1>3, SameQueue DEF TypeOK, Event
<1>5. AnnouncedIsNoted'
  BY <1>1 DEF IInv, AnnouncedIsNoted, Stays
<1>6. SafeIsNoted'
  BY <1>1 DEF IInv, SafeIsNoted
<1> QED BY <1>4, <1>5, <1>6 DEF IInv

\* Link comes and goes without the game's being asked.
LEMMA ComesOrGoesKeeps ==
  ASSUME IInv, DeleteLink \/ \E p \in PlacesOf(TRUE) : CreateLink(p)
  PROVE  IInv'
<1>1. /\ place' \in PlacesOf(romScene) \cup {"nowhere"}
      /\ settled' = FALSE /\ announced' = FALSE /\ refused' = FALSE
      /\ UNCHANGED <<queue, nextSequence, romScene, contact>>
  BY DEF DeleteLink, CreateLink
<1> QED BY <1>1, SameQueue
        DEF IInv, TypeOK, Event, AnnouncedIsNoted, SafeIsNoted

LEMMA ReplaceKeeps ==
  ASSUME IInv, NEW p \in PlacesOf(TRUE), NEW rom \in BOOLEAN,
         ReplaceWorld(rom, p)
  PROVE  IInv'
<1>1. /\ queue' = <<>> /\ contact' = NoContact /\ romScene' = rom
      /\ nextSequence' = nextSequence
      /\ place' \in PlacesOf(rom) \cup {"nowhere"}
      /\ settled' = FALSE /\ announced' = FALSE /\ refused' = FALSE
  BY DEF ReplaceWorld, ClearsEvents
<1>2. queue' \in Seq(Event) /\ Len(queue') = 0
  BY <1>1, EmptySeq
<1>3. EventsAreInOrder'
  <2>1. DOMAIN queue' = 1 .. 0
    BY <1>2, LenProperties
  <2> QED BY <2>1 DEF EventsAreInOrder
<1>4. TypeOK'
  <2>1. queue' \in Seq(Event) /\ Len(queue') <= Capacity
    BY <1>2, CapacityAssumption
  <2>2. nextSequence' \in 0 .. Width - 1
    BY <1>1 DEF IInv, TypeOK
  <2>3. /\ contact' \in Triggers \cup {NoContact}
        /\ romScene' \in BOOLEAN /\ {settled', announced', refused'} \subseteq BOOLEAN
    BY <1>1, Zenon
  <2>4. place' \in PlacesOf(romScene') \cup {"nowhere"}
    BY <1>1, Zenon
  <2> QED BY <2>1, <2>2, <2>3, <2>4 DEF TypeOK, Event
<1> QED BY <1>1, <1>3, <1>4 DEF IInv, AnnouncedIsNoted, SafeIsNoted

LEMMA PollKeeps ==
  ASSUME IInv, Poll
  PROVE  IInv'
<1>1. queue # <<>> /\ queue' = Tail(queue)
      /\ UNCHANGED <<nextSequence, contact, romScene, place, settled, announced,
                     refused>>
  BY DEF Poll
<1>2. queue \in Seq(Event) /\ Len(queue) \in Nat /\ Len(queue) <= Capacity
  BY LenProperties DEF IInv, TypeOK, Event
<1>3. InOrder(queue, nextSequence, romScene)
  BY <1>2, OrderOfQueue DEF IInv
<1>4. /\ queue' \in Seq(Event) /\ Len(queue') = Len(queue) - 1
      /\ InOrder(queue', nextSequence', romScene')
  BY <1>1, <1>2, <1>3, TailKeepsOrder
<1>5. EventsAreInOrder'
  <2>1. DOMAIN queue' = 1 .. Len(queue')
    BY <1>4, LenProperties
  <2> QED BY <2>1, <1>4 DEF EventsAreInOrder, InOrder
<1>6. TypeOK'
  BY <1>1, <1>2, <1>4, CapacityAssumption DEF IInv, TypeOK, Event
<1> QED BY <1>1, <1>5, <1>6 DEF IInv, AnnouncedIsNoted, SafeIsNoted

LEMMA StepInv == IInv /\ [Next]_vars => IInv'
<1> SUFFICES ASSUME IInv, [Next]_vars PROVE IInv'
  OBVIOUS
<1>1. CASE UNCHANGED vars
  BY <1>1 DEF vars, IInv, TypeOK, EventsAreInOrder, AnnouncedIsNoted, SafeIsNoted
<1>2. CASE Next
  BY <1>2, TickKeeps, SetPoseKeeps, ComesOrGoesKeeps, ReplaceKeeps, PollKeeps
  DEF Next
<1> QED BY <1>1, <1>2

\* The inductive invariant holds.
THEOREM EventsInvariant == Spec => []IInv
BY InitInv, StepInv, PTL DEF Spec

\* Every variable keeps its type: the queue never outgrows its capacity and
\* the counter never its width.
THEOREM EventTypes == Spec => []TypeOK
<1>1. IInv => TypeOK
  BY DEF IInv
<1> QED BY <1>1, EventsInvariant, PTL

\* Events are numbered without a gap, never 0, and are about the world that is
\* loaded, for any queue and any width of the counter.
THEOREM EventsInOrder == Spec => []EventsAreInOrder
<1>1. IInv => EventsAreInOrder
  BY DEF IInv
<1> QED BY <1>1, EventsInvariant, PTL

-----------------------------------------------------------------------------
\* What one step may do: the body of OncePerStay.
NewEventIsNew ==
  /\ Len(queue') > Len(queue) => ~Stays(place')
  /\ \A p \in Triggers :
       Tick(p) /\ settled /\ place \notin Triggers => announced' \/ Full

\* Only the push of a new contact makes the queue longer.
LEMMA GrowsByTick ==
  ASSUME IInv, Next, Len(queue') > Len(queue)
  PROVE  \E p \in Triggers : p # contact /\ place' = p
<1>1. queue \in Seq(Event) /\ Len(queue) \in Nat
  BY LenProperties DEF IInv, TypeOK, Event
<1>2. queue' # queue
  BY <1>1
<1>3. ~Poll
  <2>1. queue # <<>> => Len(Tail(queue)) = Len(queue) - 1
    BY <1>1, HeadTailProperties
  <2> QED BY <2>1, <1>1 DEF Poll
<1>4. queue' # <<>>
  <2>1. Len(<<>>) = 0
    BY EmptySeq
  <2> QED BY <2>1, <1>1
<1>5. PICK p \in PlacesOf(TRUE) : Tick(p)
  BY <1>2, <1>3, <1>4
  DEF Next, SetPose, CreateLink, DeleteLink, ReplaceWorld, ClearsEvents
<1> QED BY <1>5, <1>2 DEF Tick

LEMMA StepIsNew == IInv /\ [Next]_vars => [NewEventIsNew]_vars
<1> SUFFICES ASSUME IInv, Next PROVE NewEventIsNew
  OBVIOUS
<1>1. ASSUME Len(queue') > Len(queue) PROVE ~Stays(place')
  BY <1>1, GrowsByTick DEF IInv, AnnouncedIsNoted, Stays
<1>2. ASSUME NEW p \in Triggers, Tick(p), settled, place \notin Triggers
      PROVE  announced' \/ Full
  <2>1. p # contact
    BY <1>2, Places DEF IInv, SafeIsNoted
  <2> QED BY <2>1, <1>2 DEF Tick
<1> QED BY <1>1, <1>2 DEF NewEventIsNew

\* A stay makes at most one event, and walking into an exit or a void from a
\* safe place makes one unless the queue is full.
THEOREM OneEventPerStay == Spec => OncePerStay
<1>1. Spec => [][NewEventIsNew]_vars
  BY EventsInvariant, StepIsNew, PTL DEF Spec
<1> QED BY <1>1 DEF OncePerStay, NewEventIsNew
=============================================================================
