----------------------------- MODULE HostedActors -----------------------------
(***************************************************************************)
(* What a host may believe of its actors.  A handle is good from its       *)
(* creation to its removal, once.  Contacts arrive in a queue, oldest      *)
(* first; none of a live actor is lost but to a newer one when the queue   *)
(* is full, and those of a removed actor are not delivered.  Tables, slots *)
(* and the pool are those of HostActors, which implements this module.     *)
(***************************************************************************)
EXTENDS Picking

CONSTANTS
  Handles,      \* Records with a kind and a token.
  Capacity      \* Contacts that are kept.

VARIABLES
  live,         \* Handles that are good.
  gone,         \* Handles that were.
  mail          \* The actors of the contacts not yet polled, by token.

hosted == <<live, gone, mail>>

Tokens(handles) == {h.token : h \in handles}

Init == live = {} /\ gone = {} /\ mail = <<>>

\* A new handle shares its token with none before it.
Create(h) ==
  /\ h.token \notin Tokens(live \cup gone)
  /\ live' = live \cup {h}
  /\ UNCHANGED <<gone, mail>>

\* Actors go, and their contacts with them; no other live actor loses one.
Remove(handles) ==
  /\ live' = live \ handles
  /\ gone' = gone \cup handles
  /\ \E lost \in SUBSET Tokens(live \cup gone) :
       /\ Tokens(handles) \subseteq lost /\ lost \cap Tokens(live') = {}
       /\ mail' = Picked(mail, {n \in DOMAIN mail : mail[n] \notin lost})

\* A change of age that the game takes for none: the actors stay in the world,
\* and what happens to them is not delivered any more.
Abandon ==
  /\ live' = {}
  /\ gone' = gone \cup live
  /\ UNCHANGED mail

\* The oldest contact of a live actor is delivered.  Those before it are of
\* actors that were abandoned.
Poll ==
  /\ mail # <<>>
  /\ \E n \in DOMAIN mail :
       /\ \A m \in 1 .. n - 1 : mail[m] \notin Tokens(live)
       /\ mail[n] \in Tokens(live) \/ n = Len(mail)
       /\ mail' = SubSeq(mail, n + 1, Len(mail))
  /\ UNCHANGED <<live, gone>>

\* Contacts arrive.  Older ones are dropped only if the queue is full
\* thereafter.
Arrive ==
  /\ \E kept \in 0 .. Len(mail) :
       /\ kept <= Len(mail') /\ Len(mail') <= Capacity
       /\ SubSeq(mail', 1, kept) = SubSeq(mail, Len(mail) - kept + 1, Len(mail))
       /\ kept < Len(mail) => Len(mail') = Capacity
       /\ \A n \in kept + 1 .. Len(mail') : mail'[n] \in Tokens(live \cup gone)
  /\ UNCHANGED <<live, gone>>

Next ==
  \/ \E h \in Handles : Create(h)
  \/ \E handles \in SUBSET live : Remove(handles)
  \/ Abandon \/ Poll \/ Arrive

Spec == Init /\ [][Next]_hosted
===============================================================================
