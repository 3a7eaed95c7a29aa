----------------------------- MODULE LiveSession -----------------------------
(***************************************************************************)
(* The swiping screen of one device: LiveSession with its countdown, the   *)
(* stack of RestaurantCards, and the part of SessionStore that holds the   *)
(* cards.  SessionStore.tla abstracts all this to "a card is liked" and    *)
(* "the time is over".                                                     *)
(*                                                                         *)
(* The cards on screen are session.restaurantList!.results, the last one   *)
(* on top.  A swipe likes the card under the finger but takes the last one *)
(* off the stack, and any snapshot of the session puts the whole list back *)
(* on the stack, also while a card is being dragged.                       *)
(*                                                                         *)
(* The timer is a property of the view's value, so each time the parent    *)
(* view is rendered again the current second starts over.                  *)
(***************************************************************************)
EXTENDS Integers, Sequences, FiniteSets, Functions

CONSTANTS Lists,        \* the restaurant lists that may be uploaded
          Seconds,      \* session.time * 60
          Fingers,      \* cards that can be dragged at the same time
          MaxSnapshots  \* snapshots of the session while it is live

Cards == UNION {Range(l) : l \in Lists}

\* No restaurant is twice in a list.
ASSUME LiveAssumption == /\ Lists # {} /\ Lists \subseteq Seq(Cards)
                         /\ \A l \in Lists : IsInjective(l)
                         /\ Seconds \in Nat \ {0}
                         /\ Fingers \in Nat /\ MaxSnapshots \in Nat

VARIABLES list,           \* the list in the session document, as last received
          results,        \* session.restaurantList!.results
          shown,          \* the LiveSession view is on screen
          cards,          \* its own restaurantList.count is not zero
          drags,          \* the cards that a finger is dragging
          liked,          \* session.likedRestaurants
          judged,         \* history: the cards swiped to either side
          disturbed,      \* history: a second finger was down, or another list
                          \* arrived during a drag
          timeRemaining,
          elapsed,        \* the current second of the timer is over
          ended,          \* endSession() was called
          snapshots       \* how many snapshots have arrived

vars == <<list, results, shown, cards, drags, liked, judged, disturbed, timeRemaining,
          elapsed, ended, snapshots>>

deck == <<list, results, cards, drags, liked, judged, disturbed>>
clock == <<timeRemaining, elapsed, ended>>

\* The session is live and the device has its list: both onAppear closures run.
Init == /\ list \in Lists
        /\ results = list
        /\ shown = TRUE
        /\ cards = (results # <<>>)
        /\ drags = {}
        /\ liked = {}
        /\ judged = {}
        /\ disturbed = FALSE
        /\ timeRemaining = Seconds
        /\ elapsed = FALSE
        /\ ended = FALSE
        /\ snapshots = 0

Top(c) == \A i \in DOMAIN results : results[i] = c => \A j \in DOMAIN results :
             j > i => results[j] \in drags

\* A finger goes down on a card that no card at rest covers.
BeginDrag(c) ==
    /\ shown /\ cards
    /\ c \in Range(results) \ drags
    /\ Top(c)
    /\ Cardinality(drags) < Fingers
    /\ drags' = drags \cup {c}
    /\ disturbed' = (disturbed \/ drags # {})
    /\ UNCHANGED <<list, results, cards, liked, judged, shown, clock, snapshots>>

\* Mutant of CancelDrag: the parent view is rendered again.
CancelDragRenders(c) ==
    /\ c \in drags
    /\ drags' = drags \ {c}
    /\ elapsed' = FALSE
    /\ UNCHANGED <<list, results, cards, liked, judged, disturbed, shown, timeRemaining,
                   ended, snapshots>>

\* The card was not moved far enough and goes back.  Only the card is rendered.
CancelDrag(c) ==
    /\ c \in drags
    /\ drags' = drags \ {c}
    /\ UNCHANGED <<list, results, cards, liked, judged, disturbed, shown, clock, snapshots>>

\* Mutant of removeTopCard: it removes two cards.
removeTwoCards(s) == SubSeq(s, 1, Len(s) - 2)

removeTopCard(s) == SubSeq(s, 1, Len(s) - 1)

\* The card was swiped to one side.  The views of the cards that are no longer
\* on the stack are gone, and with them their gestures: only a card of the stack
\* can be swiped, so removeLast() finds a card.
Swipe(c, right) ==
    /\ c \in drags
    /\ liked' = IF right THEN liked \cup {c} ELSE liked
    /\ judged' = judged \cup {c}
    /\ results' = removeTopCard(results)
    /\ drags' = (drags \ {c}) \cap Range(results')
    /\ elapsed' = FALSE
    /\ UNCHANGED <<list, cards, disturbed, shown, timeRemaining, ended, snapshots>>

\* A snapshot of the live session: its list replaces the stack.
SnapshotLive(l) ==
    /\ shown /\ ~ended /\ snapshots < MaxSnapshots
    /\ list' = l
    /\ results' = l
    /\ drags' = drags \cap Range(l)
    /\ disturbed' = (disturbed \/ (l # list /\ drags # {}))
    /\ elapsed' = FALSE
    /\ snapshots' = snapshots + 1
    /\ UNCHANGED <<cards, liked, judged, shown, timeRemaining, ended>>

\* A snapshot of the finished session: the view goes away.
SnapshotFinished ==
    /\ shown /\ ended
    /\ shown' = FALSE
    /\ drags' = {}
    /\ UNCHANGED <<list, results, cards, liked, judged, disturbed, clock, snapshots>>

\* A second has passed since the timer was made or last fired.
Elapse ==
    /\ shown /\ ~elapsed
    /\ elapsed' = TRUE
    /\ UNCHANGED <<deck, shown, timeRemaining, ended, snapshots>>

\* Mutant of Tick: the seconds are counted below zero.
TickBelowZero ==
    /\ shown /\ elapsed
    /\ elapsed' = FALSE
    /\ timeRemaining' = timeRemaining - 1
    /\ ended' = (ended \/ timeRemaining' = 0)
    /\ UNCHANGED <<deck, shown, snapshots>>

\* onReceive(timer)
Tick ==
    /\ shown /\ elapsed
    /\ elapsed' = FALSE
    /\ timeRemaining' = IF timeRemaining > 0 THEN timeRemaining - 1 ELSE timeRemaining
    /\ ended' = (ended \/ timeRemaining' = 0)
    /\ UNCHANGED <<deck, shown, snapshots>>

\* The creator taps Finish Session.
Finish ==
    /\ shown /\ ~ended
    /\ ended' = TRUE
    /\ UNCHANGED <<deck, shown, timeRemaining, elapsed, snapshots>>

Next == \/ \E c \in Cards : BeginDrag(c) \/ CancelDrag(c)
        \/ \E c \in Cards, right \in BOOLEAN : Swipe(c, right)
        \/ \E l \in Lists : SnapshotLive(l)
        \/ SnapshotFinished
        \/ Elapse \/ Tick
        \/ Finish

Spec == Init /\ [][Next]_vars

\* Time passes, the run loop fires the timer, and a finished session is heard of.
FairSpec == Spec /\ WF_vars(Elapse) /\ WF_vars(Tick) /\ WF_vars(SnapshotFinished)

------------------------------------------------------------------------------

TypeOK == /\ list \in Lists
          /\ results \in Seq(Cards)
          /\ shown \in BOOLEAN /\ cards \in BOOLEAN
          /\ drags \subseteq Cards
          /\ liked \subseteq judged /\ judged \subseteq Cards
          /\ disturbed \in BOOLEAN
          /\ timeRemaining \in 0 .. Seconds
          /\ elapsed \in BOOLEAN /\ ended \in BOOLEAN
          /\ snapshots \in 0 .. MaxSnapshots

\* Every restaurant of the list is on the stack or was judged by the user, even
\* though removeTopCard takes the last card and not the one that was swiped
\* (SessionStore.swift:35-37), and snapshots put cards back during a drag: unless
\* two fingers were down at once or another list arrived during a drag.
NoCardLost == ~disturbed => Range(list) \subseteq Range(results) \cup judged

\* The countdown reaches zero or is cut short, and the screen goes away: swipes
\* and snapshots start its second over (LiveSession.swift:20), but only so many
\* of them can happen.
CountdownEnds == <>~shown
==============================================================================
