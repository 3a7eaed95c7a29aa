-------------------------- MODULE LiveSessionProofs --------------------------
(***************************************************************************)
(* Type correctness of the swiping screen, and that no card is lost, for   *)
(* all lists, any length of the countdown and any number of fingers and    *)
(* snapshots.                                                              *)
(***************************************************************************)
EXTENDS LiveSession, SequenceTheorems, TLAPS

\* The stack is an initial part of the list, and only its cards are dragged.
StackOfList == /\ Len(results) <= Len(list)
               /\ \A i \in 1 .. Len(results) : results[i] = list[i]
               /\ drags \subseteq Range(results)

\* While nothing has disturbed the screen one finger is down at most, the cards
\* that left the stack were judged, and so were all the cards that lie above the
\* one that is dragged, also those that a snapshot has put back.
JudgedAbove ==
    ~disturbed =>
       /\ \A c, d \in drags : c = d
       /\ \A i \in DOMAIN list : i > Len(results) => list[i] \in judged
       /\ \A i, j \in DOMAIN list : list[i] \in drags /\ j > i => list[j] \in judged

IInv == TypeOK /\ StackOfList /\ JudgedAbove

------------------------------------------------------------------------------

\* A list is a sequence of cards, and no card is in it twice.
LEMMA ListType ==
    ASSUME NEW l \in Lists
    PROVE  /\ l \in Seq(Cards) /\ Len(l) \in Nat /\ DOMAIN l = 1 .. Len(l)
           /\ Range(l) \subseteq Cards
           /\ \A i, j \in DOMAIN l : l[i] = l[j] => i = j
<1>1. l \in Seq(Cards) /\ IsInjective(l)
  BY LiveAssumption
<1>2. Range(l) \subseteq Cards
  BY DEF Cards
<1> QED
  BY <1>1, <1>2 DEF IsInjective

\* Taking the top card off leaves the cards below it.
LEMMA TopRemoved ==
    ASSUME NEW S, NEW s \in Seq(S), s # <<>>
    PROVE  /\ removeTopCard(s) \in Seq(S)
           /\ Len(removeTopCard(s)) = Len(s) - 1
           /\ \A i \in 1 .. Len(s) - 1 : removeTopCard(s)[i] = s[i]
<1>1. Len(s) \in Nat /\ Len(s) > 0
  BY EmptySeq
<1>2. \A i \in 1 .. Len(s) - 1 : s[i] \in S
  BY <1>1
<1>3. /\ SubSeq(s, 1, Len(s) - 1) \in Seq(S)
      /\ Len(SubSeq(s, 1, Len(s) - 1)) = IF 1 <= Len(s) - 1 THEN (Len(s) - 1) - 1 + 1 ELSE 0
      /\ \A i \in 1 .. (Len(s) - 1) - 1 + 1 : SubSeq(s, 1, Len(s) - 1)[i] = s[1 + i - 1]
  BY <1>1, <1>2, SubSeqProperties
<1>4. removeTopCard(s) = SubSeq(s, 1, Len(s) - 1)
  BY DEF removeTopCard
<1>5. (IF 1 <= Len(s) - 1 THEN (Len(s) - 1) - 1 + 1 ELSE 0) = Len(s) - 1
  <2>1. \A n \in Nat : n > 0 => (IF 1 <= n - 1 THEN (n - 1) - 1 + 1 ELSE 0) = n - 1
    OBVIOUS
  <2> QED
    BY ONLY <1>1, <2>1, Zenon
<1>6. (Len(s) - 1) - 1 + 1 = Len(s) - 1 /\ \A i \in 1 .. Len(s) - 1 : 1 + i - 1 = i
  BY <1>1
<1> QED
  BY ONLY <1>3, <1>4, <1>5, <1>6, Zenon

LEMMA IInvInit == Init => IInv
<1> SUFFICES ASSUME Init PROVE IInv
  OBVIOUS
<1>1. list \in Lists /\ results = list /\ drags = {}
  BY DEF Init
<1>2. list \in Seq(Cards) /\ Len(list) \in Nat /\ DOMAIN list = 1 .. Len(list)
  BY <1>1, ListType
<1>3. TypeOK
  <2>1. cards \in BOOLEAN /\ shown \in BOOLEAN /\ elapsed \in BOOLEAN /\ ended \in BOOLEAN
        /\ disturbed \in BOOLEAN
    BY Zenon DEF Init
  <2>2. timeRemaining \in 0 .. Seconds /\ snapshots \in 0 .. MaxSnapshots
    BY LiveAssumption DEF Init
  <2>3. liked \subseteq judged /\ judged \subseteq Cards /\ drags \subseteq Cards
    BY DEF Init
  <2> QED
    BY <1>1, <1>2, <2>1, <2>2, <2>3 DEF TypeOK
<1>4. StackOfList /\ JudgedAbove
  BY <1>1, <1>2 DEF StackOfList, JudgedAbove
<1> QED
  BY <1>3, <1>4 DEF IInv

\* A finger goes down on the last card of the stack, or it is the second one.
LEMMA BeginDragStep ==
    ASSUME IInv, NEW c \in Cards, BeginDrag(c)
    PROVE  IInv'
<1>1. /\ list \in Lists /\ results \in Seq(Cards) /\ StackOfList /\ JudgedAbove
      /\ Len(results) \in Nat /\ DOMAIN results = 1 .. Len(results)
  BY DEF IInv, TypeOK
<1>2. /\ c \in Range(results) /\ Top(c) /\ drags' = drags \cup {c}
      /\ disturbed' = (disturbed \/ drags # {})
      /\ UNCHANGED <<list, results, cards, liked, judged, shown, timeRemaining, elapsed,
                     ended, snapshots>>
  BY DEF BeginDrag, clock
<1>3. PICK k \in 1 .. Len(results) : results[k] = c
  BY <1>1, <1>2 DEF Range
<1>4. TypeOK'
  BY <1>2 DEF IInv, TypeOK
<1>5. StackOfList'
  BY <1>1, <1>2 DEF StackOfList
<1>6. JudgedAbove'
  <2>1. CASE drags # {} \/ disturbed
    BY <1>2, <2>1 DEF JudgedAbove
  <2>2. CASE drags = {} /\ ~disturbed
    <3>1. k = Len(results)
      <4>1. k \in DOMAIN results /\ Len(results) \in DOMAIN results
        BY <1>1, <1>3
      <4>2. Len(results) > k => results[Len(results)] \in drags
        BY <1>2, <1>3, <4>1, Zenon DEF Top
      <4>3. ~(Len(results) > k)
        BY <2>2, <4>2, Zenon
      <4>4. Len(results) \in Nat
        BY <1>1
      <4> QED
        BY ONLY <4>3, <4>4, k \in 1 .. Len(results)
    <3>2. \A i \in DOMAIN list : list[i] = c => i = k
      <4>1. k \in DOMAIN list /\ list[k] = c
        BY <1>1, <1>3, ListType DEF StackOfList
      <4> QED
        BY <4>1, <1>1, ListType
    <3>3. DOMAIN list = 1 .. Len(list) /\ Len(list) \in Nat
      BY <1>1, ListType
    <3>4. ASSUME NEW i \in DOMAIN list, NEW j \in DOMAIN list, list[i] \in drags', j > i
          PROVE  list[j] \in judged
      BY <1>1, <1>2, <2>2, <3>1, <3>2, <3>3, <3>4 DEF JudgedAbove
    <3>5. \A x, y \in drags' : x = y
      BY <1>2, <2>2
    <3>6. \A i \in DOMAIN list : i > Len(results) => list[i] \in judged
      BY <1>1, <2>2 DEF JudgedAbove
    <3> QED
      BY <1>2, <3>4, <3>5, <3>6 DEF JudgedAbove
  <2> QED
    BY <2>1, <2>2
<1> QED
  BY <1>4, <1>5, <1>6 DEF IInv

LEMMA CancelDragStep ==
    ASSUME IInv, NEW c \in Cards, CancelDrag(c)
    PROVE  IInv'
<1>1. /\ drags' = drags \ {c}
      /\ UNCHANGED <<list, results, cards, liked, judged, disturbed, shown, timeRemaining,
                     elapsed, ended, snapshots>>
  BY DEF CancelDrag, clock
<1> QED
  BY <1>1 DEF IInv, TypeOK, StackOfList, JudgedAbove

\* The card that leaves the stack is the one that was swiped, or lies above it and
\* was judged before.
LEMMA SwipeStep ==
    ASSUME IInv, NEW c \in Cards, NEW right \in BOOLEAN, Swipe(c, right)
    PROVE  IInv'
<1>1. /\ list \in Lists /\ results \in Seq(Cards) /\ StackOfList /\ JudgedAbove /\ TypeOK
      /\ Len(results) \in Nat /\ DOMAIN results = 1 .. Len(results)
  BY DEF IInv, TypeOK
<1>2. DOMAIN list = 1 .. Len(list) /\ Len(list) \in Nat
  BY <1>1, ListType
<1>3. /\ c \in drags
      /\ judged' = judged \cup {c}
      /\ results' = removeTopCard(results)
      /\ drags' = (drags \ {c}) \cap Range(results')
      /\ elapsed' = FALSE
      /\ UNCHANGED <<list, cards, disturbed, shown, timeRemaining, ended, snapshots>>
  BY DEF Swipe
<1>4. liked' \subseteq judged'
  BY <1>1, <1>3 DEF Swipe, TypeOK
<1>5. PICK k \in 1 .. Len(results) : results[k] = c
  BY <1>1, <1>3 DEF Range, StackOfList
<1>6. /\ results' \in Seq(Cards)
      /\ Len(results') = Len(results) - 1
      /\ \A i \in 1 .. Len(results) - 1 : results'[i] = results[i]
  <2>1. results # <<>>
    BY <1>5
  <2> QED
    BY <1>1, <1>3, <2>1, TopRemoved
<1>7. TypeOK'
  BY <1>1, <1>3, <1>4, <1>6 DEF TypeOK
<1>8. StackOfList'
  BY <1>1, <1>2, <1>3, <1>6 DEF StackOfList
<1>9. JudgedAbove'
  <2> SUFFICES ASSUME ~disturbed
               PROVE  JudgedAbove'
    BY <1>3 DEF JudgedAbove
  <2>1. drags' = {}
    BY <1>1, <1>3 DEF JudgedAbove
  <2>2. ASSUME NEW i \in DOMAIN list, i > Len(results')
        PROVE  list[i] \in judged'
    <3>1. CASE i > Len(results)
      BY <1>1, <1>3, <3>1 DEF JudgedAbove
    <3>2. CASE i = Len(results) /\ i = k
      BY <1>1, <1>3, <1>5, <3>2 DEF StackOfList
    <3>3. CASE i = Len(results) /\ i > k
      <4>1. k \in DOMAIN list /\ list[k] \in drags
        BY <1>1, <1>2, <1>3, <1>5 DEF StackOfList
      <4> QED
        BY <1>1, <1>3, <3>3, <4>1 DEF JudgedAbove
    <3> QED
      BY <1>1, <1>2, <1>5, <1>6, <2>2, <3>1, <3>2, <3>3
  <2> QED
    BY <1>3, <2>1, <2>2 DEF JudgedAbove
<1> QED
  BY <1>7, <1>8, <1>9 DEF IInv

\* The whole list is on the stack again; the cards above a dragged one stay judged.
LEMMA SnapshotLiveStep ==
    ASSUME IInv, NEW l \in Lists, SnapshotLive(l)
    PROVE  IInv'
<1>1. /\ l \in Seq(Cards) /\ Len(l) \in Nat /\ DOMAIN l = 1 .. Len(l)
  BY ListType
<1>2. /\ list' = l /\ results' = l /\ drags' = drags \cap Range(l)
      /\ disturbed' = (disturbed \/ (l # list /\ drags # {}))
      /\ elapsed' = FALSE /\ snapshots < MaxSnapshots /\ snapshots' = snapshots + 1
      /\ UNCHANGED <<cards, liked, judged, shown, timeRemaining, ended>>
  BY DEF SnapshotLive
<1>3. TypeOK'
  <2>1. disturbed' \in BOOLEAN /\ elapsed' \in BOOLEAN
    BY <1>2, Zenon DEF IInv, TypeOK
  <2>2. snapshots' \in 0 .. MaxSnapshots
    BY <1>2, LiveAssumption DEF IInv, TypeOK
  <2> QED
    BY <1>1, <1>2, <2>1, <2>2 DEF IInv, TypeOK
<1>4. StackOfList'
  BY <1>1, <1>2 DEF StackOfList
<1>5. JudgedAbove'
  <2> SUFFICES ASSUME ~disturbed'
               PROVE  JudgedAbove'
    BY DEF JudgedAbove
  <2>1. ~disturbed /\ (l = list \/ drags = {}) /\ JudgedAbove
    BY <1>2 DEF IInv
  <2>2. \A c, d \in drags' : c = d
    BY <1>2, <2>1 DEF JudgedAbove
  <2>3. \A i \in DOMAIN l : ~(i > Len(l))
    BY <1>1
  <2>4. \A i, j \in DOMAIN l : l[i] \in drags' /\ j > i => l[j] \in judged
    BY <1>2, <2>1 DEF JudgedAbove
  <2> QED
    BY <1>2, <2>2, <2>3, <2>4 DEF JudgedAbove
<1> QED
  BY <1>3, <1>4, <1>5 DEF IInv

\* The clock and the end of the screen leave the cards alone.
LEMMA ClockStep ==
    ASSUME IInv, SnapshotFinished \/ Elapse \/ Tick \/ Finish
    PROVE  IInv'
<1>1. /\ UNCHANGED <<list, results, cards, liked, judged, disturbed, snapshots>>
      /\ drags' = drags \/ drags' = {}
  BY DEF SnapshotFinished, Elapse, Tick, Finish, deck
<1>2. shown' \in BOOLEAN /\ elapsed' \in BOOLEAN /\ ended' \in BOOLEAN
  BY DEF IInv, TypeOK, SnapshotFinished, Elapse, Tick, Finish, clock
<1>3. timeRemaining' \in 0 .. Seconds
  BY LiveAssumption DEF IInv, TypeOK, SnapshotFinished, Elapse, Tick, Finish, clock
<1>4. TypeOK'
  BY <1>1, <1>2, <1>3 DEF IInv, TypeOK
<1>5. StackOfList' /\ JudgedAbove'
  BY <1>1 DEF IInv, StackOfList, JudgedAbove
<1> QED
  BY <1>4, <1>5 DEF IInv

LEMMA Invariance == Spec => []IInv
<1>1. IInv /\ [Next]_vars => IInv'
  <2> SUFFICES ASSUME IInv, [Next]_vars
               PROVE  IInv'
    OBVIOUS
  <2>1. CASE UNCHANGED vars
    BY <2>1 DEF vars, IInv, TypeOK, StackOfList, JudgedAbove
  <2> QED
    BY <2>1, BeginDragStep, CancelDragStep, SwipeStep, SnapshotLiveStep, ClockStep DEF Next
<1> QED
  BY IInvInit, <1>1, PTL DEF Spec

------------------------------------------------------------------------------

\* The variables of the screen keep their types: in particular the countdown never
\* goes below zero, and only judged cards are liked.
THEOREM LiveTypeCorrect == Spec => []TypeOK
<1>1. IInv => TypeOK
  BY DEF IInv
<1> QED
  BY <1>1, Invariance, PTL

\* Whatever the lists, the fingers and the snapshots: unless two fingers were down
\* at once or another list arrived during a drag, every restaurant of the list is on
\* the stack or was judged (SessionStore.swift:35-37 removes the last card, not the
\* swiped one).
THEOREM LosesNoCard == Spec => []NoCardLost
<1>1. IInv => NoCardLost
  <2> SUFFICES ASSUME IInv, ~disturbed, NEW i \in DOMAIN list
               PROVE  list[i] \in Range(results) \cup judged
    BY DEF NoCardLost, Range
  <2>1. /\ DOMAIN list = 1 .. Len(list) /\ Len(list) \in Nat
        /\ DOMAIN results = 1 .. Len(results) /\ Len(results) \in Nat
    BY ListType DEF IInv, TypeOK
  <2>2. CASE i > Len(results)
    BY <2>2 DEF IInv, JudgedAbove
  <2>3. CASE i <= Len(results)
    BY <2>1, <2>3 DEF IInv, StackOfList, Range
  <2> QED
    BY <2>1, <2>2, <2>3
<1> QED
  BY <1>1, Invariance, PTL
==============================================================================
