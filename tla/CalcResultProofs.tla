--------------------------- MODULE CalcResultProofs ---------------------------
(***************************************************************************)
(* Proofs about calcResult(), for every set of participants and every set  *)
(* of restaurants: it is type correct, it selects a restaurant that every  *)
(* member likes or "Error" when there is none, and it traps only on a likes*)
(* map without keys.                                                       *)
(***************************************************************************)
EXTENDS CalcResult, SequenceTheorems, TLAPS

\* The array s holds the liked sets of the users in S, and nothing else.
Holds(s, S) == /\ \A i \in 1 .. Len(s) : \E u \in S : s[i] = likes[u]
               /\ \A u \in S : \E i \in 1 .. Len(s) : s[i] = likes[u]

\* The invariant of the first loop.
Collecting == pc = "collect" => /\ seen \subseteq DOMAIN likes
                                /\ Holds(strings, seen)
                                /\ next = 1

\* The invariant of the second loop: strings[0] is what its first value has in
\* common with the elements already iterated.
Intersecting ==
    pc # "collect" =>
        /\ Holds(iterated, DOMAIN likes)
        /\ Len(strings) = Len(iterated)
        /\ next <= Len(iterated) + 1
        /\ strings # <<>> =>
             strings[1] = {r \in iterated[1] : \A j \in 1 .. next - 1 : r \in iterated[j]}

LoopInv == /\ TypeOK
           /\ Collecting
           /\ Intersecting
           /\ PicksConsensus
           /\ TrapsOnlyWithoutMembers

------------------------------------------------------------------------------

\* The liked set of a member is a set of restaurants.
LEMMA LikesMapsApply ==
    ASSUME NEW m \in LikesMaps, NEW u \in DOMAIN m
    PROVE  m[u] \in SUBSET Restaurants /\ u \in Users
  <1>1. PICK S \in SUBSET Users : m \in [S -> SUBSET Restaurants]
    BY DEF LikesMaps
  <1>. QED
    BY <1>1

\* When the second loop is over, strings[0] is exactly what all members like.
LEMMA LoopEnds ==
    ASSUME LoopInv, pc = "intersect", next = Len(iterated) + 1, strings # <<>>
    PROVE  strings[1] = Consensus(likes)
  <1>1. /\ Holds(iterated, DOMAIN likes)
        /\ Len(strings) = Len(iterated)
        /\ strings[1] = {r \in iterated[1] : \A j \in 1 .. next - 1 : r \in iterated[j]}
    BY DEF LoopInv, Intersecting
  <1>2. Len(iterated) \in Nat /\ Len(iterated) > 0
    BY <1>1 DEF LoopInv, TypeOK
  <1>3. strings[1] = {r \in iterated[1] : \A j \in 1 .. Len(iterated) : r \in iterated[j]}
    BY <1>1, <1>2
  <1>4. iterated[1] \in SUBSET Restaurants
    BY <1>2 DEF LoopInv, TypeOK
  <1>5. ASSUME NEW r \in strings[1]
        PROVE  r \in Consensus(likes)
    BY <1>1, <1>3, <1>4 DEF Holds, Consensus
  <1>6. ASSUME NEW r \in Consensus(likes)
        PROVE  r \in strings[1]
    <2>1. \A j \in 1 .. Len(iterated) : r \in iterated[j]
      BY <1>1, <1>6 DEF Holds, Consensus
    <2>. QED
      BY <2>1, <1>2, <1>3
  <1>. QED
    BY <1>5, <1>6

\* The loop invariant holds before the first iteration.
LEMMA LoopInvInit == Init => LoopInv
  <1>. SUFFICES ASSUME Init PROVE LoopInv
    OBVIOUS
  <1>1. Len(strings) = 0
    BY DEF Init
  <1>. QED
    BY <1>1 DEF Init, LoopInv, TypeOK, Collecting, Intersecting, Holds,
                PicksConsensus, TrapsOnlyWithoutMembers

\* Every step of calcResult preserves the loop invariant.
LEMMA LoopInvNext == LoopInv /\ [Next]_vars => LoopInv'
  <1>. SUFFICES ASSUME LoopInv, [Next]_vars
                PROVE  LoopInv'
    OBVIOUS
  <1>0. TypeOK /\ Collecting /\ Intersecting /\ PicksConsensus /\ TrapsOnlyWithoutMembers
    BY DEF LoopInv
  <1>1. CASE Collect
    <2>1. PICK u \in DOMAIN likes \ seen : /\ strings' = Append(strings, likes[u])
                                           /\ seen' = seen \cup {u}
      BY <1>1 DEF Collect
    <2>2. likes[u] \in SUBSET Restaurants /\ u \in Users
      BY <1>0, LikesMapsApply DEF TypeOK
    <2>3. TypeOK'
      BY <1>0, <1>1, <2>1, <2>2 DEF Collect, TypeOK
    <2>4. /\ Len(strings') = Len(strings) + 1
          /\ Len(strings) \in Nat
          /\ \A i \in 1 .. Len(strings) : strings'[i] = strings[i]
          /\ strings'[Len(strings) + 1] = likes[u]
      BY <1>0, <2>1, <2>2, AppendProperties DEF TypeOK
    <2>5. seen \subseteq DOMAIN likes /\ Holds(strings, seen) /\ next = 1
      BY <1>0, <1>1 DEF Collect, Collecting
    <2>6. Holds(strings', seen')
      BY <2>1, <2>4, <2>5 DEF Holds
    <2>7. Collecting'
      BY <1>1, <2>1, <2>5, <2>6 DEF Collect, Collecting, Holds
    <2>. QED
      BY <1>1, <2>3, <2>7
         DEF Collect, LoopInv, Intersecting, PicksConsensus, TrapsOnlyWithoutMembers
  <1>2. CASE StartIntersect
    <2>1. TypeOK'
      BY <1>0, <1>2 DEF StartIntersect, TypeOK
    <2>2. Holds(strings, DOMAIN likes) /\ next = 1 /\ Len(strings) \in Nat
      BY <1>0, <1>2 DEF StartIntersect, Collecting, TypeOK
    <2>3. Intersecting'
      BY <1>2, <2>2 DEF StartIntersect, Intersecting, Holds
    <2>. QED
      BY <1>2, <2>1, <2>3
         DEF StartIntersect, LoopInv, Collecting, PicksConsensus, TrapsOnlyWithoutMembers
  <1>3. CASE Intersect
    <2>1. /\ Holds(iterated, DOMAIN likes)
          /\ Len(strings) = Len(iterated)
          /\ next \in 1 .. Len(iterated)
          /\ Len(iterated) \in Nat
      BY <1>0, <1>3 DEF Intersect, Intersecting, TypeOK
    <2>2. 1 \in 1 .. Len(strings) /\ strings # <<>>
      BY <2>1, <1>0 DEF TypeOK
    <2>3. /\ iterated[next] \in SUBSET Restaurants
          /\ strings[1] \in SUBSET Restaurants
      BY <1>0, <2>1, <2>2 DEF TypeOK
    <2>4. strings[1] \cap iterated[next] \in SUBSET Restaurants
      BY <2>3
    <2>5. /\ strings' \in Seq(SUBSET Restaurants)
          /\ Len(strings') = Len(strings)
          /\ strings'[1] = strings[1] \cap iterated[next]
      BY <1>0, <1>3, <2>2, <2>4, ExceptSeq, Z3 DEF TypeOK, Intersect
    <2>6. TypeOK'
      BY <1>0, <1>3, <2>5 DEF Intersect, TypeOK
    <2>7. strings[1] = {r \in iterated[1] : \A j \in 1 .. next - 1 : r \in iterated[j]}
      BY <1>0, <1>3, <2>2 DEF Intersect, Intersecting
    <2>8. strings'[1] = {r \in iterated[1] : \A j \in 1 .. next'- 1 : r \in iterated[j]}
      <3>1. next' = next + 1 /\ next \in Nat
        BY <1>3, <2>1 DEF Intersect
      <3>2. 1 .. next' - 1 = (1 .. next - 1) \cup {next}
        <4>1. next \in 1 .. Len(iterated) /\ Len(iterated) \in Nat
          BY <2>1
        <4>2. next' - 1 = next
          BY <3>1
        <4>3. 1 .. next = (1 .. next - 1) \cup {next}
          BY <4>1
        <4>. QED
          BY <4>2, <4>3
      <3>. QED
        BY <2>5, <2>7, <3>2, Zenon
    <2>9. Intersecting'
      BY <1>3, <2>1, <2>5, <2>8 DEF Intersect, Intersecting, Holds
    <2>. QED
      BY <1>3, <2>6, <2>9
         DEF Intersect, LoopInv, Collecting, PicksConsensus, TrapsOnlyWithoutMembers
  <1>4. CASE Pick
    <2>1. strings[1] = Consensus(likes)
      BY <1>4, LoopEnds DEF Pick
    <2>2. selection' \in Selections(likes)
      BY <1>4, <2>1 DEF Pick, Selections
    <2>3. TypeOK'
      BY <1>0, <1>4, <2>2 DEF Pick, TypeOK, Selections, Consensus
    <2>4. Intersecting'
      BY <1>0, <1>4 DEF Pick, Intersecting, Holds
    <2>. QED
      BY <1>4, <2>2, <2>3, <2>4
         DEF Pick, LoopInv, Collecting, PicksConsensus, TrapsOnlyWithoutMembers
  <1>5. CASE Trap
    <2>1. TypeOK' /\ Intersecting'
      BY <1>0, <1>5 DEF Trap, TypeOK, Intersecting, Holds
    <2>2. Holds(iterated, DOMAIN likes) /\ Len(iterated) = 0
      BY <1>0, <1>5 DEF Trap, Intersecting, TypeOK
    <2>3. DOMAIN likes = {}
      <3>1. \A u \in DOMAIN likes : \E i \in 1 .. 0 : iterated[i] = likes[u]
        BY <2>2, Zenon DEF Holds
      <3>2. \A i \in 1 .. 0 : FALSE
        OBVIOUS
      <3>. QED
        BY <3>1, <3>2, Zenon
    <2>. QED
      BY <1>5, <2>1, <2>3
         DEF Trap, LoopInv, Collecting, PicksConsensus, TrapsOnlyWithoutMembers
  <1>6. CASE UNCHANGED vars
    BY <1>0, <1>6 DEF vars, LoopInv, TypeOK, Collecting, Intersecting, Holds,
                      PicksConsensus, TrapsOnlyWithoutMembers
  <1>. QED
    BY <1>1, <1>2, <1>3, <1>4, <1>5, <1>6 DEF Next

\* The loop invariant is an invariant.
LEMMA LoopInvariant == Spec => []LoopInv
  BY LoopInvInit, LoopInvNext, PTL DEF Spec

\* calcResult keeps the types of its variables (SessionStore.swift:104-122).
THEOREM TypeCorrect == Spec => []TypeOK
  <1>1. LoopInv => TypeOK
    BY DEF LoopInv
  <1>. QED
    BY <1>1, LoopInvariant, PTL

\* calcResult ends with a restaurant that every member likes, and with "Error"
\* exactly when there is none (SessionStore.swift:106-117).
THEOREM ResultCorrect == Spec => []PicksConsensus
  <1>1. LoopInv => PicksConsensus
    BY DEF LoopInv
  <1>. QED
    BY <1>1, LoopInvariant, PTL

\* calcResult traps on strings[0] only when the likes map has no key
\* (SessionStore.swift:117).
THEOREM TrapCorrect == Spec => []TrapsOnlyWithoutMembers
  <1>1. LoopInv => TrapsOnlyWithoutMembers
    BY DEF LoopInv
  <1>. QED
    BY <1>1, LoopInvariant, PTL
==============================================================================
