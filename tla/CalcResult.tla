------------------------------ MODULE CalcResult ------------------------------
(***************************************************************************)
(* SessionStore.calcResult(), step by step: collect the members' liked     *)
(* sets in the order in which Swift iterates the dictionary (any order),   *)
(* intersect strings[0] with every element of a copy of the array, pick a  *)
(* random element.  The write of the selection is SessionStore's business; *)
(* here it is the value the function ends with.                            *)
(***************************************************************************)
EXTENDS Likes, Naturals, Sequences

VARIABLES likes,      \* self.likes, the argument
          pc,         \* "collect", "intersect", "done" or "trap"
          seen,       \* the dictionary keys already iterated
          strings,    \* the local array of sets
          iterated,   \* the copy of strings that the second loop iterates
          next,       \* index of the next element of iterated
          selection   \* the value written as "result"

vars == <<likes, pc, seen, strings, iterated, next, selection>>

Init == /\ likes \in LikesMaps
        /\ pc = "collect"
        /\ seen = {}
        /\ strings = <<>>
        /\ iterated = <<>>
        /\ next = 1
        /\ selection = ErrorResult

\* for (_, values) in likes { strings.append(Set(values)) }
Collect == /\ pc = "collect"
           /\ \E u \in DOMAIN likes \ seen :
                 /\ strings' = Append(strings, likes[u])
                 /\ seen' = seen \cup {u}
           /\ UNCHANGED <<likes, pc, iterated, next, selection>>

\* The head of the second loop: a for-in loop iterates a copy of the array.
StartIntersect == /\ pc = "collect"
                  /\ seen = DOMAIN likes
                  /\ pc' = "intersect"
                  /\ iterated' = strings
                  /\ UNCHANGED <<likes, seen, strings, next, selection>>

\* Mutant of Intersect: union instead of intersection.
IntersectUnion == /\ pc = "intersect"
                  /\ next <= Len(iterated)
                  /\ strings' = [strings EXCEPT ![1] = @ \cup iterated[next]]
                  /\ next' = next + 1
                  /\ UNCHANGED <<likes, pc, seen, iterated, selection>>

\* for string in strings { strings[0] = strings[0].intersection(string) }
Intersect == /\ pc = "intersect"
             /\ next <= Len(iterated)
             /\ strings' = [strings EXCEPT ![1] = @ \cap iterated[next]]
             /\ next' = next + 1
             /\ UNCHANGED <<likes, pc, seen, iterated, selection>>

\* Mutant of Pick: the set is written instead of one of its elements.
PickSet == /\ pc = "intersect"
           /\ next = Len(iterated) + 1
           /\ strings # <<>>
           /\ pc' = "done"
           /\ selection' = strings[1]
           /\ UNCHANGED <<likes, seen, strings, iterated, next>>

\* let selection = strings[0].randomElement() ?? "Error"
Pick == /\ pc = "intersect"
        /\ next = Len(iterated) + 1
        /\ strings # <<>>
        /\ pc' = "done"
        /\ IF strings[1] = {}
           THEN selection' = ErrorResult
           ELSE selection' \in strings[1]
        /\ UNCHANGED <<likes, seen, strings, iterated, next>>

\* Mutant of Trap: randomElement() is unwrapped instead of falling back to "Error".
TrapOnEmpty == /\ pc = "intersect"
               /\ strings # <<>> => next = Len(iterated) + 1 /\ strings[1] = {}
               /\ pc' = "trap"
               /\ UNCHANGED <<likes, seen, strings, iterated, next, selection>>

\* strings[0] of an empty array stops the program.
Trap == /\ pc = "intersect"
        /\ strings = <<>>
        /\ pc' = "trap"
        /\ UNCHANGED <<likes, seen, strings, iterated, next, selection>>

Next == Collect \/ StartIntersect \/ Intersect \/ Pick \/ Trap

Spec == Init /\ [][Next]_vars

------------------------------------------------------------------------------

TypeOK == /\ likes \in LikesMaps
          /\ pc \in {"collect", "intersect", "done", "trap"}
          /\ seen \in SUBSET Users
          /\ strings \in Seq(SUBSET Restaurants)
          /\ iterated \in Seq(SUBSET Restaurants)
          /\ next \in Nat \ {0}
          /\ selection \in Restaurants \cup {ErrorResult}

\* Whatever the order of the dictionary, calcResult ends with a restaurant that
\* every member likes, and with "Error" exactly when there is none
\* (SessionStore.swift:106-117).
PicksConsensus == pc = "done" => selection \in Selections(likes)

\* The array is empty where calcResult reads strings[0] only when the likes map
\* has no key at all (SessionStore.swift:117).
TrapsOnlyWithoutMembers == pc = "trap" => DOMAIN likes = {}
==============================================================================
