----------------------------- MODULE SessionSpec -----------------------------
(***************************************************************************)
(* What one dining session promises while nobody walks away from it, with  *)
(* no devices, queues or caches in it: people gather, the creator starts,  *)
(* the time is over, everybody hands in the final likes once, and a        *)
(* restaurant is decided on from likes that were handed in.                *)
(*                                                                         *)
(* Two things a reader may expect are not promised, because the program    *)
(* does not keep them: that everybody's likes count (somebody may join     *)
(* after the decision was computed), and that the decision is made once.   *)
(* LateSpec is what remains when devices decide on an outdated view: a     *)
(* decided restaurant was handed in, but "Error" says nothing.             *)
(* Refinement.tla maps the session protocol to these specifications.       *)
(***************************************************************************)
EXTENDS Likes

CONSTANT NoResult  \* nothing has been decided

VARIABLES phase,     \* "none", "gathering", "live" or "finished"
          members,   \* who has joined, the creator included
          final,     \* the likes handed in, by member
          decision   \* the restaurant, ErrorResult or NoResult

vars == <<phase, members, final, decision>>

Init == /\ phase = "none"
        /\ members = {}
        /\ final = NoLikes
        /\ decision = NoResult

Create(u) == /\ phase = "none"
             /\ phase' = "gathering"
             /\ members' = {u}
             /\ UNCHANGED <<final, decision>>

\* Joining is possible at any time.
Join(u) == /\ phase # "none"
           /\ u \notin members
           /\ members' = members \cup {u}
           /\ UNCHANGED <<phase, final, decision>>

Start == /\ phase = "gathering"
         /\ phase' = "live"
         /\ UNCHANGED <<members, final, decision>>

Finish == /\ phase = "live"
          /\ phase' = "finished"
          /\ UNCHANGED <<members, final, decision>>

\* A member hands in the likes, once and for all.
HandIn(u, liked) == /\ phase = "finished"
                    /\ u \in members \ DOMAIN final
                    /\ final' = SetLikes(final, u, liked)
                    /\ UNCHANGED <<phase, members, decision>>

\* A restaurant that some members have in common, and all of them handed in.
Decide(r) == /\ phase = "finished"
             /\ \E S \in SUBSET DOMAIN final :
                   S # {} /\ r \in Selections([u \in S |-> final[u]])
             /\ decision' = r
             /\ UNCHANGED <<phase, members, final>>

Next == \/ \E u \in Users : Create(u) \/ Join(u)
        \/ Start \/ Finish
        \/ \E u \in Users, liked \in SUBSET Restaurants : HandIn(u, liked)
        \/ \E r \in Restaurants \cup {ErrorResult} : Decide(r)

Spec == Init /\ [][Next]_vars

------------------------------------------------------------------------------
(* The same with decisions computed from an outdated view: whoever decides may  *)
(* have seen likes that were not final yet.                                     *)

\* The likes seen had nothing in common; those handed in may have.
GiveUp == /\ phase = "finished"
          /\ DOMAIN final # {}
          /\ decision' = ErrorResult
          /\ UNCHANGED <<phase, members, final>>

LateNext == Next \/ GiveUp

LateSpec == Init /\ [][LateNext]_vars
==============================================================================
