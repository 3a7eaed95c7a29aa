-------------------------------- MODULE Likes --------------------------------
(***************************************************************************)
(* The likes of a Dinder session: the map "likes" of a session document,   *)
(* from a participant's uid to the names of the restaurants that the       *)
(* participant liked.  A Swift [String: [String]] is a function whose      *)
(* domain is the set of its keys.  The array of names is modelled by the   *)
(* set of its elements: its only reader, SessionStore.calcResult, turns it *)
(* into a Set first.                                                       *)
(***************************************************************************)

CONSTANTS Users,        \* the participants' uids
          Restaurants,  \* restaurant names
          ErrorResult   \* the string "Error" that calcResult falls back to

ASSUME ErrorAssumption == ErrorResult \notin Restaurants

LikesMaps == UNION {[S -> SUBSET Restaurants] : S \in SUBSET Users}

NoLikes == [u \in {} |-> {}]

\* likes["uid"] = liked
SetLikes(likes, u, liked) ==
    [v \in DOMAIN likes \cup {u} |-> IF v = u THEN liked ELSE likes[v]]

\* "likes.uid": FieldValue.delete()
DropLikes(likes, u) == [v \in DOMAIN likes \ {u} |-> likes[v]]

\* What every member likes.
Consensus(likes) ==
    {r \in Restaurants : \A u \in DOMAIN likes : r \in likes[u]}

\* What calcResult may write as the result: strings[0].randomElement() ?? "Error"
\* after strings[0] has become the intersection of all the members' sets.
Selections(likes) ==
    IF Consensus(likes) = {} THEN {ErrorResult} ELSE Consensus(likes)
==============================================================================
