------------------------------ MODULE Refinement ------------------------------
(***************************************************************************)
(* The session protocol implements SessionSpec.tla: the document of a      *)
(* session, as the server has it, goes through the phases of an abstract   *)
(* session while nobody goes back, quits or signs out.                     *)
(***************************************************************************)
EXTENDS SessionProperties

CONSTANT Code  \* the session that is looked at

ASSUME CodeAssumption == Code \in Codes

Phase == CASE server[Code] = NoDoc -> "none"
           [] server[Code] # NoDoc /\ server[Code].finished -> "finished"
           [] server[Code] # NoDoc /\ ~server[Code].finished /\ server[Code].live -> "live"
           [] OTHER -> "gathering"

Members == IF server[Code] = NoDoc THEN {} ELSE DOMAIN server[Code].likes

\* The members whose final likes the server has.
HandedIn == {u \in Members : store[u].pushed /\ ~HasPending(u, "push")}

Final == [u \in HandedIn |-> server[Code].likes[u]]

Decision == IF server[Code] = NoDoc THEN NoResult ELSE server[Code].result

Session == INSTANCE SessionSpec WITH
    phase <- Phase, members <- Members, final <- Final, decision <- Decision

\* Every step of the protocol is a step of the abstract session or changes nothing
\* of it: a member's likes reach the document once, after the session was finished,
\* and stay as they are.  A device's view of the document mixes the likes that the
\* server sent with writes of its own that the server has executed but not answered,
\* so calcResult() may miss what everybody likes: the result is a restaurant that
\* somebody handed in, or "Error" (SessionStore.swift:97-140 and 186-197).
ImplementsLate == Session!LateSpec
===============================================================================
