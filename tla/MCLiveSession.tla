---------------------------- MODULE MCLiveSession ----------------------------
(***************************************************************************)
(* LiveSession.tla for TLC: three restaurants, in two lists that share two *)
(* of them, and the empty list of a search that found nothing.             *)
(***************************************************************************)
EXTENDS LiveSession

CONSTANTS a, b, c

TwoLists == {<<a, b, c>>, <<c, a>>, <<>>}
==============================================================================
