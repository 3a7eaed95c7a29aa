------------------------------ MODULE MCSession ------------------------------
(***************************************************************************)
(* SessionStore.tla for TLC: a host h and a guest g, and how often each of *)
(* them does the bounded things in the different runs.                     *)
(***************************************************************************)
EXTENDS Refinement, TLC

CONSTANTS h, g

\* The limits given by f; nothing else happens.
AtMost(f) == [k \in Kinds |-> IF k \in DOMAIN f THEN f[k] ELSE 0]

Pair(host, guest) == (h :> AtMost(host)) @@ (g :> AtMost(guest))

\* One round of the app, nobody goes away.
RoundLimit == Pair([create |-> 1, start |-> 1, end |-> 1], [join |-> 1, end |-> 1])

\* Nobody starts; sessions are created, joined, deleted and created again, and the
\* guest is signed out and in.
LobbyLimit == Pair([create |-> 2, back |-> 1], [join |-> 1, sign |-> 1])

\* A user alone, now as a creator and now as a participant, who goes back, closes
\* the app and loses the connection, at any moment.
AloneLimit == h :> AtMost([create |-> 1, join |-> 1, start |-> 1, end |-> 1,
                           back |-> 1, quit |-> 1, offline |-> 1])

\* A user alone goes through two sessions.
SecondLimit == h :> AtMost([create |-> 2, start |-> 2, end |-> 2, back |-> 1])

\* The guest's connection fails once, at any moment.
OfflineLimit == Pair([create |-> 1, start |-> 1, end |-> 1], [join |-> 1, offline |-> 1])

\* The guest may go back to the home screen once, at any moment.
DepartLimit == Pair([create |-> 1, start |-> 1, end |-> 1], [join |-> 1, end |-> 1, back |-> 1])
==============================================================================
