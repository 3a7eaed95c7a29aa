------------------------------ MODULE Firestore ------------------------------
(***************************************************************************)
(* The "Sessions" collection of Cloud Firestore as Dinder uses it: the     *)
(* session documents, the writes that SessionStore issues, and the part of *)
(* the client SDK that sits between a device and the server.               *)
(*                                                                         *)
(* A device's SDK keeps                                                    *)
(*   user       whether the device's user is signed in;                    *)
(*   queue      the writes issued and not yet acknowledged, in order; the  *)
(*              user has one queue and nobody (signed out) another;        *)
(*   cache      per document, its last state known from the server;        *)
(*   acked      per document, whether the cache owes that state to an      *)
(*              acknowledgement and the server has not confirmed it yet;   *)
(*   listeners  per document, the number of snapshot listeners added;      *)
(*   fresh      how many of them still wait for their first snapshot;      *)
(*   link       how far listening to the document has come;                *)
(*   shown      per document listened to, what the listeners were told;    *)
(*   inbox      the callbacks dispatched to the main queue and not yet     *)
(*              run: snapshots and completions of writes, in order.        *)
(* The queues and the cache are on disk (persistence is on by default).    *)
(* The operators below are pure: each maps such a record to the next one.  *)
(* SessionStore.tla holds the record of every device in the variable dev.  *)
(***************************************************************************)
EXTENDS Likes, Integers, Sequences, FiniteSetsExt

CONSTANTS Codes,      \* session codes, the names of the documents
          NoDoc,      \* "there is no such document"
          Unknown,    \* "the cache knows nothing of this document"
          NoResult,   \* the empty string in the field "result"
          TimeLimits, \* the choices of the time-limit stepper, in minutes
          Radii       \* the choices of the radius stepper, in miles

ASSUME FirestoreAssumption == /\ NoResult \notin Restaurants \cup {ErrorResult}
                              /\ TimeLimits \subseteq Nat
                              /\ Radii \subseteq Nat

DefaultTime == 5
DefaultRadius == 25

Results == Restaurants \cup {NoResult, ErrorResult}

\* A session document.  Of the restaurant list only its presence matters here:
\* FALSE is the empty array of a new session, TRUE an uploaded list.
Docs == [participants : Int, live : BOOLEAN, likes : LikesMaps,
         result : Results, finished : BOOLEAN, restaurantList : BOOLEAN,
         finishedPushing : Int, time : Int, radius : Int]

ASSUME MissingAssumption == NoDoc \notin Docs /\ Unknown \notin Docs

Missing(d) == d \in {NoDoc, Unknown}

Ops == {"create", "join", "leave", "delete", "time", "radius", "start",
        "list", "end", "push", "result"}

\* A write and what has become of it.  num is the number that it stores as the
\* device shows it: a time, a radius, or a counter after its increment.  reply
\* is the server's answer, "seen" when the document sent to the device already
\* includes the write; counter is the counter in that answer.  handler tells
\* whether the process that issued it is still running, so that what the write
\* was issued with is still in memory.
Writes == [op : Ops, code : Codes, liked : SUBSET Restaurants,
           sel : Results, num : Int, handler : BOOLEAN,
           reply : {"none", "ok", "seen", "failed"}, counter : Int]

Write(op, c) ==
    [op |-> op, code |-> c, liked |-> {}, sel |-> NoResult, num |-> 0,
     handler |-> TRUE, reply |-> "none", counter |-> 0]

\* Mutant of NewDoc: the creator is not counted.
NewDocUncounted(u) ==
    [participants |-> 0, live |-> FALSE, likes |-> SetLikes(NoLikes, u, {}),
     result |-> NoResult, finished |-> FALSE, restaurantList |-> FALSE,
     finishedPushing |-> 0, time |-> DefaultTime, radius |-> DefaultRadius]

\* The document that createSession sets.
NewDoc(u) ==
    [participants |-> 1, live |-> FALSE, likes |-> SetLikes(NoLikes, u, {}),
     result |-> NoResult, finished |-> FALSE, restaurantList |-> FALSE,
     finishedPushing |-> 0, time |-> DefaultTime, radius |-> DefaultRadius]

\* FieldValue.increment on document d: the counter after the write w.  Without
\* a document the count starts from zero.
Counts(w) == w.op \in {"join", "leave", "push"}

Incremented(w, d) ==
    (IF Missing(d) THEN 0 ELSE IF w.op = "push" THEN d.finishedPushing ELSE d.participants)
    + (IF w.op = "leave" THEN -1 ELSE 1)

NumberFor(w, d) == IF Counts(w) THEN Incremented(w, d) ELSE w.num

\* What user u's write w makes of an existing document d (updateData) when the
\* number that it stores is n.
Patch(u, w, n, d) ==
    CASE w.op = "join"   -> [d EXCEPT !.participants = n, !.likes = SetLikes(@, u, {})]
      [] w.op = "leave"  -> [d EXCEPT !.participants = n, !.likes = DropLikes(@, u)]
      [] w.op = "push"   -> [d EXCEPT !.finishedPushing = n,
                                      !.likes = SetLikes(@, u, w.liked)]
      [] w.op = "end"    -> [d EXCEPT !.live = FALSE, !.finished = TRUE]
      [] w.op = "result" -> [d EXCEPT !.result = w.sel]
      [] w.op = "start"  -> [d EXCEPT !.live = TRUE]
      [] w.op = "list"   -> [d EXCEPT !.restaurantList = TRUE]
      [] w.op = "time"   -> [d EXCEPT !.time = n]
      [] w.op = "radius" -> [d EXCEPT !.radius = n]

\* The fields that a patch assigns.
Assigns(w) ==
    CASE w.op \in {"join", "leave"} -> {"participants", "likes"}
      [] w.op = "push"   -> {"finishedPushing", "likes"}
      [] w.op = "end"    -> {"live", "finished"}
      [] w.op = "result" -> {"result"}
      [] w.op = "start"  -> {"live"}
      [] w.op = "list"   -> {"restaurantList"}
      [] w.op = "time"   -> {"time"}
      [] w.op = "radius" -> {"radius"}
      [] OTHER           -> {}

\* setData and delete() need no document; updateData has the precondition that
\* the document exists and otherwise changes nothing.
Replaces(w) == w.op \in {"create", "delete"}

Apply(u, w, n, d) ==
    CASE w.op = "create" -> NewDoc(u)
      [] w.op = "delete" -> NoDoc
      [] ~Replaces(w) /\ Missing(d) -> d
      [] OTHER -> Patch(u, w, n, d)

\* The document known from the server as remote, with the pending writes of the
\* queue q applied to it in order.  Each field has the value that the last
\* pending write to it assigns: an increment keeps the base value that it was
\* issued on, so it is an assignment too.
Overlay(u, q, c, remote) ==
    LET on == {i \in DOMAIN q : q[i].code = c}
        whole == {i \in on : Replaces(q[i])}
        start == IF whole = {} THEN remote ELSE Apply(u, q[Max(whole)], 0, NoDoc)
        By(f) == {i \in on : f \in Assigns(q[i]) /\ \A j \in whole : j < i}
        Field(f) == IF By(f) = {} THEN start[f]
                    ELSE LET w == q[Max(By(f))] IN Patch(u, w, w.num, start)[f]
    IN  IF Missing(start) THEN start
        ELSE [participants    |-> Field("participants"),
              live            |-> Field("live"),
              likes           |-> Field("likes"),
              result          |-> Field("result"),
              finished        |-> Field("finished"),
              restaurantList  |-> Field("restaurantList"),
              finishedPushing |-> Field("finishedPushing"),
              time            |-> Field("time"),
              radius          |-> Field("radius")]

------------------------------------------------------------------------------
(* One device's SDK. *)

Events == [kind : {"snapshot", "join", "leave", "delete"}, code : Codes,
           data : Docs \cup {NoDoc}, ok : BOOLEAN]

Devices == [user : BOOLEAN,
            queue : [BOOLEAN -> Seq(Writes)],
            cache : [Codes -> Docs \cup {NoDoc, Unknown}],
            acked : [Codes -> BOOLEAN],
            listeners : [Codes -> Nat],
            fresh : [Codes -> Nat],
            link : [Codes -> {"connecting", "synced", "offline"}],
            shown : [Codes -> Docs \cup {NoDoc}],
            inbox : Seq(Events)]

NewDevice == [user |-> TRUE,
              queue |-> [b \in BOOLEAN |-> <<>>],
              cache |-> [c \in Codes |-> Unknown],
              acked |-> [c \in Codes |-> FALSE],
              listeners |-> [c \in Codes |-> 0],
              fresh |-> [c \in Codes |-> 0],
              link |-> [c \in Codes |-> "connecting"],
              shown |-> [c \in Codes |-> NoDoc],
              inbox |-> <<>>]

\* What is left of a device when its process ends: the cache and the queues,
\* whose completion handlers are gone.  signedIn is the user of the next start.
OnDisk(dev, signedIn) ==
    [NewDevice EXCEPT !.user = signedIn,
                      !.queue = [b \in BOOLEAN |->
                                   [i \in DOMAIN dev.queue[b] |->
                                      [dev.queue[b][i] EXCEPT !.handler = FALSE]]],
                      !.cache = dev.cache,
                      !.acked = dev.acked]

Snapshot(c, d) == [kind |-> "snapshot", code |-> c, data |-> d, ok |-> TRUE]

Completion(w) == [kind |-> w.op, code |-> w.code, data |-> NoDoc, ok |-> w.reply # "failed"]

\* The write has a completion handler, and it is called.
Completes(w) == w.handler /\ w.op \in {"join", "leave", "delete"}

\* n listeners are called with the event e.
Called(inbox, n, e) == inbox \o [i \in 1 .. n |-> e]

Pending(dev) == dev.queue[dev.user]

\* Document c as the device sees it, its pending writes included.
Local(u, dev, c) == Overlay(u, Pending(dev), c, dev.cache[c])

Visible(d) == IF Missing(d) THEN NoDoc ELSE d

\* A document changed by an acknowledgement only is not shown: the server will
\* send it again.
AwaitsServer(u, dev, c) ==
    /\ dev.acked[c]
    /\ \A i \in DOMAIN Pending(dev) : Pending(dev)[i].code # c
    /\ dev.shown[c] # NoDoc
    /\ ~Missing(Local(u, dev, c))

\* The view of document c is computed again; its listeners hear of a change.
Refresh(u, dev, c) ==
    LET d == Visible(Local(u, dev, c))
    IN  IF dev.listeners[c] = 0 \/ d = dev.shown[c] \/ AwaitsServer(u, dev, c) THEN dev
        ELSE [dev EXCEPT !.shown[c] = d,
                         !.fresh[c] = 0,
                         !.inbox = Called(@, dev.listeners[c], Snapshot(c, d))]

\* The SDK hears who is signed in.  If that is another user than before, it turns to
\* that user's queue and computes the views again, of up to two documents with
\* changes, in any order.
Switched(u, dev, b) ==
    IF dev.user = b THEN {dev}
    ELSE {d \in {Refresh(u, Refresh(u, [dev EXCEPT !.user = b], c), o) : c, o \in Codes} :
             \A x \in Codes : Refresh(u, d, x) = d}

\* A write is queued and shown in the local view at once.
Issue(u, dev, w) ==
    LET n == NumberFor(w, Local(u, dev, w.code))
    IN  Refresh(u, [dev EXCEPT !.queue[dev.user] = Append(@, [w EXCEPT !.num = n])], w.code)

\* addSnapshotListener: the first snapshot comes at once if the device has the
\* document, or if it knows that it is missing or out of reach; otherwise the
\* listener waits for the server.
Watch(u, dev, c) ==
    LET d == IF dev.listeners[c] = 0 THEN Visible(Local(u, dev, c)) ELSE dev.shown[c]
        heard == d # NoDoc \/ dev.link[c] # "connecting"
    IN  [dev EXCEPT !.listeners[c] = @ + 1,
                    !.shown[c] = d,
                    !.fresh[c] = IF heard THEN @ ELSE @ + 1,
                    !.inbox = Called(@, IF heard THEN 1 ELSE 0, Snapshot(c, d))]

\* Listening to c has got as far as l: the listeners that still wait for their
\* first snapshot are told what is shown.
Reach(dev, c, l) == [dev EXCEPT !.link[c] = l,
                                !.fresh[c] = 0,
                                !.inbox = Called(@, dev.fresh[c], Snapshot(c, dev.shown[c]))]

\* The server has sent document c; what it executed of the device's writes to c
\* is included.
Receive(u, dev, c, remote) ==
    LET Seen(w) == IF w.code = c /\ w.reply = "ok" THEN [w EXCEPT !.reply = "seen"] ELSE w
        known == [dev EXCEPT !.cache[c] = remote,
                             !.acked[c] = FALSE,
                             !.queue = [b \in BOOLEAN |->
                                          [i \in DOMAIN dev.queue[b] |-> Seen(dev.queue[b][i])]]]
    IN  Reach(Refresh(u, known, c), c, "synced")

\* The server has answered the oldest pending write.  A write that was executed
\* and is not in the cache yet is applied to it, with the counter of the answer.
\* The completion handler is dispatched before any snapshot.
Acknowledge(u, dev) ==
    LET w == Head(Pending(dev))
        c == w.code
        new == w.reply = "ok"
        d == IF ~Replaces(w) /\ Missing(dev.cache[c]) THEN Unknown
             ELSE Apply(u, w, w.counter, dev.cache[c])
    IN  Refresh(u, [dev EXCEPT !.queue[dev.user] = Tail(@),
                               !.cache[c] = IF new THEN d ELSE @,
                               !.acked[c] = @ \/ new,
                               !.inbox = Called(@, IF Completes(w) THEN 1 ELSE 0, Completion(w))],
                c)
==============================================================================
