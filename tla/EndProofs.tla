------------------------------- MODULE EndProofs -------------------------------
(***************************************************************************)
(* The end of a round that the host starts once, and its decision, for     *)
(* every set of users, codes and restaurants, and however many writes the  *)
(* server executes before a device hears of the first.                     *)
(*                                                                         *)
(* Neither screen is ever left without a branch (NeverBlank).  The danger  *)
(* is a device that has a result and still takes the session for live.     *)
(* The argument orders the events of a round.  The host's start            *)
(* comes before the list and before every end; nothing is pushed and       *)
(* no result is written before the session ends; a device may see more     *)
(* than the server has, but only what its own queue still holds.  So who   *)
(* has a result has a code, and once the device's writes are answered the  *)
(* session has ended on the server; the server never has a document that   *)
(* is finished and live, because the one start was executed before; and a  *)
(* device that has caught up shows the server's document.                  *)
(*                                                                         *)
(* The document goes through the phases of an abstract session             *)
(* (ImplementsLate).  Likes are traced from where they are seen to where   *)
(* they were handed in: whatever a document, a cache, a view or a result   *)
(* says that somebody likes, the server has as that member's final likes,  *)
(* or a push of the device itself carries it.  When the server executes a  *)
(* result, it has executed every push that the result was computed from.   *)
(***************************************************************************)
EXTENDS RoundProofs, Refinement

------------------------------------------------------------------------------
(* What is in a document with writes applied to it. *)

\* The fields of a patched document.
LEMMA PatchFields ==
    ASSUME NEW u \in Users, NEW w \in Writes, w.op \notin {"create", "leave", "delete"},
           NEW n \in Int, NEW d \in Docs, NEW x, x = Patch(u, w, n, d)
    PROVE  /\ x \in Docs
           /\ x.finished = (d.finished \/ w.op = "end")
           /\ w.op \notin {"start", "end"} => x.live = d.live
           /\ w.op = "start" => x.live
           /\ w.op = "end" => ~x.live
           /\ x.restaurantList = (d.restaurantList \/ w.op = "list")
           /\ x.result = IF w.op = "result" THEN w.sel ELSE d.result
           /\ x.finishedPushing = IF w.op = "push" THEN n ELSE d.finishedPushing
           /\ x.participants = IF w.op = "join" THEN n ELSE d.participants
           /\ w.op \notin {"join", "push"} => x.likes = d.likes
           /\ w.op = "join" => x.likes = SetLikes(d.likes, u, {})
           /\ w.op = "push" => x.likes = SetLikes(d.likes, u, w.liked)
<1>1. w.op \in {"join", "push", "end", "result", "start", "list", "time", "radius"}
  BY WriteParts DEF Ops
<1>2. x \in Docs
  BY PatchType DEF Replaces
<1>3. CASE w.op = "join"
  BY <1>2, <1>3 DEF Patch, Docs
<1>4. CASE w.op = "push"
  BY <1>2, <1>4 DEF Patch, Docs
<1>5. CASE w.op = "end"
  BY <1>2, <1>5 DEF Patch, Docs
<1>6. CASE w.op = "result"
  BY <1>2, <1>6 DEF Patch, Docs
<1>7. CASE w.op = "start"
  BY <1>2, <1>7 DEF Patch, Docs
<1>8. CASE w.op = "list"
  BY <1>2, <1>8 DEF Patch, Docs
<1>9. CASE w.op \in {"time", "radius"}
  BY <1>2, <1>9 DEF Patch, Docs
<1> QED
  BY <1>1, <1>3, <1>4, <1>5, <1>6, <1>7, <1>8, <1>9

Fields == {"participants", "live", "likes", "result", "finished", "restaurantList",
           "finishedPushing", "time", "radius"}

\* The i-th write of the queue q is the last one that assigns field f of document c.
LastWriter(q, c, f, i) ==
    /\ i \in DOMAIN q /\ q[i].code = c /\ f \in Assigns(q[i])
    /\ \A j \in DOMAIN q : j > i /\ q[j].code = c => f \notin Assigns(q[j])

\* The creation of c is in the queue q.
Makes(q, c) == \E i \in DOMAIN q : q[i].op = "create" /\ q[i].code = c

\* All that writes field f of document c in q comes before the creation of c.
Overwritten(q, c, f) ==
    \A i \in DOMAIN q : q[i].code = c /\ f \in Assigns(q[i]) =>
        \E j \in DOMAIN q : j > i /\ q[j].op = "create" /\ q[j].code = c

\* A field of a document with pending writes has the value that the last of them
\* that assigns it gives it, or the value in the document that they start from.
LEMMA OverlayField ==
    ASSUME NEW u \in Users, NEW q \in Seq(Writes), NEW c \in Codes, NEW remote \in CachedDocs,
           \A i \in DOMAIN q : q[i].op \notin {"leave", "delete"},
           NEW x, x = Overlay(u, q, c, remote), ~Missing(x)
    PROVE  \E s \in Docs :
              /\ s = IF Makes(q, c) THEN NewDoc(u) ELSE remote
              /\ \A f \in Fields :
                    \/ x[f] = s[f] /\ Overwritten(q, c, f)
                    \/ \E i \in DOMAIN q : /\ LastWriter(q, c, f, i)
                                           /\ x[f] = Patch(u, q[i], q[i].num, s)[f]
<1> DEFINE on == {i \in DOMAIN q : q[i].code = c}
           whole == {i \in on : Replaces(q[i])}
           start == IF whole = {} THEN remote ELSE Apply(u, q[Max(whole)], 0, NoDoc)
           By(f) == {i \in on : f \in Assigns(q[i]) /\ \A j \in whole : j < i}
           Field(f) == IF By(f) = {} THEN start[f]
                       ELSE LET w == q[Max(By(f))] IN Patch(u, w, w.num, start)[f]
<1>1. DOMAIN q = 1 .. Len(q) /\ Len(q) \in Nat /\ \A i \in 1 .. Len(q) : q[i] \in Writes
  OBVIOUS
<1>2. whole = {i \in DOMAIN q : q[i].op = "create" /\ q[i].code = c}
  BY DEF Replaces
<1>3. start = IF Makes(q, c) THEN NewDoc(u) ELSE remote
  <2>1. CASE whole = {}
    BY <1>2, <2>1 DEF Makes
  <2>2. CASE whole # {}
    <3>1. whole \in SUBSET (1 .. Len(q))
      BY <1>1
    <3>2. PICK m : m = Max(whole)
      OBVIOUS
    <3>3. m \in whole
      <4> HIDE DEF whole
      <4> QED
        BY <1>1, <2>2, <3>1, <3>2, MaxType
    <3>4. q[m].op = "create"
      BY <1>2, <3>3
    <3>5. start = NewDoc(u)
      BY <2>2, <3>2, <3>4 DEF Apply, Replaces
    <3>6. Makes(q, c)
      BY <1>2, <3>3 DEF Makes
    <3> HIDE DEF start, whole
    <3> QED
      BY <3>5, <3>6
  <2> QED
    BY <2>1, <2>2
<1>4. Overlay(u, q, c, remote) =
        IF Missing(start) THEN start
        ELSE [participants    |-> Field("participants"),
              live            |-> Field("live"),
              likes           |-> Field("likes"),
              result          |-> Field("result"),
              finished        |-> Field("finished"),
              restaurantList  |-> Field("restaurantList"),
              finishedPushing |-> Field("finishedPushing"),
              time            |-> Field("time"),
              radius          |-> Field("radius")]
  BY Zenon DEF Overlay
<1>5. ~Missing(start)
  <2> HIDE DEF start
  <2> QED
    BY <1>4
<1>6. start \in Docs
  <2> HIDE DEF start
  <2> QED
    BY <1>3, <1>5, NewDocType DEF CachedDocs, Missing
<1>7. ASSUME NEW f \in Fields
      PROVE  \/ Field(f) = start[f] /\ Overwritten(q, c, f)
             \/ \E i \in DOMAIN q : /\ LastWriter(q, c, f, i)
                                    /\ Field(f) = Patch(u, q[i], q[i].num, start)[f]
  <2>1. CASE By(f) = {}
    <3>1. ASSUME NEW i \in DOMAIN q, q[i].code = c, f \in Assigns(q[i])
          PROVE  \E j \in DOMAIN q : j > i /\ q[j].op = "create" /\ q[j].code = c
      <4>1. PICK j \in whole : ~(j < i)
        BY <2>1, <3>1
      <4>2. j \in DOMAIN q /\ q[j].op = "create" /\ q[j].code = c
        BY <1>2, <4>1
      <4>3. j # i
        BY <3>1, <4>2 DEF Assigns
      <4>4. j > i
        BY <1>1, <4>1, <4>2, <4>3
      <4> QED
        BY <4>2, <4>4
    <3>2. Overwritten(q, c, f)
      BY <3>1 DEF Overwritten
    <3>3. Field(f) = start[f]
      BY <2>1
    <3> QED
      BY <3>2, <3>3
  <2>2. CASE By(f) # {}
    <3>1. By(f) \in SUBSET (1 .. Len(q))
      BY <1>1
    <3>2. PICK k : k = Max(By(f))
      OBVIOUS
    <3>3. k \in By(f) /\ \A j \in By(f) : k >= j
      <4> HIDE DEF By
      <4> QED
        BY <1>1, <2>2, <3>1, <3>2, MaxType
    <3>4. k \in DOMAIN q /\ q[k].code = c /\ f \in Assigns(q[k]) /\ \A j \in whole : j < k
      BY <3>3
    <3>5. ASSUME NEW j \in DOMAIN q, j > k, q[j].code = c, f \in Assigns(q[j])
          PROVE  FALSE
      <4>1. \A i \in whole : i < j
        <5>1. \A i \in whole : i \in 1 .. Len(q)
          BY <1>1
        <5> HIDE DEF whole
        <5> QED
          BY <1>1, <3>4, <3>5, <5>1
      <4>2. j \in By(f)
        BY <3>5, <4>1
      <4> HIDE DEF By
      <4> QED
        BY <1>1, <3>3, <3>4, <3>5, <4>2
    <3>6. LastWriter(q, c, f, k)
      BY <3>4, <3>5 DEF LastWriter
    <3>7. Field(f) = Patch(u, q[k], q[k].num, start)[f]
      BY <2>2, <3>2, Zenon
    <3> QED
      BY <3>4, <3>6, <3>7
  <2> QED
    BY <2>1, <2>2
<1>8. \A f \in Fields : x[f] = Field(f)
  <2> HIDE DEF Field, start
  <2> QED
    BY <1>4, <1>5 DEF Fields
<1> HIDE DEF start, Field
<1> QED
  BY <1>3, <1>6, <1>7, <1>8

------------------------------------------------------------------------------
(* The order of events: list before end, end before results. *)

\* The restaurants of a session, and its end, have reached the server, or its start.
Listed(sv) == \E c \in Codes : sv[c] # NoDoc /\ sv[c].restaurantList
Ended(sv) == \E c \in Codes : sv[c] # NoDoc /\ sv[c].finished
Started(sv) == \E c \in Codes : sv[c] # NoDoc /\ (sv[c].live \/ sv[c].finished)

\* An end is in the queue q; a start in it has not been executed.
Ends(q) == \E i \in DOMAIN q : q[i].op = "end"
Starting(q) == \E i \in DOMAIN q : Waits(q, i, "start")

\* The document x shows that its session is over.
IsOver(x) == x.finished \/ x.finishedPushing > 0 \/ x.result # NoResult

\* User u, who has started n times, may have seen restaurants.
MayList(u, n, sv) == IF u \in Hosts THEN n > 0 ELSE Listed(sv)

\* A document that u's device may show when the session may be over, or not.
Plausible(u, x, over, listed) ==
    x # NoDoc => /\ IsOver(x) => over
                 /\ x.restaurantList => listed
                 /\ u \in Hosts => x.participants >= 1

\* The i-th write of u's queue q, when the server has the documents sv and u has
\* started n times.
InOrder(u, q, i, n, sv) ==
    /\ q[i].op \notin {"leave", "delete"}
    /\ q[i].op = "join" => u \notin Hosts
    /\ q[i].op \in {"end", "push", "result"} => (q[i].reply # "none" => Ended(sv))
    /\ q[i].op = "end" => MayList(u, n, sv)
    /\ q[i].op \in {"push", "result"} => Ended(sv) \/ \E j \in DOMAIN q : j < i /\ q[j].op = "end"
    /\ q[i].op = "list" => u \in Hosts /\ n > 0
    /\ q[i].op = "start" => /\ u \in Hosts /\ n > 0
                            /\ q[i].reply = "none" => ~Listed(sv) /\ ~Ended(sv)
                            /\ \A j \in DOMAIN q : q[j].op \in {"list", "end"} => i < j
    /\ q[i].op \notin {"create", "join"} => sv[q[i].code] # NoDoc \/ CreatesBefore(q, q[i].code, i)

\* The documents that the device d shows or is about to.
Shows(d) == {d.shown[c] : c \in Codes} \cup {d.inbox[i].data : i \in DOMAIN d.inbox}

OrderlyCache(u, cache, n, sv) ==
    \A c \in Codes : Plausible(u, Visible(cache[c]), Ended(sv), MayList(u, n, sv))

Orders(u, d, n, sv) ==
    /\ d \in Devices /\ d.user = TRUE
    /\ \A i \in DOMAIN d.queue[TRUE] : InOrder(u, d.queue[TRUE], i, n, sv)
    /\ OrderlyCache(u, d.cache, n, sv)
    /\ \A x \in Shows(d) : Plausible(u, x, Ended(sv) \/ Ends(d.queue[TRUE]), MayList(u, n, sv))

\* A view of a cache with writes in order is plausible.
LEMMA OverlayPlausible ==
    ASSUME NEW u \in Users, NEW q \in Seq(Writes), NEW n, NEW sv,
           \A i \in DOMAIN q : InOrder(u, q, i, n, sv),
           NEW cache \in [Codes -> CachedDocs], OrderlyCache(u, cache, n, sv), NEW c \in Codes,
           NEW x, x = Overlay(u, q, c, cache[c])
    PROVE  Plausible(u, Visible(x), Ended(sv) \/ Ends(q), MayList(u, n, sv))
<1> SUFFICES ASSUME ~Missing(x)
             PROVE  Plausible(u, x, Ended(sv) \/ Ends(q), MayList(u, n, sv))
  BY DEF Visible, Plausible
<1>1. PICK s \in Docs :
         /\ s = IF Makes(q, c) THEN NewDoc(u) ELSE cache[c]
         /\ \A f \in Fields :
               \/ x[f] = s[f] /\ Overwritten(q, c, f)
               \/ \E i \in DOMAIN q : /\ LastWriter(q, c, f, i)
                                      /\ x[f] = Patch(u, q[i], q[i].num, s)[f]
  <2>1. \A i \in DOMAIN q : q[i].op \notin {"leave", "delete"}
    BY DEF InOrder
  <2>2. cache[c] \in CachedDocs
    OBVIOUS
  <2> QED
    BY <2>1, <2>2, OverlayField
<1>2. Plausible(u, s, Ended(sv), MayList(u, n, sv)) /\ s # NoDoc
  <2>1. CASE Makes(q, c)
    <3>1. /\ ~s.finished /\ s.finishedPushing = 0 /\ s.result = NoResult
          /\ ~s.restaurantList /\ s.participants = 1
      BY <1>1, <2>1 DEF NewDoc
    <3> QED
      BY <3>1, MissingAssumption DEF Plausible, IsOver
  <2>2. CASE ~Makes(q, c)
    BY <1>1, <2>2, MissingAssumption DEF OrderlyCache, Visible, Missing
  <2> QED
    BY <2>1, <2>2
<1>3. ASSUME NEW i \in DOMAIN q, q[i].op \notin {"create", "leave", "delete"}, NEW y,
             y = Patch(u, q[i], q[i].num, s)
      PROVE  /\ y.finished = (s.finished \/ q[i].op = "end")
             /\ y.restaurantList = (s.restaurantList \/ q[i].op = "list")
             /\ q[i].op # "result" => y.result = s.result
             /\ q[i].op # "push" => y.finishedPushing = s.finishedPushing
             /\ q[i].op # "join" => y.participants = s.participants
  <2>1. q[i] \in Writes /\ q[i].num \in Int
    BY WriteParts
  <2> QED
    BY <1>3, <2>1, PatchFields
<1>4. \A i \in DOMAIN q : \A f : LastWriter(q, c, f, i) => q[i].op \notin {"create", "leave", "delete"}
  BY DEF LastWriter, Assigns, InOrder
<1>5. x.finished => Ended(sv) \/ Ends(q)
  <2>1. \/ x["finished"] = s["finished"]
        \/ \E i \in DOMAIN q : /\ LastWriter(q, c, "finished", i)
                               /\ x["finished"] = Patch(u, q[i], q[i].num, s)["finished"]
    BY <1>1 DEF Fields
  <2> QED
    BY <1>2, <1>3, <1>4, <2>1 DEF Plausible, IsOver, Ends
<1>6. x.finishedPushing > 0 => Ended(sv) \/ Ends(q)
  <2>1. \/ x["finishedPushing"] = s["finishedPushing"]
        \/ \E i \in DOMAIN q : /\ LastWriter(q, c, "finishedPushing", i)
                               /\ x["finishedPushing"] = Patch(u, q[i], q[i].num, s)["finishedPushing"]
    BY <1>1 DEF Fields
  <2>2. \A i \in DOMAIN q : q[i].op = "push" => Ended(sv) \/ Ends(q)
    BY DEF InOrder, Ends
  <2> QED
    BY <1>2, <1>3, <1>4, <2>1, <2>2 DEF Plausible, IsOver
<1>7. x.result # NoResult => Ended(sv) \/ Ends(q)
  <2>1. \/ x["result"] = s["result"]
        \/ \E i \in DOMAIN q : /\ LastWriter(q, c, "result", i)
                               /\ x["result"] = Patch(u, q[i], q[i].num, s)["result"]
    BY <1>1 DEF Fields
  <2>2. \A i \in DOMAIN q : q[i].op = "result" => Ended(sv) \/ Ends(q)
    BY DEF InOrder, Ends
  <2> QED
    BY <1>2, <1>3, <1>4, <2>1, <2>2 DEF Plausible, IsOver
<1>8. x.restaurantList => MayList(u, n, sv)
  <2>1. \/ x["restaurantList"] = s["restaurantList"]
        \/ \E i \in DOMAIN q : /\ LastWriter(q, c, "restaurantList", i)
                               /\ x["restaurantList"] = Patch(u, q[i], q[i].num, s)["restaurantList"]
    BY <1>1 DEF Fields
  <2>2. \A i \in DOMAIN q : q[i].op = "list" => MayList(u, n, sv)
    BY DEF InOrder, MayList
  <2> QED
    BY <1>2, <1>3, <1>4, <2>1, <2>2 DEF Plausible
<1>9. u \in Hosts => x.participants >= 1
  <2>1. \/ x["participants"] = s["participants"]
        \/ \E i \in DOMAIN q : /\ LastWriter(q, c, "participants", i)
                               /\ x["participants"] = Patch(u, q[i], q[i].num, s)["participants"]
    BY <1>1 DEF Fields
  <2>2. u \in Hosts => \A i \in DOMAIN q : q[i].op # "join"
    BY DEF InOrder
  <2> QED
    BY <1>2, <1>3, <1>4, <2>1, <2>2 DEF Plausible
<1> QED
  BY <1>5, <1>6, <1>7, <1>8, <1>9 DEF Plausible, IsOver

------------------------------------------------------------------------------
(* What the operations of a device show. *)

\* What a device shows after a refresh: nothing new but its view of the document.
LEMMA RefreshShows ==
    ASSUME NEW u \in Users, NEW d \in Devices, NEW c \in Codes, NEW d2, d2 = Refresh(u, d, c)
    PROVE  /\ d2 \in Devices /\ d2.queue = d.queue /\ d2.user = d.user /\ d2.cache = d.cache
           /\ Shows(d2) \subseteq Shows(d) \cup {Visible(Local(u, d, c))}
<1>1. PICK x \in Docs \cup {NoDoc} : x = Visible(Local(u, d, c))
  BY LocalType
<1>2. /\ d2 \in Devices /\ d2.queue = d.queue /\ d2.user = d.user /\ d2.cache = d.cache
      /\ \A o \in Codes \ {c} : d2.shown[o] = d.shown[o]
      /\ d2 = d \/ (d2.shown[c] = x /\ d2.inbox = Called(d.inbox, d.listeners[c], Snapshot(c, x)))
  BY <1>1, RefreshValues
<1>3. CASE d2 = d
  BY <1>2, <1>3
<1>4. CASE d2.shown[c] = x /\ d2.inbox = Called(d.inbox, d.listeners[c], Snapshot(c, x))
  <2>1. d.inbox \in Seq(Events) /\ d.listeners[c] \in Nat
    BY DeviceParts
  <2>2. Snapshot(c, x) \in Events /\ Snapshot(c, x).data = x
    BY DEF Snapshot, Events
  <2>3. \A i \in DOMAIN d2.inbox : (i \in DOMAIN d.inbox /\ d2.inbox[i] = d.inbox[i])
                                      \/ d2.inbox[i] = Snapshot(c, x)
    BY <1>4, <2>1, <2>2, CalledEither
  <2>4. \A i \in DOMAIN d2.inbox : d2.inbox[i].data \in Shows(d) \cup {x}
    BY <2>2, <2>3 DEF Shows
  <2>5. \A o \in Codes : d2.shown[o] \in Shows(d) \cup {x}
    BY <1>2, <1>4 DEF Shows
  <2> QED
    BY <1>1, <1>2, <2>4, <2>5 DEF Shows
<1> QED
  BY <1>2, <1>3, <1>4

\* The same for a new listener.
LEMMA WatchShows ==
    ASSUME NEW u \in Users, NEW d \in Devices, NEW c \in Codes, NEW d2, d2 = Watch(u, d, c)
    PROVE  /\ d2 \in Devices /\ d2.queue = d.queue /\ d2.user = d.user /\ d2.cache = d.cache
           /\ Shows(d2) \subseteq Shows(d) \cup {Visible(Local(u, d, c))}
<1>1. d.shown \in [Codes -> Docs \cup {NoDoc}] /\ d.inbox \in Seq(Events)
  BY DeviceParts
<1>2. PICK x \in Docs \cup {NoDoc} :
          x = IF d.listeners[c] = 0 THEN Visible(Local(u, d, c)) ELSE d.shown[c]
  BY <1>1, LocalType
<1>3. PICK n \in Nat : n = IF x # NoDoc \/ d.link[c] # "connecting" THEN 1 ELSE 0
  OBVIOUS
<1>4. PICK i : i = Called(d.inbox, n, Snapshot(c, x))
  OBVIOUS
<1>5. d2.queue = d.queue /\ d2.user = d.user /\ d2.cache = d.cache
  BY DEF Watch, Devices
<1>6. d2.inbox = i /\ d2.shown = [d.shown EXCEPT ![c] = x]
  BY <1>2, <1>3, <1>4 DEF Watch, Devices
<1>7. Snapshot(c, x) \in Events /\ Snapshot(c, x).data = x
  BY DEF Snapshot, Events
<1>8. \A j \in DOMAIN i : (j \in DOMAIN d.inbox /\ i[j] = d.inbox[j]) \/ i[j] = Snapshot(c, x)
  BY <1>1, <1>4, <1>7, CalledEither
<1>9. x \in Shows(d) \cup {Visible(Local(u, d, c))}
  BY <1>2 DEF Shows
<1>10. \A j \in DOMAIN d2.inbox : d2.inbox[j].data \in Shows(d) \cup {x}
  BY <1>6, <1>7, <1>8 DEF Shows
<1>11. \A o \in Codes : d2.shown[o] \in Shows(d) \cup {x}
  BY <1>1, <1>6 DEF Shows
<1>12. d2 \in Devices
  BY WatchType
<1> QED
  BY <1>5, <1>9, <1>10, <1>11, <1>12 DEF Shows

\* A callback that is taken from the inbox shows nothing new.
LEMMA HandledShows ==
    ASSUME NEW d \in Devices, d.inbox # <<>>, NEW d2, d2 = Handled(d)
    PROVE  /\ d2 \in Devices /\ d2.queue = d.queue /\ d2.user = d.user /\ d2.cache = d.cache
           /\ d2.shown = d.shown /\ Shows(d2) \subseteq Shows(d) /\ Head(d.inbox).data \in Shows(d)
<1>1. d.inbox \in Seq(Events)
  BY DeviceParts
<1>2. PICK t : t = Tail(d.inbox)
  OBVIOUS
<1>3. /\ t \in Seq(Events) /\ Len(t) = Len(d.inbox) - 1
      /\ \A i \in 1 .. Len(t) : t[i] = d.inbox[i + 1]
  BY <1>1, <1>2, HeadTailProperties, Zenon
<1>4. /\ Len(d.inbox) \in Nat /\ DOMAIN d.inbox = 1 .. Len(d.inbox) /\ DOMAIN t = 1 .. Len(t)
      /\ Head(d.inbox) = d.inbox[1] /\ Len(d.inbox) > 0
  BY <1>1, <1>3, EmptySeq
<1>5. /\ d2.queue = d.queue /\ d2.user = d.user /\ d2.inbox = t
      /\ d2.cache = d.cache /\ d2.shown = d.shown
  BY <1>2, <1>3 DEF Handled, Devices
<1>6. \A i \in DOMAIN t : i + 1 \in DOMAIN d.inbox /\ d.inbox[i + 1] = t[i]
  BY <1>3, <1>4
<1>7. \A i \in DOMAIN t : t[i].data \in Shows(d)
  BY <1>6 DEF Shows
<1>8. Head(d.inbox).data \in Shows(d)
  BY <1>4 DEF Shows
<1>9. d2 \in Devices
  BY HandledQueue
<1> QED
  BY <1>5, <1>7, <1>8, <1>9 DEF Shows

\* What a device with writes in order shows of a document is plausible.
LEMMA LocalPlausible ==
    ASSUME NEW u \in Users, NEW d, NEW n, NEW sv, Orders(u, d, n, sv), NEW c \in Codes
    PROVE  Plausible(u, Visible(Local(u, d, c)), Ended(sv) \/ Ends(d.queue[TRUE]), MayList(u, n, sv))
<1>1. d \in Devices /\ d.user = TRUE
  BY DEF Orders
<1>2. PICK q \in Seq(Writes) : q = d.queue[TRUE]
  BY <1>1, DeviceParts
<1>3. d.cache \in [Codes -> CachedDocs]
  BY <1>1, DeviceParts
<1>4. Local(u, d, c) = Overlay(u, q, c, d.cache[c])
  BY <1>1, <1>2 DEF Local, Pending
<1>5. (\A i \in DOMAIN q : InOrder(u, q, i, n, sv)) /\ OrderlyCache(u, d.cache, n, sv)
  BY <1>2 DEF Orders
<1> QED
  BY <1>2, <1>3, <1>4, <1>5, OverlayPlausible

\* The device shows what it showed before or x.
LEMMA OrdersShown ==
    ASSUME NEW u, NEW d, NEW n, NEW sv, Orders(u, d, n, sv), NEW x,
           Plausible(u, x, Ended(sv) \/ Ends(d.queue[TRUE]), MayList(u, n, sv)),
           NEW d2 \in Devices, d2.queue = d.queue, d2.user = d.user, d2.cache = d.cache,
           Shows(d2) \subseteq Shows(d) \cup {x}
    PROVE  Orders(u, d2, n, sv)
  BY DEF Orders

\* A refresh leaves a device in order.
LEMMA RefreshOrders ==
    ASSUME NEW u \in Users, NEW d, NEW n, NEW sv, Orders(u, d, n, sv), NEW c \in Codes,
           NEW d2, d2 = Refresh(u, d, c)
    PROVE  Orders(u, d2, n, sv) /\ d2.queue = d.queue
<1>1. PICK x : x = Visible(Local(u, d, c))
  OBVIOUS
<1>2. Plausible(u, x, Ended(sv) \/ Ends(d.queue[TRUE]), MayList(u, n, sv)) /\ d \in Devices
  BY <1>1, LocalPlausible DEF Orders
<1>3. /\ d2 \in Devices /\ d2.queue = d.queue /\ d2.user = d.user /\ d2.cache = d.cache
      /\ Shows(d2) \subseteq Shows(d) \cup {x}
  BY <1>1, <1>2, RefreshShows
<1> QED
  BY <1>2, <1>3, OrdersShown

\* A new listener leaves a device in order.
LEMMA WatchOrders ==
    ASSUME NEW u \in Users, NEW d, NEW n, NEW sv, Orders(u, d, n, sv), NEW c \in Codes,
           NEW d2, d2 = Watch(u, d, c)
    PROVE  Orders(u, d2, n, sv) /\ d2.queue = d.queue
<1>1. PICK x : x = Visible(Local(u, d, c))
  OBVIOUS
<1>2. Plausible(u, x, Ended(sv) \/ Ends(d.queue[TRUE]), MayList(u, n, sv)) /\ d \in Devices
  BY <1>1, LocalPlausible DEF Orders
<1>3. /\ d2 \in Devices /\ d2.queue = d.queue /\ d2.user = d.user /\ d2.cache = d.cache
      /\ Shows(d2) \subseteq Shows(d) \cup {x}
  BY <1>1, <1>2, WatchShows
<1> QED
  BY <1>2, <1>3, OrdersShown

\* A device stays in order when it takes a callback, and what it takes is plausible.
LEMMA HandledOrders ==
    ASSUME NEW u \in Users, NEW d, NEW n, NEW sv, Orders(u, d, n, sv), d.inbox # <<>>,
           NEW d2, d2 = Handled(d)
    PROVE  /\ Orders(u, d2, n, sv) /\ d2.queue = d.queue
           /\ Plausible(u, Head(d.inbox).data, Ended(sv) \/ Ends(d.queue[TRUE]), MayList(u, n, sv))
<1>1. d \in Devices
  BY DEF Orders
<1>2. /\ d2 \in Devices /\ d2.queue = d.queue /\ d2.user = d.user /\ d2.cache = d.cache
      /\ Shows(d2) \subseteq Shows(d) /\ Head(d.inbox).data \in Shows(d)
  BY <1>1, HandledShows
<1> QED
  BY <1>2 DEF Orders

\* The write w may be queued behind those in q.
MayAdd(u, w, q, n, sv) ==
    /\ w.reply = "none" /\ w.op \notin {"leave", "delete"}
    /\ w.op = "join" => u \notin Hosts
    /\ w.op = "end" => MayList(u, n, sv)
    /\ w.op \in {"push", "result"} => Ended(sv) \/ Ends(q)
    /\ w.op = "list" => u \in Hosts /\ n > 0
    /\ w.op = "start" => /\ u \in Hosts /\ n > 0 /\ ~Listed(sv) /\ ~Ended(sv)
                         /\ \A j \in DOMAIN q : q[j].op \notin {"list", "end"}
    /\ w.op \notin {"create", "join"} => sv[w.code] # NoDoc \/ Creating(q, w.code)

\* A write that may be added leaves the queue in order.
LEMMA AppendOrder ==
    ASSUME NEW u, NEW q \in Seq(Writes), NEW n, NEW sv, \A i \in DOMAIN q : InOrder(u, q, i, n, sv),
           NEW w \in Writes, MayAdd(u, w, q, n, sv), NEW q2, q2 = Append(q, w)
    PROVE  /\ \A i \in DOMAIN q2 : InOrder(u, q2, i, n, sv)
           /\ Ends(q2) <=> Ends(q) \/ w.op = "end"
           /\ Starting(q2) <=> Starting(q) \/ w.op = "start"
<1>1. PICK k \in Nat : k = Len(q) + 1
  OBVIOUS
<1>2. /\ q2[k] = w /\ \A i \in DOMAIN q : i < k /\ i \in DOMAIN q2 /\ q2[i] = q[i] /\ i \in Nat
      /\ \A i \in DOMAIN q2 : i = k \/ i \in DOMAIN q
      /\ k \in DOMAIN q2
  BY <1>1, AppendProperties
<1>3. /\ Ends(q2) <=> Ends(q) \/ w.op = "end"
      /\ Starting(q2) <=> Starting(q) \/ w.op = "start"
  BY <1>2 DEF Ends, Starting, Waits, MayAdd
<1>4. ASSUME NEW i \in DOMAIN q PROVE InOrder(u, q2, i, n, sv)
  <2>1. InOrder(u, q, i, n, sv) /\ q2[i] = q[i]
    BY <1>2
  <2>2. \A c : CreatesBefore(q, c, i) => CreatesBefore(q2, c, i)
    BY <1>2 DEF CreatesBefore, Waits
  <2>3. (\E j \in DOMAIN q : j < i /\ q[j].op = "end") => \E j \in DOMAIN q2 : j < i /\ q2[j].op = "end"
    BY <1>2
  <2>4. (\A j \in DOMAIN q : q[j].op \in {"list", "end"} => i < j) =>
           \A j \in DOMAIN q2 : q2[j].op \in {"list", "end"} => i < j
    BY <1>2
  <2> QED
    BY <2>1, <2>2, <2>3, <2>4 DEF InOrder
<1>5. InOrder(u, q2, k, n, sv)
  <2>1. Creating(q, w.code) => CreatesBefore(q2, w.code, k)
    BY <1>2 DEF CreatesBefore, Creating, Waits
  <2>2. Ends(q) => \E j \in DOMAIN q2 : j < k /\ q2[j].op = "end"
    BY <1>2 DEF Ends
  <2>3. w.op = "start" => \A j \in DOMAIN q2 : q2[j].op \notin {"list", "end"}
    BY <1>2 DEF MayAdd
  <2> QED
    BY <1>2, <2>1, <2>2, <2>3 DEF InOrder, MayAdd
<1> QED
  BY <1>2, <1>3, <1>4, <1>5

\* The device d has the writes q2 instead, and the cache k.
LEMMA OrdersChanged ==
    ASSUME NEW u, NEW d, NEW n, NEW sv, Orders(u, d, n, sv), NEW d2 \in Devices, d2.user = TRUE,
           \A i \in DOMAIN d2.queue[TRUE] : InOrder(u, d2.queue[TRUE], i, n, sv),
           OrderlyCache(u, d2.cache, n, sv), Shows(d2) \subseteq Shows(d) \cup {NoDoc},
           Ends(d.queue[TRUE]) => Ended(sv) \/ Ends(d2.queue[TRUE])
    PROVE  Orders(u, d2, n, sv)
<1>1. \A x \in Shows(d2) : Plausible(u, x, Ended(sv) \/ Ends(d2.queue[TRUE]), MayList(u, n, sv))
  BY DEF Orders, Plausible
<1> QED
  BY <1>1 DEF Orders

\* The queue q2 is q with a write of kind op behind it.
Behind(q, q2, op) ==
    /\ \A c : Creating(q, c) => Creating(q2, c)
    /\ \A j \in DOMAIN q2 : q2[j].op = op \/ \E k \in DOMAIN q : q2[j] = q[k]

\* The write x is w with another number.
Renumbered(w, x) == x.op = w.op /\ x.code = w.code /\ x.liked = w.liked /\ x.sel = w.sel /\ x.reply = w.reply

\* Devices that differ in their queues only.
SameBut(d, d1) == d1.user = d.user /\ d1.cache = d.cache /\ d1.shown = d.shown /\ d1.inbox = d.inbox

\* u's device gets from d to d2 by queueing the write w behind those in q, and by
\* refreshing its view.
Queues(u, d, q, w, d2) ==
    \E d1 \in Devices, x \in Writes :
        /\ Renumbered(w, x) /\ d1.queue[TRUE] = Append(q, x) /\ SameBut(d, d1)
        /\ d2 = Refresh(u, d1, w.code)

LEMMA IssueSteps ==
    ASSUME NEW u \in Users, NEW d \in Devices, d.user = TRUE, NEW w \in Writes,
           NEW q \in Seq(Writes), q = d.queue[TRUE], NEW d2, d2 = Issue(u, d, w)
    PROVE  Queues(u, d, q, w, d2)
<1>1. w.code \in Codes
  BY WriteParts
<1>2. PICK m \in Int : m = NumberFor(w, Local(u, d, w.code))
  BY <1>1, LocalType, NumberForType
<1>3. PICK x \in Writes : x = [w EXCEPT !.num = m]
  BY DEF Writes
<1>4. Renumbered(w, x)
  BY <1>3 DEF Writes, Renumbered
<1>5. PICK r \in Seq(Writes) : r = Append(q, x)
  BY AppendProperties
<1>6. PICK qs : qs = [d.queue EXCEPT ![d.user] = r]
  OBVIOUS
<1>7. qs \in [BOOLEAN -> Seq(Writes)] /\ qs[TRUE] = r
  BY <1>5, <1>6, DeviceParts
<1>8. PICK d1 : d1 = [d EXCEPT !.queue = qs]
  OBVIOUS
<1>9. d1 \in Devices /\ d1.queue[TRUE] = r /\ SameBut(d, d1)
  BY <1>7, <1>8 DEF Devices, SameBut
<1>10. d2 = Refresh(u, d1, w.code)
  <2>1. r = Append(d.queue[d.user], [w EXCEPT !.num = m])
    BY <1>3, <1>5
  <2> QED
    BY <1>2, <1>6, <1>8, <2>1 DEF Issue
<1> QED
  BY <1>4, <1>5, <1>9, <1>10 DEF Queues

\* A device that issues a write that may be added stays in order.
LEMMA IssueOrders ==
    ASSUME NEW u \in Users, NEW d, NEW n, NEW sv, Orders(u, d, n, sv), NEW w \in Writes,
           MayAdd(u, w, d.queue[TRUE], n, sv), NEW d2, d2 = Issue(u, d, w)
    PROVE  /\ Orders(u, d2, n, sv)
           /\ Ends(d2.queue[TRUE]) <=> Ends(d.queue[TRUE]) \/ w.op = "end"
           /\ Starting(d2.queue[TRUE]) <=> Starting(d.queue[TRUE]) \/ w.op = "start"
           /\ Behind(d.queue[TRUE], d2.queue[TRUE], w.op)
<1>1. d \in Devices /\ d.user = TRUE /\ w.code \in Codes
  BY WriteParts DEF Orders
<1>5. PICK q \in Seq(Writes) : q = d.queue[TRUE]
  BY <1>1, DeviceParts
<1>2. PICK d1 \in Devices, x \in Writes :
         /\ Renumbered(w, x) /\ d1.queue[TRUE] = Append(q, x) /\ SameBut(d, d1)
         /\ d2 = Refresh(u, d1, w.code)
  <2>1. Queues(u, d, q, w, d2)
    BY <1>1, <1>5, IssueSteps
  <2> QED
    BY <2>1 DEF Queues
<1>4. x.code = w.code /\ x.op = w.op /\ x.reply = w.reply
  BY <1>2 DEF Renumbered
<1>6. PICK r \in Seq(Writes) : r = Append(q, x)
  BY AppendProperties
<1>10. /\ d1 \in Devices /\ d1.queue[TRUE] = r /\ d1.user = TRUE
       /\ d1.cache = d.cache /\ d1.shown = d.shown /\ d1.inbox = d.inbox
  BY <1>1, <1>2, <1>6 DEF SameBut
<1>11. d2 = Refresh(u, d1, w.code)
  BY <1>2
<1>12. MayAdd(u, x, q, n, sv)
  BY <1>4, <1>5 DEF MayAdd
<1>13. /\ \A i \in DOMAIN r : InOrder(u, r, i, n, sv)
       /\ Ends(r) <=> Ends(q) \/ x.op = "end"
       /\ Starting(r) <=> Starting(q) \/ x.op = "start"
  <2>1. \A i \in DOMAIN q : InOrder(u, q, i, n, sv)
    BY <1>5 DEF Orders
  <2> QED
    BY <1>6, <1>12, <2>1, AppendOrder
<1>14. Orders(u, d1, n, sv)
  <2>1. Shows(d1) = Shows(d)
    BY <1>10 DEF Shows
  <2>2. OrderlyCache(u, d1.cache, n, sv)
    BY <1>10 DEF Orders
  <2> QED
    BY <1>5, <1>10, <1>13, <2>1, <2>2, OrdersChanged
<1>15. Orders(u, d2, n, sv) /\ d2.queue = d1.queue
  BY <1>1, <1>11, <1>14, RefreshOrders
<1>16. Behind(q, r, x.op)
  <2>1. /\ \A i \in DOMAIN q : i \in DOMAIN r /\ r[i] = q[i]
        /\ \A i \in DOMAIN r : r[i] = x \/ i \in DOMAIN q
    BY <1>6, AppendProperties
  <2> QED
    BY <2>1 DEF Behind, Creating, Waits
<1>17. d2.queue[TRUE] = r
  BY <1>10, <1>15
<1>18. /\ Ends(d2.queue[TRUE]) <=> Ends(d.queue[TRUE]) \/ w.op = "end"
       /\ Starting(d2.queue[TRUE]) <=> Starting(d.queue[TRUE]) \/ w.op = "start"
  BY <1>4, <1>5, <1>13, <1>17
<1>19. Behind(d.queue[TRUE], d2.queue[TRUE], w.op)
  BY <1>4, <1>5, <1>16, <1>17
<1> QED
  BY <1>15, <1>18, <1>19

\* The oldest write, once answered, can be taken from a queue in order.
LEMMA TailOrder ==
    ASSUME NEW u, NEW q \in Seq(Writes), q # <<>>, NEW n, NEW sv,
           \A i \in DOMAIN q : InOrder(u, q, i, n, sv), Head(q).reply # "none",
           NEW q2, q2 = Tail(q)
    PROVE  /\ q2 \in Seq(Writes)
           /\ \A i \in DOMAIN q2 : InOrder(u, q2, i, n, sv)
           /\ Ends(q) => Ended(sv) \/ Ends(q2)
           /\ Starting(q2) <=> Starting(q)
<1>1. /\ q2 \in Seq(Writes) /\ Len(q2) = Len(q) - 1
      /\ \A i \in 1 .. Len(q2) : q2[i] = q[i + 1]
  BY HeadTailProperties, Zenon
<1>2. /\ Len(q) \in Nat /\ DOMAIN q = 1 .. Len(q) /\ DOMAIN q2 = 1 .. Len(q2)
      /\ Head(q) = q[1] /\ Len(q) > 0
  BY <1>1, EmptySeq
<1>3. /\ \A i \in DOMAIN q2 : i + 1 \in DOMAIN q /\ q2[i] = q[i + 1]
      /\ \A i \in DOMAIN q : i = 1 \/ \E k \in DOMAIN q2 : i = k + 1
      /\ \A i, j \in DOMAIN q2 : i + 1 < j + 1 <=> i < j
      /\ 1 \in DOMAIN q /\ q[1].reply # "none"
  <2>1. \A i \in DOMAIN q2 : i + 1 \in DOMAIN q /\ q2[i] = q[i + 1]
    BY <1>1, <1>2
  <2>2. \A i \in DOMAIN q : i # 1 => i - 1 \in DOMAIN q2 /\ i = (i - 1) + 1
    BY <1>1, <1>2
  <2>3. \A i, j \in DOMAIN q2 : i + 1 < j + 1 <=> i < j
    BY <1>2
  <2> QED
    BY <1>2, <2>1, <2>2, <2>3
<1>4. q[1].op = "end" => Ended(sv)
  BY <1>3 DEF InOrder
<1>5. Ends(q) => Ended(sv) \/ Ends(q2)
  BY <1>3, <1>4 DEF Ends
<1>6. Starting(q2) <=> Starting(q)
  BY <1>3 DEF Starting, Waits
<1>7. ASSUME NEW i \in DOMAIN q2 PROVE InOrder(u, q2, i, n, sv)
  <2>1. PICK m \in DOMAIN q : m = i + 1
    BY <1>3
  <2>2. InOrder(u, q, m, n, sv) /\ q2[i] = q[m]
    BY <1>3, <2>1
  <2>3. \A c : CreatesBefore(q, c, m) => CreatesBefore(q2, c, i)
    <3> SUFFICES ASSUME NEW c, NEW j \in DOMAIN q, j < m, Waits(q, j, "create"), q[j].code = c
                 PROVE  CreatesBefore(q2, c, i)
      BY DEF CreatesBefore
    <3>1. PICK k \in DOMAIN q2 : j = k + 1
      BY <1>3 DEF Waits
    <3>2. k < i /\ q2[k] = q[j]
      BY <1>3, <2>1, <3>1
    <3> QED
      BY <3>2 DEF CreatesBefore, Waits
  <2>4. (\E j \in DOMAIN q : j < m /\ q[j].op = "end") =>
           Ended(sv) \/ \E j \in DOMAIN q2 : j < i /\ q2[j].op = "end"
    <3> SUFFICES ASSUME NEW j \in DOMAIN q, j < m, q[j].op = "end"
                 PROVE  Ended(sv) \/ \E k \in DOMAIN q2 : k < i /\ q2[k].op = "end"
      OBVIOUS
    <3>1. j = 1 \/ \E k \in DOMAIN q2 : j = k + 1
      BY <1>3
    <3> QED
      BY <1>3, <1>4, <2>1, <3>1
  <2>5. (\A j \in DOMAIN q : q[j].op \in {"list", "end"} => m < j) =>
           \A j \in DOMAIN q2 : q2[j].op \in {"list", "end"} => i < j
    BY <1>3, <2>1
  <2> QED
    BY <2>2, <2>3, <2>4, <2>5 DEF InOrder
<1> QED
  BY <1>1, <1>5, <1>6, <1>7

\* A cached document with an executed write applied to it is plausible.
LEMMA ApplyPlausible ==
    ASSUME NEW u \in Users, NEW w \in Writes, NEW n \in Int, NEW y \in CachedDocs,
           NEW over, NEW listed, Plausible(u, Visible(y), over, listed),
           w.op \notin {"leave", "delete"}, w.op = "join" => u \notin Hosts,
           w.op \in {"end", "push", "result"} => over, w.op = "list" => listed
    PROVE  Plausible(u, Visible(Apply(u, w, n, y)), over, listed)
<1>1. CASE w.op = "create"
  <2>1. PICK s : s = NewDoc(u)
    OBVIOUS
  <2>2. /\ ~s.finished /\ s.finishedPushing = 0 /\ s.result = NoResult
        /\ ~s.restaurantList /\ s.participants = 1
    BY <2>1 DEF NewDoc
  <2>3. Apply(u, w, n, y) = s
    BY <1>1, <2>1 DEF Apply, Replaces
  <2> QED
    BY <2>2, <2>3 DEF Plausible, IsOver, Visible
<1>2. CASE ~Replaces(w) /\ Missing(y)
  BY <1>2 DEF Apply, Replaces, Visible, Plausible
<1>3. CASE ~Replaces(w) /\ ~Missing(y)
  <2>1. y \in Docs /\ y # NoDoc /\ Visible(y) = y
    BY <1>3 DEF Missing, CachedDocs, Visible
  <2>2. PICK x : x = Patch(u, w, n, y)
    OBVIOUS
  <2>3. x = Apply(u, w, n, y)
    BY <1>3, <2>2 DEF Apply, Replaces
  <2>4. /\ x \in Docs
        /\ x.finished = (y.finished \/ w.op = "end")
        /\ x.restaurantList = (y.restaurantList \/ w.op = "list")
        /\ w.op # "result" => x.result = y.result
        /\ w.op # "push" => x.finishedPushing = y.finishedPushing
        /\ w.op # "join" => x.participants = y.participants
    BY <1>3, <2>1, <2>2, PatchFields DEF Replaces
  <2>5. Visible(x) = x
    BY <2>4, MissingAssumption DEF Visible, Missing
  <2> QED
    BY <2>1, <2>3, <2>4, <2>5 DEF Plausible, IsOver
<1> QED
  BY <1>1, <1>2, <1>3 DEF Replaces

\* What the device knows of a document y once u's write w to it is answered.
Known(u, w, y) == IF w.reply # "ok" THEN y
                  ELSE IF ~Replaces(w) /\ Missing(y) THEN Unknown ELSE Apply(u, w, w.counter, y)

\* u's device gets from d to d2 by taking its oldest write, which was answered, from
\* its queue to its cache, and by refreshing its view.
Clears(u, d, d2) ==
    \E d1 \in Devices, x \in CachedDocs, w \in Writes, c \in Codes :
        /\ w = Head(d.queue[TRUE]) /\ c = w.code /\ x = Known(u, w, d.cache[c])
        /\ d1.queue[TRUE] = Tail(d.queue[TRUE]) /\ d1.user = TRUE
        /\ Shows(d1) \subseteq Shows(d) \cup {NoDoc}
        /\ d1.cache[c] = x /\ \A o \in Codes \ {c} : d1.cache[o] = d.cache[o]
        /\ d2 = Refresh(u, d1, c)

LEMMA AcknowledgeSteps ==
    ASSUME NEW u \in Users, NEW d \in Devices, d.user = TRUE, Pending(d) # <<>>,
           NEW d2, d2 = Acknowledge(u, d)
    PROVE  Clears(u, d, d2)
<1>0. d \in Devices /\ d.user = TRUE
  OBVIOUS
<1>1. PICK old \in Seq(Writes) : old = d.queue[TRUE]
  BY <1>0, DeviceParts
<1>2. Pending(d) = old /\ old # <<>> /\ old = d.queue[d.user]
  BY <1>0, <1>1 DEF Pending
<1>3. PICK w \in Writes : w = Head(old)
  BY <1>2, HeadTailProperties, Zenon
<1>4. PICK c \in Codes : c = w.code
  BY WriteParts
<1>5. PICK r \in Seq(Writes) : r = Tail(old)
  BY <1>2, HeadTailProperties, Zenon
<1>6. PICK q : q = [d.queue EXCEPT ![d.user] = r]
  OBVIOUS
<1>7. q \in [BOOLEAN -> Seq(Writes)] /\ q[TRUE] = r
  BY <1>0, <1>5, <1>6, DeviceParts
<1>8. PICK x : x = IF w.reply = "ok" THEN IF ~Replaces(w) /\ Missing(d.cache[c]) THEN Unknown
                                          ELSE Apply(u, w, w.counter, d.cache[c])
                   ELSE d.cache[c]
  OBVIOUS
<1>9. x \in CachedDocs /\ x = Known(u, w, d.cache[c])
  <2>1. d.cache[c] \in CachedDocs /\ w.counter \in Int
    BY <1>0, DeviceParts, WriteParts
  <2> QED
    BY <1>8, <2>1, ApplyType DEF CachedDocs, Known
<1>10. PICK k : k = [d.cache EXCEPT ![c] = x]
  OBVIOUS
<1>11. PICK a : a = [d.acked EXCEPT ![c] = @ \/ w.reply = "ok"]
  OBVIOUS
<1>12. /\ k \in [Codes -> CachedDocs] /\ a \in [Codes -> BOOLEAN]
       /\ k[c] = x /\ \A o \in Codes \ {c} : k[o] = d.cache[o]
  BY <1>0, <1>9, <1>10, <1>11, DeviceParts
<1>13. PICK m \in Nat : m = IF Completes(w) THEN 1 ELSE 0
  OBVIOUS
<1>14. m > 0 => Completion(w) \in Events /\ Completion(w).data = NoDoc
  BY <1>4, <1>13, WriteParts DEF Completion, Completes, Events
<1>15. PICK i : i = Called(d.inbox, m, Completion(w))
  OBVIOUS
<1>16. /\ i \in Seq(Events)
       /\ \A j \in DOMAIN i : \/ j \in DOMAIN d.inbox /\ i[j] = d.inbox[j]
                              \/ i[j].data = NoDoc
  <2>1. d.inbox \in Seq(Events)
    BY <1>0, DeviceParts
  <2>2. CASE m = 0
    <3>1. i = d.inbox \o [j \in 1 .. 0 |-> Completion(w)]
      BY <1>15, <2>2 DEF Called
    <3>2. [j \in 1 .. 0 |-> Completion(w)] = <<>>
      OBVIOUS
    <3>3. i = d.inbox
      BY <2>1, <3>1, <3>2, ConcatEmptySeq
    <3> QED
      BY <2>1, <3>3
  <2>3. CASE m # 0
    <3>1. PICK e \in Events : e = Completion(w) /\ e.data = NoDoc
      BY <1>14, <2>3
    <3>2. i = Called(d.inbox, m, e)
      BY <1>15, <3>1
    <3>3. \A j \in DOMAIN i : (j \in DOMAIN d.inbox /\ i[j] = d.inbox[j]) \/ i[j] = e
      BY <2>1, <3>2, CalledEither
    <3>4. i \in Seq(Events)
      BY <2>1, <3>2, CalledType
    <3> QED
      BY <3>1, <3>3, <3>4
  <2> QED
    BY <2>2, <2>3
<1>17. PICK d1 : d1 = [d EXCEPT !.queue = q, !.cache = k, !.acked = a, !.inbox = i]
  OBVIOUS
<1>18. /\ d1 \in Devices /\ d1.queue[TRUE] = r /\ d1.user = TRUE /\ d1.inbox = i
       /\ d1.cache = k /\ d1.shown = d.shown
  BY <1>0, <1>7, <1>12, <1>16, <1>17 DEF Devices, CachedDocs
<1>19. d2 = Refresh(u, d1, c)
  BY <1>2, <1>3, <1>4, <1>5, <1>6, <1>8, <1>10, <1>11, <1>13, <1>15, <1>17 DEF Acknowledge
<1>20. Shows(d1) \subseteq Shows(d) \cup {NoDoc}
  BY <1>16, <1>18 DEF Shows
<1>21. w = Head(d.queue[TRUE]) /\ d1.queue[TRUE] = Tail(d.queue[TRUE])
  BY <1>1, <1>3, <1>5, <1>18
<1>22. d1.cache[c] = x /\ \A o \in Codes \ {c} : d1.cache[o] = d.cache[o]
  BY <1>12, <1>18
<1> QED
  BY <1>4, <1>9, <1>18, <1>19, <1>20, <1>21, <1>22 DEF Clears

\* An answer leaves a device in order: an end that goes has reached the server.
LEMMA AcknowledgeOrders ==
    ASSUME NEW u \in Users, NEW d, NEW n, NEW sv, Orders(u, d, n, sv),
           Pending(d) # <<>>, Head(Pending(d)).reply # "none", NEW d2, d2 = Acknowledge(u, d)
    PROVE  /\ Orders(u, d2, n, sv)
           /\ Ends(d.queue[TRUE]) => Ended(sv) \/ Ends(d2.queue[TRUE])
           /\ Starting(d2.queue[TRUE]) <=> Starting(d.queue[TRUE])
<1>0. d \in Devices /\ d.user = TRUE
  BY DEF Orders
<1>1. PICK old \in Seq(Writes) : old = d.queue[TRUE]
  BY <1>0, DeviceParts
<1>2. Pending(d) = old /\ old # <<>> /\ old = d.queue[d.user]
  BY <1>0, <1>1 DEF Pending
<1>3. PICK r \in Seq(Writes) : r = Tail(old)
  BY <1>2, HeadTailProperties, Zenon
<1>4. PICK d1 \in Devices, x \in CachedDocs, w \in Writes, c \in Codes :
        /\ w = Head(d.queue[TRUE]) /\ c = w.code /\ x = Known(u, w, d.cache[c])
        /\ d1.queue[TRUE] = Tail(d.queue[TRUE]) /\ d1.user = TRUE
        /\ Shows(d1) \subseteq Shows(d) \cup {NoDoc}
        /\ d1.cache[c] = x /\ \A o \in Codes \ {c} : d1.cache[o] = d.cache[o]
        /\ d2 = Refresh(u, d1, c)
  <2>1. Clears(u, d, d2)
    BY <1>0, AcknowledgeSteps
  <2> QED
    BY <2>1 DEF Clears
<1>5. w = Head(old) /\ d1.queue[TRUE] = r
  BY <1>1, <1>3, <1>4
<1>20. /\ \A j \in DOMAIN old : InOrder(u, old, j, n, sv)
       /\ OrderlyCache(u, d.cache, n, sv)
  BY <1>1 DEF Orders
<1>21. /\ \A j \in DOMAIN r : InOrder(u, r, j, n, sv)
       /\ Ends(old) => Ended(sv) \/ Ends(r)
       /\ Starting(r) <=> Starting(old)
  BY <1>2, <1>3, <1>20, TailOrder
<1>22. InOrder(u, old, 1, n, sv) /\ old[1] = w /\ w.reply # "none"
  <2>1. 1 \in DOMAIN old /\ Head(old) = old[1]
    BY <1>2, EmptySeq
  <2> QED
    BY <1>2, <1>5, <1>20, <2>1
<1>23. Plausible(u, Visible(x), Ended(sv), MayList(u, n, sv))
  <2>1. Plausible(u, Visible(d.cache[c]), Ended(sv), MayList(u, n, sv)) /\ d.cache[c] \in CachedDocs
    BY <1>0, <1>20, DeviceParts DEF OrderlyCache
  <2>2. /\ w.op \notin {"leave", "delete"} /\ (w.op = "join" => u \notin Hosts)
        /\ w.op \in {"end", "push", "result"} => Ended(sv)
        /\ w.op = "list" => MayList(u, n, sv)
    BY <1>22 DEF InOrder, MayList
  <2>3. Plausible(u, Visible(Apply(u, w, w.counter, d.cache[c])), Ended(sv), MayList(u, n, sv))
    <3>1. w.counter \in Int
      BY WriteParts
    <3> QED
      BY <2>1, <2>2, <3>1, ApplyPlausible
  <2>4. Plausible(u, Visible(Unknown), Ended(sv), MayList(u, n, sv))
    BY DEF Visible, Missing, Plausible
  <2>5. x = d.cache[c] \/ x = Unknown \/ x = Apply(u, w, w.counter, d.cache[c])
    BY <1>4, Zenon DEF Known
  <2>6. CASE x = d.cache[c]
    BY <2>1, <2>6, Zenon
  <2>7. CASE x = Unknown
    BY <2>4, <2>7, Zenon
  <2>8. CASE x = Apply(u, w, w.counter, d.cache[c])
    BY <2>3, <2>8, Zenon
  <2> QED
    BY <2>5, <2>6, <2>7, <2>8
<1>24. OrderlyCache(u, d1.cache, n, sv)
  <2>1. ASSUME NEW o \in Codes PROVE Plausible(u, Visible(d1.cache[o]), Ended(sv), MayList(u, n, sv))
    <3>1. CASE o = c
      <4>1. d1.cache[o] = x
        BY <1>4, <3>1
      <4> QED
        BY <1>23, <4>1
    <3>2. CASE o # c
      <4>1. d1.cache[o] = d.cache[o]
        BY <1>4, <3>2
      <4> QED
        BY <1>20, <4>1 DEF OrderlyCache
    <3> QED
      BY <3>1, <3>2
  <2> QED
    BY <2>1 DEF OrderlyCache
<1>25. Orders(u, d1, n, sv)
  <2>1. \A i \in DOMAIN d1.queue[TRUE] : InOrder(u, d1.queue[TRUE], i, n, sv)
    BY <1>5, <1>21
  <2>2. Ends(d.queue[TRUE]) => Ended(sv) \/ Ends(d1.queue[TRUE])
    BY <1>1, <1>5, <1>21
  <2>3. d1 \in Devices /\ d1.user = TRUE /\ Shows(d1) \subseteq Shows(d) \cup {NoDoc}
    BY <1>4
  <2> QED
    BY <1>24, <2>1, <2>2, <2>3, OrdersChanged
<1>26. Orders(u, d2, n, sv) /\ d2.queue = d1.queue
  <2>1. d2 = Refresh(u, d1, c) /\ c \in Codes
    BY <1>4
  <2> QED
    BY <1>25, <2>1, RefreshOrders
<1>27. d2.queue[TRUE] = r
  BY <1>5, <1>26
<1> QED
  BY <1>1, <1>21, <1>26, <1>27

\* Answers that mean the same leave the writes in order.
LEMMA SameOrder ==
    ASSUME NEW u, NEW q, NEW q2, SameKind(q, q2), NEW n, NEW sv,
           \A i \in DOMAIN q : InOrder(u, q, i, n, sv)
    PROVE  /\ \A i \in DOMAIN q2 : InOrder(u, q2, i, n, sv)
           /\ Ends(q2) <=> Ends(q)
           /\ Starting(q2) <=> Starting(q)
<1>1. /\ DOMAIN q2 = DOMAIN q
      /\ \A i \in DOMAIN q : /\ q2[i].op = q[i].op /\ q2[i].code = q[i].code
                             /\ q2[i].reply = "none" <=> q[i].reply = "none"
                             /\ \A op : Waits(q2, i, op) <=> Waits(q, i, op)
  BY DEF SameKind, Waits
<1>2. \A c, i : CreatesBefore(q2, c, i) <=> CreatesBefore(q, c, i)
  BY <1>1 DEF CreatesBefore
<1>3. (Ends(q2) <=> Ends(q)) /\ (Starting(q2) <=> Starting(q))
  BY <1>1 DEF Ends, Starting
<1>4. ASSUME NEW i \in DOMAIN q PROVE InOrder(u, q2, i, n, sv)
  <2>1. InOrder(u, q, i, n, sv)
    OBVIOUS
  <2>2. (\E j \in DOMAIN q2 : j < i /\ q2[j].op = "end") <=> (\E j \in DOMAIN q : j < i /\ q[j].op = "end")
    BY <1>1
  <2>3. (\A j \in DOMAIN q2 : q2[j].op \in {"list", "end"} => i < j) <=>
           (\A j \in DOMAIN q : q[j].op \in {"list", "end"} => i < j)
    BY <1>1
  <2> QED
    BY <1>1, <1>2, <2>1, <2>2, <2>3 DEF InOrder
<1> QED
  BY <1>1, <1>3, <1>4

\* The listeners that wait are told what is shown.
LEMMA ReachShows ==
    ASSUME NEW d \in Devices, NEW c \in Codes, NEW d2, d2 = Reach(d, c, "synced")
    PROVE  /\ d2 \in Devices /\ d2.queue = d.queue /\ d2.user = d.user /\ d2.cache = d.cache
           /\ Shows(d2) \subseteq Shows(d)
<1>2. d.inbox \in Seq(Events) /\ d.fresh[c] \in Nat /\ d.shown \in [Codes -> Docs \cup {NoDoc}]
  BY DeviceParts
<1>3. PICK x \in Docs \cup {NoDoc} : x = d.shown[c]
  BY <1>2
<1>4. PICK i : i = Called(d.inbox, d.fresh[c], Snapshot(c, x))
  OBVIOUS
<1>5. /\ d2.queue = d.queue /\ d2.user = d.user /\ d2.inbox = i
      /\ d2.cache = d.cache /\ d2.shown = d.shown
  BY <1>3, <1>4 DEF Reach, Devices
<1>6. Snapshot(c, x) \in Events /\ Snapshot(c, x).data = x
  BY DEF Snapshot, Events
<1>7. \A j \in DOMAIN i : (j \in DOMAIN d.inbox /\ i[j] = d.inbox[j]) \/ i[j] = Snapshot(c, x)
  BY <1>2, <1>4, <1>6, CalledEither
<1>8. Shows(d2) \subseteq Shows(d)
  BY <1>3, <1>5, <1>6, <1>7 DEF Shows
<1>9. d2 \in Devices
  <2>1. "synced" \in Links
    BY DEF Links
  <2> QED
    BY <2>1, ReachType
<1> QED
  BY <1>5, <1>8, <1>9

\* Devices whose listeners wait for nothing stay in order.
LEMMA ReachOrders ==
    ASSUME NEW u, NEW d, NEW n, NEW sv, Orders(u, d, n, sv), NEW c \in Codes,
           NEW d2, d2 = Reach(d, c, "synced")
    PROVE  Orders(u, d2, n, sv) /\ d2.queue = d.queue
<1>1. d \in Devices
  BY DEF Orders
<1>2. /\ d2 \in Devices /\ d2.queue = d.queue /\ d2.user = d.user /\ d2.cache = d.cache
      /\ Shows(d2) \subseteq Shows(d)
  BY <1>1, ReachShows
<1> QED
  BY <1>2 DEF Orders

\* The writes in q2 are those in q; their answers mean the same.
SameContents(q, q2) ==
    /\ SameKind(q, q2)
    /\ \A i \in DOMAIN q : q2[i].liked = q[i].liked /\ q2[i].sel = q[i].sel

\* u's device gets from d to d2 by taking the document c as remote into its cache,
\* refreshing its view, and telling the listeners that wait.
Takes(u, d, c, remote, d2) ==
    \E known \in Devices :
        /\ SameContents(d.queue[TRUE], known.queue[TRUE]) /\ known.user = TRUE
        /\ Shows(known) = Shows(d)
        /\ known.cache[c] = remote /\ \A o \in Codes \ {c} : known.cache[o] = d.cache[o]
        /\ d2 = Reach(Refresh(u, known, c), c, "synced")

LEMMA ReceiveSteps ==
    ASSUME NEW u \in Users, NEW d \in Devices, d.user = TRUE, NEW c \in Codes,
           NEW remote \in Docs \cup {NoDoc}, NEW d2, d2 = Receive(u, d, c, remote)
    PROVE  Takes(u, d, c, remote, d2)
<1> DEFINE Seen(w) == IF w.code = c /\ w.reply = "ok" THEN [w EXCEPT !.reply = "seen"] ELSE w
<1>1. PICK q : q = [b \in BOOLEAN |-> [i \in DOMAIN d.queue[b] |-> Seen(d.queue[b][i])]]
  OBVIOUS
<1>2. \A w \in Writes : /\ Seen(w) \in Writes /\ Seen(w).code = w.code /\ Seen(w).op = w.op
                        /\ Seen(w).liked = w.liked /\ Seen(w).sel = w.sel
                        /\ \/ Seen(w).reply = w.reply
                           \/ Seen(w).reply = "seen" /\ w.reply = "ok"
  BY DEF Writes
<1> HIDE DEF Seen
<1>3. ASSUME NEW b \in BOOLEAN
      PROVE  q[b] \in Seq(Writes) /\ SameContents(d.queue[b], q[b])
  <2>1. PICK old \in Seq(Writes) : old = d.queue[b]
    BY DeviceParts
  <2>2. /\ DOMAIN old = 1 .. Len(old) /\ Len(old) \in Nat
        /\ \A i \in 1 .. Len(old) : old[i] \in Writes
    OBVIOUS
  <2>3. [i \in 1 .. Len(old) |-> Seen(old[i])] \in [1 .. Len(old) -> Writes]
    BY <1>2, <2>2
  <2>4. q[b] = [i \in 1 .. Len(old) |-> Seen(old[i])]
    BY <1>1, <2>1, <2>2, Zenon
  <2>5. q[b] \in Seq(Writes) /\ DOMAIN q[b] = 1 .. Len(old)
    BY <2>2, <2>3, <2>4, SeqOf
  <2>6. \A i \in 1 .. Len(old) : q[b][i] = Seen(old[i])
    BY <2>4
  <2>7. ASSUME NEW i \in 1 .. Len(old)
        PROVE  /\ q[b][i].liked = old[i].liked /\ q[b][i].sel = old[i].sel
               /\ q[b][i].op = old[i].op /\ q[b][i].code = old[i].code
               /\ q[b][i].reply = old[i].reply \/ (q[b][i].reply = "seen" /\ old[i].reply = "ok")
    BY <1>2, <2>2, <2>6
  <2> QED
    BY <2>1, <2>2, <2>5, <2>7 DEF SameKind, SameContents
<1>4. q \in [BOOLEAN -> Seq(Writes)]
  BY <1>1, <1>3
<1>5. PICK k \in [Codes -> CachedDocs] : k = [d.cache EXCEPT ![c] = remote]
  BY DeviceParts DEF CachedDocs
<1>6. PICK a \in [Codes -> BOOLEAN] : a = [d.acked EXCEPT ![c] = FALSE]
  BY DeviceParts
<1>7. PICK known : known = [d EXCEPT !.cache = k, !.acked = a, !.queue = q]
  OBVIOUS
<1>8. /\ known \in Devices /\ known.queue = q /\ known.user = TRUE /\ known.inbox = d.inbox
      /\ known.cache = k /\ known.shown = d.shown
  BY <1>4, <1>7 DEF Devices, CachedDocs
<1>9. d2 = Reach(Refresh(u, known, c), c, "synced")
  BY <1>1, <1>5, <1>6, <1>7, Zenon DEF Receive, Seen
<1>10. Shows(known) = Shows(d)
  BY <1>8 DEF Shows
<1>11. known.cache[c] = remote /\ \A o \in Codes \ {c} : known.cache[o] = d.cache[o]
  BY <1>5, <1>8, DeviceParts
<1> QED
  BY <1>3, <1>8, <1>9, <1>10, <1>11 DEF Takes

\* A plausible document from the server leaves a device in order.
LEMMA ReceiveOrders ==
    ASSUME NEW u \in Users, NEW d, NEW n, NEW sv, Orders(u, d, n, sv), NEW c \in Codes,
           NEW remote \in Docs \cup {NoDoc}, Plausible(u, remote, Ended(sv), MayList(u, n, sv)),
           NEW d2, d2 = Receive(u, d, c, remote)
    PROVE  /\ Orders(u, d2, n, sv)
           /\ Ends(d2.queue[TRUE]) <=> Ends(d.queue[TRUE])
           /\ Starting(d2.queue[TRUE]) <=> Starting(d.queue[TRUE])
<1>1. d \in Devices /\ d.user = TRUE /\ OrderlyCache(u, d.cache, n, sv)
  BY DEF Orders
<1>2. PICK known \in Devices :
        /\ SameContents(d.queue[TRUE], known.queue[TRUE]) /\ known.user = TRUE
        /\ Shows(known) = Shows(d)
        /\ known.cache[c] = remote /\ \A o \in Codes \ {c} : known.cache[o] = d.cache[o]
        /\ d2 = Reach(Refresh(u, known, c), c, "synced")
  <2>1. Takes(u, d, c, remote, d2)
    BY <1>1, ReceiveSteps
  <2> QED
    BY <2>1 DEF Takes
<1>3. PICK d1 : d1 = Refresh(u, known, c)
  OBVIOUS
<1>4. PICK old : old = d.queue[TRUE]
  OBVIOUS
<1>5. PICK r : r = known.queue[TRUE]
  OBVIOUS
<1>6. SameKind(old, r) /\ \A i \in DOMAIN old : InOrder(u, old, i, n, sv)
  BY <1>2, <1>4, <1>5 DEF SameContents, Orders
<1>7. /\ \A i \in DOMAIN r : InOrder(u, r, i, n, sv)
      /\ Ends(r) <=> Ends(old)
      /\ Starting(r) <=> Starting(old)
  BY <1>6, SameOrder
<1>8. OrderlyCache(u, known.cache, n, sv)
  <2>1. Visible(remote) = remote
    BY MissingAssumption DEF Visible, Missing
  <2> QED
    BY <1>1, <1>2, <2>1 DEF OrderlyCache
<1>9. Orders(u, known, n, sv)
  BY <1>2, <1>4, <1>5, <1>7, <1>8, OrdersChanged
<1>10. Orders(u, d1, n, sv) /\ d1.queue = known.queue
  BY <1>3, <1>9, RefreshOrders
<1>11. Orders(u, d2, n, sv) /\ d2.queue = d1.queue
  BY <1>2, <1>3, <1>10, ReachOrders
<1> QED
  BY <1>4, <1>5, <1>7, <1>10, <1>11

------------------------------------------------------------------------------
(* The invariant, and steps that leave the server alone. *)

\* In the rounds that the theorems are about, the host taps Start at most once.
OneStart == \A u \in Users : Limit[u]["start"] <= 1

\* What a store remembers of lists and results; over means that the session is over
\* or that u's device has an end for it.
Remembers(u, s, f, n, sv, over) ==
    /\ s.restaurantList => MayList(u, n, sv)
    /\ s.result # NoResult => over /\ s.sessionCode # NoCode
    /\ s.createdSession => u \in Hosts
    /\ f => u \in Hosts /\ n > 0

\* Nothing happens before the host starts, and a start is not lost.
Begun(u, q, n, sv) ==
    u \in Hosts => /\ n \in Nat
                   /\ n = 0 => ~Listed(sv) /\ ~Ended(sv)
                   /\ n > 0 => Started(sv) \/ Starting(q)

EGood(u, d, s, f, n, sv) ==
    /\ Orders(u, d, n, sv)
    /\ Remembers(u, s, f, n, sv, Ended(sv) \/ Ends(d.queue[TRUE]))
    /\ Begun(u, d.queue[TRUE], n, sv)

\* A document that shows that its session is over is of a session that was ended,
\* and that is not live.
EServer(sv) ==
    \A c \in Codes : sv[c] # NoDoc => /\ IsOver(sv[c]) => Ended(sv)
                                      /\ sv[c].finished => ~sv[c].live

EInv == /\ \A u \in Users : EGood(u, dev[u], store[u], fetching[u], used[u]["start"], server)
        /\ EServer(server)

\* The device gets to d2 without losing an end or a start.
LEMMA EGoodMoves ==
    ASSUME NEW u, NEW d, NEW s, NEW f, NEW n, NEW sv, EGood(u, d, s, f, n, sv),
           NEW d2, NEW s2, NEW f2, Orders(u, d2, n, sv),
           Ends(d.queue[TRUE]) => Ended(sv) \/ Ends(d2.queue[TRUE]),
           Starting(d.queue[TRUE]) => Starting(d2.queue[TRUE]),
           Remembers(u, s2, f2, n, sv, Ended(sv) \/ Ends(d.queue[TRUE]))
    PROVE  EGood(u, d2, s2, f2, n, sv)
<1>1. Remembers(u, s2, f2, n, sv, Ended(sv) \/ Ends(d2.queue[TRUE]))
  BY DEF Remembers
<1>2. Begun(u, d2.queue[TRUE], n, sv)
  BY DEF EGood, Begun
<1> QED
  BY <1>1, <1>2 DEF EGood

\* User u's device gets to d, the store to s and the download to f, with n starts so
\* far; the others and the server stay.
Proceeds(u, d, s, f, n) ==
    /\ EGood(u, d, s, f, n, server) /\ UNCHANGED server
    /\ dev' = [dev EXCEPT ![u] = d] /\ store' = [store EXCEPT ![u] = s]
    /\ fetching' = [fetching EXCEPT ![u] = f]
    /\ used'[u]["start"] = n /\ \A v \in Users \ {u} : used'[v]["start"] = used[v]["start"]

\* A step of one user that leaves the server alone preserves the invariant.
LEMMA ELocalStep ==
    ASSUME IInv, EInv, NEW u \in Users, NEW d, NEW s, NEW f, NEW n, Proceeds(u, d, s, f, n)
    PROVE  EInv'
<1>1. /\ dev'[u] = d /\ store'[u] = s /\ fetching'[u] = f /\ server' = server
      /\ \A v \in Users \ {u} : /\ dev'[v] = dev[v] /\ store'[v] = store[v]
                                /\ fetching'[v] = fetching[v]
  BY DEF IInv, TypeOK, Proceeds
<1>2. /\ EGood(u, d, s, f, n, server)
      /\ used'[u]["start"] = n /\ \A v \in Users \ {u} : used'[v]["start"] = used[v]["start"]
  BY DEF Proceeds
<1>3. ASSUME NEW v \in Users
      PROVE  EGood(v, dev'[v], store'[v], fetching'[v], used'[v]["start"], server')
  <2>1. CASE v = u
    BY <1>1, <1>2, <2>1
  <2>2. CASE v # u
    BY <1>1, <1>2, <2>2 DEF EInv
  <2> QED
    BY <2>1, <2>2
<1>4. EServer(server')
  BY <1>1 DEF EInv
<1> QED
  BY <1>3, <1>4 DEF EInv

\* Nothing but Start counts as a start.
LEMMA SameStarts ==
    ASSUME IInv, UNCHANGED used \/ (\E v \in Users, k \in Kinds \ {"start"} : Count(v, k))
    PROVE  \A v \in Users : used'[v]["start"] = used[v]["start"]
<1>1. CASE UNCHANGED used
  BY <1>1
<1>2. ASSUME NEW u \in Users, NEW k \in Kinds \ {"start"}, Count(u, k)
      PROVE  \A v \in Users : used'[v]["start"] = used[v]["start"]
  BY <1>2 DEF IInv, TypeOK, Count, Kinds
<1> QED
  BY <1>1, <1>2

\* The session of a user who has a code exists or is about to.
LEMMA SessionWritable ==
    ASSUME NEW u, NEW d, NEW s, NEW x, NEW n, NEW sv, Good(u, d, s, x, n, sv), NEW c,
           c = s.sessionCode, c # NoCode
    PROVE  sv[c] # NoDoc \/ Creating(d.queue[TRUE], c)
  BY DEF Good, Part, MemberOf

\* Navigation preserves the invariant.
LEMMA NavigationEnds ==
    ASSUME OneRound, IInv, CInv, EInv, NEW u \in Users,
           \/ OpenCreate(u) \/ OpenJoin(u)
           \/ LeaveCreateScreen(u) \/ LeaveJoinScreen(u)
           \/ SignOut(u) \/ HearSignOut(u) \/ SignIn(u) \/ Quit(u) \/ Launch(u)
    PROVE  EInv'
<1>1. TypeOK /\ Calm
  BY DEF IInv, OneRound
<1>2. /\ dev = [dev EXCEPT ![u] = dev[u]] /\ store = [store EXCEPT ![u] = store[u]]
      /\ fetching = [fetching EXCEPT ![u] = fetching[u]]
      /\ dev[u] \in Devices /\ store[u] \in Stores
  BY <1>1 DEF TypeOK
<1>3. PICK n : n = used[u]["start"]
  OBVIOUS
<1>4. EGood(u, dev[u], store[u], fetching[u], n, server)
  BY <1>3 DEF EInv
<1>5. CASE OpenCreate(u)
  <2>1. PICK s : s = [store[u] EXCEPT !.createdSession = TRUE]
    OBVIOUS
  <2>2. /\ s.sessionCode = store[u].sessionCode /\ s.result = store[u].result
        /\ s.restaurantList = store[u].restaurantList
    BY <1>2, <2>1 DEF Stores
  <2>3. /\ store' = [store EXCEPT ![u] = s] /\ u \in Hosts
        /\ UNCHANGED <<server, dev, fetching, used>>
    BY <1>1, <1>5, <2>1 DEF OpenCreate, TypeOK
  <2>4. EGood(u, dev[u], s, fetching[u], n, server)
    BY <1>4, <2>2, <2>3 DEF EGood, Remembers
  <2>5. Proceeds(u, dev[u], s, fetching[u], n)
    BY <1>2, <1>3, <2>3, <2>4 DEF Proceeds
  <2> QED
    BY <2>5, ELocalStep
<1>6. CASE OpenJoin(u) \/ Launch(u)
  <2>1. UNCHANGED <<server, dev, store, fetching, used>>
    BY <1>6 DEF OpenJoin, Launch
  <2>2. Proceeds(u, dev[u], store[u], fetching[u], n)
    BY <1>2, <1>3, <1>4, <2>1 DEF Proceeds
  <2> QED
    BY <2>2, ELocalStep
<1>7. CASE \/ LeaveCreateScreen(u) \/ LeaveJoinScreen(u)
           \/ SignOut(u) \/ HearSignOut(u) \/ SignIn(u) \/ Quit(u)
  <2>1. ~Allowed(u, "back") /\ ~Allowed(u, "sign")
    BY <1>1, CalmAllows
  <2>2. ~Allowed(u, "quit")
    BY <1>1 DEF OneRound, Allowed, TypeOK, Kinds
  <2>3. store[u].session
    BY DEF CInv, InSession
  <2> QED
    BY <1>7, <2>1, <2>2, <2>3
       DEF LeaveCreateScreen, LeaveJoinScreen, ScreenGone, SignOut, HearSignOut, SignIn, Quit
<1> QED
  BY <1>5, <1>6, <1>7

\* One write is issued, and the store stays.
LEMMA EGoodIssue ==
    ASSUME NEW u \in Users, NEW d, NEW s, NEW f, NEW n, NEW sv, EGood(u, d, s, f, n, sv),
           NEW w \in Writes, MayAdd(u, w, d.queue[TRUE], n, sv), NEW d2, d2 = Issue(u, d, w)
    PROVE  EGood(u, d2, s, f, n, sv)
<1>1. Orders(u, d, n, sv) /\ Remembers(u, s, f, n, sv, Ended(sv) \/ Ends(d.queue[TRUE]))
  BY DEF EGood
<1>2. /\ Orders(u, d2, n, sv)
      /\ Ends(d2.queue[TRUE]) <=> Ends(d.queue[TRUE]) \/ w.op = "end"
      /\ Starting(d2.queue[TRUE]) <=> Starting(d.queue[TRUE]) \/ w.op = "start"
  BY <1>1, IssueOrders
<1> QED
  BY <1>1, <1>2, EGoodMoves

\* A new listener keeps what the invariant says of a user.
LEMMA EGoodWatch ==
    ASSUME NEW u \in Users, NEW d, NEW s, NEW f, NEW n, NEW sv, EGood(u, d, s, f, n, sv),
           NEW c \in Codes, NEW d2, d2 = Watch(u, d, c)
    PROVE  EGood(u, d2, s, f, n, sv)
<1>1. Orders(u, d, n, sv) /\ Remembers(u, s, f, n, sv, Ended(sv) \/ Ends(d.queue[TRUE]))
  BY DEF EGood
<1>2. Orders(u, d2, n, sv) /\ d2.queue = d.queue
  BY <1>1, WatchOrders
<1> QED
  BY <1>1, <1>2, EGoodMoves

\* A start makes more possible.
LEMMA OrdersStarted ==
    ASSUME NEW u, NEW d, NEW n \in Nat, NEW sv, Orders(u, d, n, sv), NEW n2 \in Nat, n2 >= n
    PROVE  Orders(u, d, n2, sv) /\ (MayList(u, n, sv) => MayList(u, n2, sv))
<1>1. n > 0 => n2 > 0
  OBVIOUS
<1>2. MayList(u, n, sv) => MayList(u, n2, sv)
  BY <1>1 DEF MayList
<1>3. \A q, i : InOrder(u, q, i, n, sv) => InOrder(u, q, i, n2, sv)
  BY <1>1, <1>2 DEF InOrder
<1>4. \A x, over : Plausible(u, x, over, MayList(u, n, sv)) => Plausible(u, x, over, MayList(u, n2, sv))
  BY <1>2 DEF Plausible
<1> QED
  BY <1>2, <1>3, <1>4 DEF Orders, OrderlyCache

\* u's device d may write to session c, and has no list and no end in its queue.
Ready(u, d, c, n, sv) ==
    /\ Orders(u, d, n, sv)
    /\ sv[c] # NoDoc \/ Creating(d.queue[TRUE], c)
    /\ \A j \in DOMAIN d.queue[TRUE] : d.queue[TRUE][j].op \notin {"list", "end"}

\* A write behind a start that is about to be queued.
LEMMA ReadyIssue ==
    ASSUME NEW u \in Users, NEW d, NEW c, NEW n, NEW sv, Ready(u, d, c, n, sv),
           NEW w \in Writes, w.code = c, w.reply = "none", w.op \in {"time", "radius"},
           NEW d2, d2 = Issue(u, d, w)
    PROVE  Ready(u, d2, c, n, sv) /\ (Ends(d2.queue[TRUE]) <=> Ends(d.queue[TRUE]))
<1>1. MayAdd(u, w, d.queue[TRUE], n, sv)
  BY DEF MayAdd, Ready
<1>2. Orders(u, d, n, sv)
  BY DEF Ready
<1>3. /\ Orders(u, d2, n, sv)
      /\ Ends(d2.queue[TRUE]) <=> Ends(d.queue[TRUE]) \/ w.op = "end"
      /\ Behind(d.queue[TRUE], d2.queue[TRUE], w.op)
  BY <1>1, <1>2, IssueOrders
<1>4. \A j \in DOMAIN d2.queue[TRUE] : d2.queue[TRUE][j].op \notin {"list", "end"}
  BY <1>3 DEF Ready, Behind
<1> QED
  BY <1>3, <1>4 DEF Ready, Behind

\* The start itself.
LEMMA ReadyStart ==
    ASSUME NEW u \in Users, u \in Hosts, NEW d, NEW c, NEW n, n > 0, NEW sv, Ready(u, d, c, n, sv),
           ~Listed(sv), ~Ended(sv),
           NEW w \in Writes, w.code = c, w.reply = "none", w.op = "start",
           NEW d2, d2 = Issue(u, d, w)
    PROVE  /\ Orders(u, d2, n, sv) /\ (Ends(d2.queue[TRUE]) <=> Ends(d.queue[TRUE]))
           /\ Starting(d2.queue[TRUE])
<1>1. MayAdd(u, w, d.queue[TRUE], n, sv)
  BY DEF MayAdd, Ready
<1>2. Orders(u, d, n, sv)
  BY DEF Ready
<1>3. /\ Orders(u, d2, n, sv)
      /\ Ends(d2.queue[TRUE]) <=> Ends(d.queue[TRUE]) \/ w.op = "end"
      /\ Starting(d2.queue[TRUE]) <=> Starting(d.queue[TRUE]) \/ w.op = "start"
  BY <1>1, <1>2, IssueOrders
<1> QED
  BY <1>3

\* A host who has not started starts: three writes, and the session is watched again.
LEMMA StartGood ==
    ASSUME NEW u \in Users, u \in Hosts, NEW d, NEW s, NEW f, NEW n, NEW sv, EGood(u, d, s, f, n, sv),
           n = 0, NEW m, m = 1,
           NEW c \in Codes, sv[c] # NoDoc \/ Creating(d.queue[TRUE], c),
           NEW w1 \in Writes, w1.op = "time", w1.code = c, w1.reply = "none",
           NEW w2 \in Writes, w2.op = "radius", w2.code = c, w2.reply = "none",
           NEW w3 \in Writes, w3.op = "start", w3.code = c, w3.reply = "none",
           NEW d1, d1 = Issue(u, d, w1), NEW d2, d2 = Issue(u, d1, w2),
           NEW d3, d3 = Issue(u, d2, w3), NEW d4, d4 = Watch(u, d3, c)
    PROVE  EGood(u, d4, s, TRUE, m, sv)
<1>1. n \in Nat /\ m \in Nat /\ m > 0 /\ m >= n /\ m # 0
  OBVIOUS
<1>2. ~(n > 0)
  OBVIOUS
<1>3. /\ Orders(u, d, n, sv) /\ Begun(u, d.queue[TRUE], n, sv)
      /\ Remembers(u, s, f, n, sv, Ended(sv) \/ Ends(d.queue[TRUE]))
  BY DEF EGood
<1>4. Orders(u, d, m, sv) /\ (MayList(u, n, sv) => MayList(u, m, sv))
  BY <1>1, <1>3, OrdersStarted
<1>5. ~Listed(sv) /\ ~Ended(sv)
  BY <1>3 DEF Begun
<1>6. \A j \in DOMAIN d.queue[TRUE] : d.queue[TRUE][j].op \notin {"list", "end"}
  BY <1>2, <1>3 DEF Orders, InOrder, MayList
<1>7. Ready(u, d, c, m, sv)
  BY <1>4, <1>6 DEF Ready
<1>8. Ready(u, d1, c, m, sv) /\ (Ends(d1.queue[TRUE]) <=> Ends(d.queue[TRUE]))
  BY <1>7, ReadyIssue
<1>9. Ready(u, d2, c, m, sv) /\ (Ends(d2.queue[TRUE]) <=> Ends(d1.queue[TRUE]))
  BY <1>8, ReadyIssue
<1>10. /\ Orders(u, d3, m, sv) /\ (Ends(d3.queue[TRUE]) <=> Ends(d2.queue[TRUE]))
       /\ Starting(d3.queue[TRUE])
  BY <1>1, <1>5, <1>9, ReadyStart
<1>11. Orders(u, d4, m, sv) /\ d4.queue = d3.queue
  BY <1>10, WatchOrders
<1>12. Remembers(u, s, TRUE, m, sv, Ended(sv) \/ Ends(d4.queue[TRUE]))
  BY <1>1, <1>3, <1>4, <1>8, <1>9, <1>10, <1>11 DEF Remembers
<1>13. Begun(u, d4.queue[TRUE], m, sv)
  BY <1>1, <1>10, <1>11 DEF Begun
<1> QED
  BY <1>11, <1>12, <1>13 DEF EGood

\* The operations of a session preserve the invariant.
LEMMA OperationEnds ==
    ASSUME OneRound, OneStart, IInv, CInv, RInv, EInv, NEW u \in Users,
           \/ \E c \in Codes : CreateSession(u, c)
           \/ \E c \in Codes : JoinSession(u, c)
           \/ \E t \in TimeLimits, r \in Radii : Start(u, t, r)
           \/ ReceiveRestaurants(u) \/ FetchFails(u)
           \/ \E r \in Restaurants : LikeRestaurant(u, r)
           \/ EndSession(u)
    PROVE  EInv'
<1>1. TypeOK /\ Calm
  BY DEF IInv, OneRound
<1>2. /\ dev = [dev EXCEPT ![u] = dev[u]] /\ store = [store EXCEPT ![u] = store[u]]
      /\ fetching = [fetching EXCEPT ![u] = fetching[u]]
      /\ dev[u] \in Devices /\ store[u] \in Stores
  BY <1>1 DEF TypeOK
<1>3. PICK n : n = used[u]["start"]
  OBVIOUS
<1>4. /\ EGood(u, dev[u], store[u], fetching[u], n, server)
      /\ Good(u, dev[u], store[u], screen[u], used[u]["join"], server)
  BY <1>3 DEF EInv, RInv
<1>5. store[u].sessionCode # NoCode => store[u].sessionCode \in Codes
  BY <1>2 DEF Stores
<1>6. ASSUME NEW op \in Ops, NEW c \in Codes
      PROVE  /\ Write(op, c) \in Writes /\ Write(op, c).op = op /\ Write(op, c).code = c
             /\ Write(op, c).reply = "none"
  BY WriteType DEF Write
<1>7. ASSUME UNCHANGED used \/ (\E k \in {"create", "join", "end"} : Count(u, k))
      PROVE  used'[u]["start"] = n /\ \A v \in Users \ {u} : used'[v]["start"] = used[v]["start"]
  <2>1. {"create", "join", "end"} \subseteq Kinds \ {"start"}
    BY DEF Kinds
  <2> QED
    BY <1>3, <1>7, <2>1, SameStarts
<1>8. ASSUME NEW c \in Codes, CreateSession(u, c) PROVE EInv'
  <2>1. PICK w : w = Write("create", c)
    OBVIOUS
  <2>2. w \in Writes /\ w.op = "create" /\ w.reply = "none"
    BY <1>6, <2>1 DEF Ops
  <2>3. PICK s : s = [store[u] EXCEPT !.sessionCode = c]
    OBVIOUS
  <2>4. /\ s.sessionCode # NoCode /\ s.result = store[u].result
        /\ s.restaurantList = store[u].restaurantList /\ s.createdSession = store[u].createdSession
    BY <1>2, <2>3, SessionStoreAssumption DEF Stores
  <2>5. EGood(u, dev[u], s, fetching[u], n, server)
    BY <1>4, <2>4 DEF EGood, Remembers
  <2>6. MayAdd(u, w, dev[u].queue[TRUE], n, server)
    BY <2>2 DEF MayAdd
  <2>7. PICK d : d = Issue(u, dev[u], w)
    OBVIOUS
  <2>8. PICK d2 : d2 = Watch(u, d, c)
    OBVIOUS
  <2>9. EGood(u, d, s, fetching[u], n, server)
    BY <2>2, <2>5, <2>6, <2>7, EGoodIssue
  <2>10. EGood(u, d2, s, fetching[u], n, server)
    BY <2>8, <2>9, EGoodWatch
  <2>11. /\ dev' = [dev EXCEPT ![u] = d2] /\ store' = [store EXCEPT ![u] = s]
         /\ UNCHANGED <<server, fetching>> /\ Count(u, "create")
    BY <1>8, <2>1, <2>3, <2>7, <2>8 DEF CreateSession, Do
  <2>12. used'[u]["start"] = n /\ \A v \in Users \ {u} : used'[v]["start"] = used[v]["start"]
    BY <1>7, <2>11
  <2>13. Proceeds(u, d2, s, fetching[u], n)
    BY <1>2, <2>10, <2>11, <2>12 DEF Proceeds
  <2> QED
    BY <2>13, ELocalStep
<1>9. ASSUME NEW w \in Writes, MayAdd(u, w, dev[u].queue[TRUE], n, server), NEW f,
             f => fetching[u],
             dev' = [dev EXCEPT ![u] = Issue(u, dev[u], w)], UNCHANGED <<server, store>>,
             fetching' = [fetching EXCEPT ![u] = f],
             UNCHANGED used \/ (\E k \in {"create", "join", "end"} : Count(u, k))
      PROVE  EInv'
  <2>1. PICK d : d = Issue(u, dev[u], w)
    OBVIOUS
  <2>2. EGood(u, dev[u], store[u], f, n, server)
    BY <1>4, <1>9 DEF EGood, Remembers
  <2>3. EGood(u, d, store[u], f, n, server)
    BY <1>9, <2>1, <2>2, EGoodIssue
  <2>4. used'[u]["start"] = n /\ \A v \in Users \ {u} : used'[v]["start"] = used[v]["start"]
    BY <1>7, <1>9
  <2>5. Proceeds(u, d, store[u], f, n)
    BY <1>2, <1>9, <2>1, <2>3, <2>4 DEF Proceeds
  <2> QED
    BY <2>5, ELocalStep
<1>10. ASSUME NEW c \in Codes, JoinSession(u, c) PROVE EInv'
  <2>1. PICK w : w = Write("join", c)
    OBVIOUS
  <2>2. w \in Writes /\ w.op = "join" /\ w.reply = "none"
    BY <1>6, <2>1 DEF Ops
  <2>3. u \notin Hosts
    BY <1>4, <1>10 DEF JoinSession, JoinForm, OnTop, Good, Roles, OneRound
  <2>4. MayAdd(u, w, dev[u].queue[TRUE], n, server)
    BY <2>2, <2>3 DEF MayAdd
  <2>5. /\ dev' = [dev EXCEPT ![u] = Issue(u, dev[u], w)]
        /\ UNCHANGED <<server, store, fetching>> /\ Count(u, "join")
    BY <1>10, <2>1 DEF JoinSession
  <2>6. PICK f : f = fetching[u]
    OBVIOUS
  <2>7. fetching' = [fetching EXCEPT ![u] = f] /\ (f => fetching[u])
    BY <1>2, <2>5, <2>6, Zenon
  <2>8. UNCHANGED used \/ (\E k \in {"create", "join", "end"} : Count(u, k))
    BY <2>5
  <2>9. dev' = [dev EXCEPT ![u] = Issue(u, dev[u], w)] /\ UNCHANGED <<server, store>>
    BY <2>1, <2>5
  <2> QED
    BY <1>9, <2>2, <2>4, <2>7, <2>8, <2>9
<1>11. ASSUME NEW t \in TimeLimits, NEW r \in Radii, Start(u, t, r) PROVE EInv'
  <2>1. PICK c \in Codes : c = store[u].sessionCode /\ c # NoCode
    BY <1>5, <1>11 DEF Start
  <2>2. t \in Int /\ r \in Int
    BY FirestoreAssumption
  <2>3. {"time", "radius", "start"} \subseteq Ops
    BY DEF Ops
  <2>4. PICK w1 : w1 = [Write("time", c) EXCEPT !.num = t]
    OBVIOUS
  <2>5. PICK w2 : w2 = [Write("radius", c) EXCEPT !.num = r]
    OBVIOUS
  <2>6. PICK w3 : w3 = Write("start", c)
    OBVIOUS
  <2>7. /\ w1 \in Writes /\ w1.op = "time" /\ w1.code = c /\ w1.reply = "none"
        /\ w2 \in Writes /\ w2.op = "radius" /\ w2.code = c /\ w2.reply = "none"
        /\ w3 \in Writes /\ w3.op = "start" /\ w3.code = c /\ w3.reply = "none"
    BY <2>2, <2>3, <2>4, <2>5, <2>6, WriteType DEF Write
  <2>8. PICK d1 : d1 = Issue(u, dev[u], w1)
    OBVIOUS
  <2>9. PICK d2 : d2 = Issue(u, d1, w2)
    OBVIOUS
  <2>10. PICK d3 : d3 = Issue(u, d2, w3)
    OBVIOUS
  <2>11. PICK d4 : d4 = Watch(u, d3, c)
    OBVIOUS
  <2>12. u \in Hosts
    BY <1>4, <1>11 DEF Start, CreateForm, OnTop, Good, Roles
  <2>13. n = 0
    <3>1. n \in Nat /\ Limit[u]["start"] \in Nat /\ Limit[u]["start"] <= 1
      BY <1>1, <1>3, SessionStoreAssumption DEF TypeOK, OneStart, Kinds
    <3>2. n < Limit[u]["start"]
      BY <1>3, <1>11 DEF Start, Allowed
    <3> QED
      BY <3>1, <3>2
  <2>14. server[c] # NoDoc \/ Creating(dev[u].queue[TRUE], c)
    BY <1>4, <2>1, SessionWritable
  <2>m. PICK m : m = 1
    OBVIOUS
  <2>15. EGood(u, d4, store[u], TRUE, m, server)
    BY <1>4, <2>7, <2>8, <2>9, <2>10, <2>11, <2>12, <2>13, <2>14, <2>m, StartGood
  <2>16. /\ dev' = [dev EXCEPT ![u] = d4] /\ fetching' = [fetching EXCEPT ![u] = TRUE]
         /\ UNCHANGED <<server, store>> /\ Count(u, "start")
    BY <1>11, <2>1, <2>4, <2>5, <2>6, <2>8, <2>9, <2>10, <2>11 DEF Start
  <2>17. /\ used'[u]["start"] = m
         /\ \A v \in Users \ {u} : used'[v]["start"] = used[v]["start"]
    <3>1. Count(u, "start") /\ used \in [Users -> [Kinds -> Nat]] /\ "start" \in Kinds
      BY <1>1, <2>16 DEF TypeOK, Kinds
    <3>2. used' = [used EXCEPT ![u] = [used[u] EXCEPT !["start"] = used[u]["start"] + 1]]
      BY <3>1 DEF Count
    <3>3. /\ used'[u] = [used[u] EXCEPT !["start"] = used[u]["start"] + 1]
          /\ \A v \in Users \ {u} : used'[v] = used[v]
      BY <3>1, <3>2
    <3>4. used[u]["start"] + 1 = 1
      BY <1>3, <2>13
    <3>5. used'[u]["start"] = used[u]["start"] + 1
      BY <3>1, <3>3
    <3> QED
      BY <2>m, <3>3, <3>4, <3>5
  <2>18. Proceeds(u, d4, store[u], TRUE, m)
    BY <1>2, <2>15, <2>16, <2>17 DEF Proceeds
  <2> QED
    BY <2>18, ELocalStep
<1>12. InSession(dev[u], store[u], fetching[u])
  BY DEF CInv
<1>13. CASE ReceiveRestaurants(u)
  <2>1. PICK c \in Codes : c = store[u].sessionCode /\ c # NoCode
    BY <1>5, <1>12, <1>13 DEF ReceiveRestaurants, InSession
  <2>2. /\ dev' = [dev EXCEPT ![u] = Issue(u, dev[u], Write("list", c))]
        /\ fetching' = [fetching EXCEPT ![u] = FALSE]
        /\ UNCHANGED <<server, store, used>>
    BY <1>13, <2>1 DEF ReceiveRestaurants
  <2>3. PICK w : w = Write("list", c)
    OBVIOUS
  <2>4. w \in Writes /\ w.op = "list" /\ w.code = c /\ w.reply = "none"
    BY <1>6, <2>3 DEF Ops
  <2>5. u \in Hosts /\ n > 0
    BY <1>4, <1>13 DEF ReceiveRestaurants, EGood, Remembers
  <2>6. server[c] # NoDoc \/ Creating(dev[u].queue[TRUE], c)
    BY <1>4, <2>1, SessionWritable
  <2>7. MayAdd(u, w, dev[u].queue[TRUE], n, server)
    BY <2>4, <2>5, <2>6 DEF MayAdd
  <2> QED
    BY <1>9, <2>2, <2>3, <2>4, <2>7
<1>14. CASE EndSession(u)
  <2>1. PICK c \in Codes : c = store[u].sessionCode /\ c # NoCode
    BY <1>5, <1>12, <1>14 DEF EndSession, EndDue, ShowsLive, OnTop, InSession
  <2>2. /\ dev' = [dev EXCEPT ![u] = Issue(u, dev[u], Write("end", c))]
        /\ UNCHANGED <<server, store, fetching>> /\ Count(u, "end")
    BY <1>14, <2>1 DEF EndSession
  <2>3. PICK w : w = Write("end", c)
    OBVIOUS
  <2>4. w \in Writes /\ w.op = "end" /\ w.code = c /\ w.reply = "none"
    BY <1>6, <2>3 DEF Ops
  <2>5. MayList(u, n, server)
    BY <1>4, <1>14 DEF EndSession, EndDue, ShowsLive, OnTop, EGood, Remembers
  <2>6. server[c] # NoDoc \/ Creating(dev[u].queue[TRUE], c)
    BY <1>4, <2>1, SessionWritable
  <2>7. MayAdd(u, w, dev[u].queue[TRUE], n, server)
    BY <2>4, <2>5, <2>6 DEF MayAdd
  <2>8. PICK f : f = fetching[u]
    OBVIOUS
  <2>9. fetching' = [fetching EXCEPT ![u] = f] /\ (f => fetching[u])
    BY <1>2, <2>2, <2>8, Zenon
  <2>10. UNCHANGED used \/ (\E k \in {"create", "join", "end"} : Count(u, k))
    BY <2>2
  <2>11. dev' = [dev EXCEPT ![u] = Issue(u, dev[u], w)] /\ UNCHANGED <<server, store>>
    BY <2>2, <2>3
  <2> QED
    BY <1>9, <2>4, <2>7, <2>9, <2>10, <2>11
<1>15. CASE FetchFails(u)
  <2>1. /\ fetching' = [fetching EXCEPT ![u] = FALSE] /\ UNCHANGED <<server, dev, store, used>>
    BY <1>15 DEF FetchFails
  <2>2. EGood(u, dev[u], store[u], FALSE, n, server)
    BY <1>4 DEF EGood, Remembers
  <2>3. Proceeds(u, dev[u], store[u], FALSE, n)
    BY <1>2, <1>7, <2>1, <2>2 DEF Proceeds
  <2> QED
    BY <2>3, ELocalStep
<1>16. ASSUME NEW r \in Restaurants, LikeRestaurant(u, r) PROVE EInv'
  <2>1. PICK s : s = [store[u] EXCEPT !.likedRestaurants = store[u].likedRestaurants \cup {r}]
    OBVIOUS
  <2>2. /\ s.sessionCode = store[u].sessionCode /\ s.result = store[u].result
        /\ s.restaurantList = store[u].restaurantList /\ s.createdSession = store[u].createdSession
    BY <1>2, <2>1 DEF Stores
  <2>3. /\ store' = [store EXCEPT ![u] = s] /\ UNCHANGED <<server, dev, fetching, used>>
    BY <1>1, <1>16, <2>1 DEF LikeRestaurant, TypeOK
  <2>4. EGood(u, dev[u], s, fetching[u], n, server)
    BY <1>4, <2>2 DEF EGood, Remembers
  <2>5. Proceeds(u, dev[u], s, fetching[u], n)
    BY <1>2, <1>7, <2>3, <2>4 DEF Proceeds
  <2> QED
    BY <2>5, ELocalStep
<1> QED
  BY <1>8, <1>10, <1>11, <1>13, <1>14, <1>15, <1>16

\* The completion of a join preserves the invariant.
LEMMA JoinedEnds ==
    ASSUME OneRound, IInv, EInv, NEW u \in Users, Joined(u)
    PROVE  EInv'
<1>1. /\ fetching = [fetching EXCEPT ![u] = fetching[u]]
      /\ dev[u] \in Devices /\ store[u] \in Stores
  BY DEF IInv, TypeOK
<1>2. PICK n : n = used[u]["start"]
  OBVIOUS
<1>3. EGood(u, dev[u], store[u], fetching[u], n, server)
  BY <1>2 DEF EInv
<1>4. /\ dev[u].inbox # <<>> /\ UNCHANGED <<server, fetching, used>>
  BY DEF Joined, Arrived, CallbackDue
<1>5. PICK e \in Events : e = Head(dev[u].inbox)
  BY <1>4, HandledFits DEF IInv
<1>6. PICK d : d = Handled(dev[u])
  OBVIOUS
<1>7. Orders(u, d, n, server) /\ d.queue = dev[u].queue
  BY <1>3, <1>4, <1>6, HandledOrders DEF EGood
<1>8. PICK s : s = IF e.ok THEN [store[u] EXCEPT !.sessionCode = e.code]
                   ELSE [store[u] EXCEPT !.sessionError = "join"]
  OBVIOUS
<1>9. /\ s.result = store[u].result /\ s.restaurantList = store[u].restaurantList
      /\ s.createdSession = store[u].createdSession
      /\ store[u].sessionCode # NoCode => s.sessionCode # NoCode
  <2>1. e.code \in Codes
    BY DEF Events
  <2> QED
    BY <1>1, <1>8, <2>1, SessionStoreAssumption DEF Stores
<1>10. Remembers(u, s, fetching[u], n, server, Ended(server) \/ Ends(dev[u].queue[TRUE]))
  BY <1>3, <1>9 DEF EGood, Remembers
<1>11. EGood(u, d, s, fetching[u], n, server)
  BY <1>3, <1>7, <1>10, EGoodMoves
<1>12. PICK d2 : d2 = IF e.ok THEN Watch(u, d, e.code) ELSE d
  OBVIOUS
<1>13. EGood(u, d2, s, fetching[u], n, server)
  <2>1. e.code \in Codes
    BY DEF Events
  <2>2. CASE e.ok
    BY <1>11, <1>12, <2>1, <2>2, EGoodWatch
  <2>3. CASE ~e.ok
    BY <1>11, <1>12, <2>3
  <2> QED
    BY <2>2, <2>3
<1>14. dev' = [dev EXCEPT ![u] = d2] /\ store' = [store EXCEPT ![u] = s]
  <2>1. CASE e.ok
    BY <1>5, <1>6, <1>8, <1>12, <2>1 DEF Joined, Do
  <2>2. CASE ~e.ok
    BY <1>5, <1>6, <1>8, <1>12, <2>2 DEF Joined, Do
  <2> QED
    BY <2>1, <2>2
<1>15. Proceeds(u, d2, s, fetching[u], n)
  BY <1>1, <1>2, <1>4, <1>13, <1>14 DEF Proceeds
<1> QED
  BY <1>15, ELocalStep

\* A write of final likes, or of a result, may follow an end.
LEMMA ClosingIssue ==
    ASSUME NEW u \in Users, NEW d, NEW n, NEW sv, Orders(u, d, n, sv), NEW c,
           sv[c] # NoDoc \/ Creating(d.queue[TRUE], c), Ended(sv) \/ Ends(d.queue[TRUE]),
           NEW w \in Writes, w.code = c, w.reply = "none", w.op \in {"push", "result"},
           NEW d2, d2 = Issue(u, d, w)
    PROVE  /\ Orders(u, d2, n, sv)
           /\ sv[c] # NoDoc \/ Creating(d2.queue[TRUE], c)
           /\ Ends(d2.queue[TRUE]) <=> Ends(d.queue[TRUE])
           /\ Starting(d2.queue[TRUE]) <=> Starting(d.queue[TRUE])
<1>1. MayAdd(u, w, d.queue[TRUE], n, sv)
  BY DEF MayAdd
<1>2. /\ Orders(u, d2, n, sv)
      /\ Ends(d2.queue[TRUE]) <=> Ends(d.queue[TRUE]) \/ w.op = "end"
      /\ Starting(d2.queue[TRUE]) <=> Starting(d.queue[TRUE]) \/ w.op = "start"
      /\ Behind(d.queue[TRUE], d2.queue[TRUE], w.op)
  BY <1>1, IssueOrders
<1> QED
  BY <1>2 DEF Behind

\* What the store remembers after a plausible snapshot.
LEMMA AbsorbRemembers ==
    ASSUME NEW u, NEW s \in Stores, NEW d \in Docs, NEW f, NEW n, NEW sv, NEW over,
           Remembers(u, s, f, n, sv, over), Plausible(u, d, over, MayList(u, n, sv)),
           s.sessionCode # NoCode, NEW push, NEW s2, s2 = [Absorb(s, d) EXCEPT !.pushed = @ \/ push]
    PROVE  /\ Remembers(u, s2, f, n, sv, over)
           /\ MustPush(s, d) => over
           /\ MustCalc(s, d) => over
<1>1. d # NoDoc
  BY MissingAssumption
<1>2. /\ IsOver(d) => over
      /\ d.restaurantList => MayList(u, n, sv)
      /\ u \in Hosts => d.participants >= 1
  BY <1>1 DEF Plausible
<1>3. d.participants \in Int /\ d.finishedPushing \in Int
  BY DEF Docs
<1>4. MustPush(s, d) => over
  BY <1>2 DEF MustPush, IsOver
<1>5. MustCalc(s, d) => over
  <2> SUFFICES ASSUME MustCalc(s, d) PROVE over
    OBVIOUS
  <2>1. d.finishedPushing = d.participants /\ u \in Hosts
    BY DEF MustCalc, Remembers
  <2>2. d.finishedPushing > 0
    BY <1>2, <1>3, <2>1
  <2> QED
    BY <1>2, <2>2 DEF IsOver
<1>6. PICK r \in BOOLEAN : r = (d.restaurantList \/ s.restaurantList)
  OBVIOUS
<1>7. PICK b : b = (s.pushed \/ push)
  OBVIOUS
<1>8. /\ s2.restaurantList = r /\ s2.sessionCode = s.sessionCode
      /\ s2.createdSession = s.createdSession
      /\ s2.result = IF d.result # NoResult THEN d.result ELSE s.result
  <2>0. Absorb(s, d) \in Stores
    BY AbsorbType
  <2>1. PICK a \in Stores : a = Absorb(s, d)
    BY <2>0
  <2>2. /\ a.restaurantList = r /\ a.sessionCode = s.sessionCode
        /\ a.createdSession = s.createdSession
        /\ a.result = IF d.result # NoResult THEN d.result ELSE s.result
    BY <1>6, <2>1 DEF Absorb, Stores
  <2>3. s2 = [a EXCEPT !.pushed = a.pushed \/ push]
    BY <2>1
  <2>4. PICK p : p = (a.pushed \/ push)
    OBVIOUS
  <2>5. s2 = [a EXCEPT !.pushed = p]
    BY <2>3, <2>4
  <2>6. /\ s2.restaurantList = a.restaurantList /\ s2.sessionCode = a.sessionCode
        /\ s2.createdSession = a.createdSession /\ s2.result = a.result
    BY <2>5 DEF Stores
  <2> QED
    BY <2>2, <2>6
<1>9. s2.restaurantList => MayList(u, n, sv)
  BY <1>2, <1>6, <1>8 DEF Remembers
<1>10. s2.result # NoResult => over /\ s2.sessionCode # NoCode
  BY <1>2, <1>8 DEF Remembers, IsOver
<1> QED
  BY <1>4, <1>5, <1>8, <1>9, <1>10 DEF Remembers

\* A snapshot with data preserves the invariant: a push follows an end.
LEMMA SnapshotDataEnds ==
    ASSUME OneRound, IInv, MInv, CInv, RInv, EInv, NEW u \in Users, SnapshotData(u)
    PROVE  EInv'
<1>1. /\ fetching = [fetching EXCEPT ![u] = fetching[u]]
      /\ dev[u] \in Devices /\ store[u] \in Stores
  BY DEF IInv, TypeOK
<1>2. PICK n : n = used[u]["start"]
  OBVIOUS
<1>3. /\ EGood(u, dev[u], store[u], fetching[u], n, server)
      /\ Good(u, dev[u], store[u], screen[u], used[u]["join"], server)
  BY <1>2 DEF EInv, RInv
<1>4. dev[u].inbox # <<>> /\ Head(dev[u].inbox).data # NoDoc
  BY DEF SnapshotData, Arrived, CallbackDue
<1>5. PICK popped : popped = Handled(dev[u])
  OBVIOUS
<1>6. PICK e \in Events : e = Head(dev[u].inbox)
  BY <1>4, HandledFits DEF IInv
<1>7. PICK d \in Docs : d = e.data
  BY <1>4, <1>6 DEF Events
<1>8. store[u].session /\ store[u].sessionCode # NoCode /\ DOMAIN d.likes # {}
  BY <1>4, <1>6, <1>7, SnapshotInSession DEF SnapshotData
<1>9. PICK c \in Codes : c = store[u].sessionCode
  BY <1>1, <1>8 DEF Stores
<1>10. PICK push \in BOOLEAN : push = MustPush(store[u], d)
  BY DEF MustPush
<1>11. PICK after : after = IF push THEN PushResults(u, popped) ELSE popped
  OBVIOUS
<1>12. PICK new : new = [Absorb(store[u], d) EXCEPT !.pushed = @ \/ push]
  OBVIOUS
<1>13. /\ \/ Do(u, after, new)
          \/ MustCalc(store[u], d) /\ \E sel \in Selections(d.likes) : Do(u, CalcResult(u, after, sel), new)
       /\ UNCHANGED <<server, fetching, used>>
  BY <1>5, <1>6, <1>7, <1>8, <1>10, <1>11, <1>12 DEF SnapshotData
<1>14. PICK over \in BOOLEAN : over = (Ended(server) \/ Ends(dev[u].queue[TRUE]))
  BY DEF Ended, Ends
<1>15. /\ Orders(u, popped, n, server) /\ popped.queue = dev[u].queue
       /\ Plausible(u, d, over, MayList(u, n, server))
  BY <1>3, <1>4, <1>5, <1>6, <1>7, <1>14, HandledOrders DEF EGood
<1>16. /\ Remembers(u, new, fetching[u], n, server, over)
       /\ push => over
       /\ MustCalc(store[u], d) => over
  <2>1. Remembers(u, store[u], fetching[u], n, server, over)
    BY <1>3, <1>14 DEF EGood
  <2> QED
    BY <1>1, <1>8, <1>10, <1>12, <1>15, <2>1, AbsorbRemembers
<1>17. server[c] # NoDoc \/ Creating(popped.queue[TRUE], c)
  BY <1>3, <1>8, <1>9, <1>15, SessionWritable
<1>18. /\ Orders(u, after, n, server)
       /\ server[c] # NoDoc \/ Creating(after.queue[TRUE], c)
       /\ Ends(after.queue[TRUE]) <=> Ends(dev[u].queue[TRUE])
       /\ Starting(after.queue[TRUE]) <=> Starting(dev[u].queue[TRUE])
  <2>1. CASE push
    <3>1. PICK l \in SUBSET Restaurants : l = store[u].likedRestaurants
      BY <1>1 DEF Stores
    <3>2. PICK w : w = [Write("push", c) EXCEPT !.liked = l]
      OBVIOUS
    <3>3. w \in Writes /\ w.op = "push" /\ w.code = c /\ w.reply = "none"
      BY <3>2, WriteType DEF Write, Ops
    <3>4. after = Issue(u, popped, w)
      BY <1>9, <1>11, <2>1, <3>1, <3>2 DEF PushResults
    <3>5. Ended(server) \/ Ends(popped.queue[TRUE])
      BY <1>14, <1>15, <1>16, <2>1
    <3>6. /\ Orders(u, after, n, server)
          /\ server[c] # NoDoc \/ Creating(after.queue[TRUE], c)
          /\ Ends(after.queue[TRUE]) <=> Ends(popped.queue[TRUE])
          /\ Starting(after.queue[TRUE]) <=> Starting(popped.queue[TRUE])
      <4>1. Orders(u, popped, n, server)
        BY <1>15
      <4>2. w.code = c /\ w.reply = "none" /\ w.op \in {"push", "result"}
        BY <3>3
      <4>3. w \in Writes
        BY <3>3
      <4> QED
        BY <1>17, <3>4, <3>5, <4>1, <4>2, <4>3, ClosingIssue
    <3>7. popped.queue = dev[u].queue
      BY <1>15
    <3> QED
      BY <3>6, <3>7
  <2>2. CASE ~push
    BY <1>11, <1>15, <1>17, <2>2
  <2> QED
    BY <2>1, <2>2
<1>19. ASSUME NEW dd, Do(u, dd, new), Orders(u, dd, n, server),
              Ends(dd.queue[TRUE]) <=> Ends(dev[u].queue[TRUE]),
              Starting(dd.queue[TRUE]) <=> Starting(dev[u].queue[TRUE])
       PROVE  EInv'
  <2>1. EGood(u, dd, new, fetching[u], n, server)
    BY <1>3, <1>14, <1>16, <1>19, EGoodMoves
  <2>2. Proceeds(u, dd, new, fetching[u], n)
    BY <1>1, <1>2, <1>13, <1>19, <2>1 DEF Proceeds, Do
  <2> QED
    BY <2>2, ELocalStep
<1>20. CASE Do(u, after, new)
  BY <1>18, <1>19, <1>20
<1>21. ASSUME NEW sel \in Selections(d.likes), Do(u, CalcResult(u, after, sel), new),
              MustCalc(store[u], d)
       PROVE  EInv'
  <2>1. sel \in Results
    BY DEF Selections, Consensus, Results
  <2>2. PICK w : w = [Write("result", c) EXCEPT !.sel = sel]
    OBVIOUS
  <2>3. w \in Writes /\ w.op = "result" /\ w.code = c /\ w.reply = "none"
    BY <2>1, <2>2, WriteType DEF Write, Ops
  <2>4. PICK dd : dd = Issue(u, after, w)
    OBVIOUS
  <2>5. dd = CalcResult(u, after, sel)
    BY <1>9, <2>2, <2>4 DEF CalcResult
  <2>6. Ended(server) \/ Ends(after.queue[TRUE])
    BY <1>14, <1>16, <1>18, <1>21
  <2>7. /\ Orders(u, dd, n, server)
        /\ Ends(dd.queue[TRUE]) <=> Ends(after.queue[TRUE])
        /\ Starting(dd.queue[TRUE]) <=> Starting(after.queue[TRUE])
    <3>1. Orders(u, after, n, server) /\ (server[c] # NoDoc \/ Creating(after.queue[TRUE], c))
      BY <1>18
    <3> QED
      BY <2>3, <2>4, <2>6, <3>1, ClosingIssue
  <2>8. Do(u, dd, new)
    BY <1>21, <2>5
  <2> QED
    BY <1>18, <1>19, <2>7, <2>8
<1> QED
  BY <1>13, <1>20, <1>21

\* The server's documents are plausible to a device that gets them.
LEMMA ServerPlausible ==
    ASSUME IInv, CInv, RInv, EInv, NEW u \in Users, NEW c \in Codes, NEW n,
           n = used[u]["start"]
    PROVE  Plausible(u, server[c], Ended(server), MayList(u, n, server))
<1> SUFFICES ASSUME server[c] # NoDoc
             PROVE  /\ IsOver(server[c]) => Ended(server)
                    /\ server[c].restaurantList => MayList(u, n, server)
                    /\ server[c].participants >= 1
  BY DEF Plausible
<1>1. IsOver(server[c]) => Ended(server)
  BY DEF EInv, EServer
<1>2. server[c].restaurantList => MayList(u, n, server)
  <2> SUFFICES ASSUME server[c].restaurantList PROVE MayList(u, n, server)
    OBVIOUS
  <2>1. Listed(server)
    BY DEF Listed
  <2>2. Begun(u, dev[u].queue[TRUE], n, server)
    BY DEF EInv, EGood
  <2>3. u \in Hosts => n \in Nat /\ n # 0
    BY <2>1, <2>2 DEF Begun
  <2>4. u \in Hosts => n > 0
    BY <2>3
  <2> QED
    BY <2>1, <2>4 DEF MayList
<1>3. server[c].participants >= 1
  <2>1. server[c] \in Docs
    BY DEF IInv, TypeOK
  <2>2. ~Missing(server[c])
    BY <2>1, MissingAssumption DEF Missing
  <2>3. DOMAIN server[c].likes # {}
    BY <2>2 DEF CInv, Peopled
  <2>4. PICK D : D = DOMAIN server[c].likes
    OBVIOUS
  <2>5. IsFiniteSet(D) /\ server[c].participants = Cardinality(D)
    BY <2>4 DEF RInv, Tallies
  <2>6. Cardinality(D) \in Nat /\ Cardinality(D) # 0
    BY <2>3, <2>4, <2>5, FS_CardinalityType, FS_EmptySet
  <2> QED
    BY <2>5, <2>6
<1> QED
  BY <1>1, <1>2, <1>3

\* Answers and documents that reach a device preserve the invariant.
LEMMA DeliveryEnds ==
    ASSUME OneRound, IInv, CInv, RInv, EInv, NEW u \in Users,
           Ack(u) \/ (\E c \in Codes : Sync(u, c) \/ GoOffline(u, c))
    PROVE  EInv'
<1>1. /\ fetching = [fetching EXCEPT ![u] = fetching[u]] /\ store = [store EXCEPT ![u] = store[u]]
      /\ dev[u] \in Devices
  BY DEF IInv, TypeOK
<1>2. PICK n : n = used[u]["start"]
  OBVIOUS
<1>3. EGood(u, dev[u], store[u], fetching[u], n, server)
  BY <1>2 DEF EInv
<1>4. /\ Orders(u, dev[u], n, server) /\ dev[u].user = TRUE
      /\ Remembers(u, store[u], fetching[u], n, server, Ended(server) \/ Ends(dev[u].queue[TRUE]))
  BY <1>3 DEF EGood, Orders
<1>5. ASSUME NEW d, Orders(u, d, n, server),
             Ends(dev[u].queue[TRUE]) => Ended(server) \/ Ends(d.queue[TRUE]),
             Starting(dev[u].queue[TRUE]) => Starting(d.queue[TRUE]),
             dev' = [dev EXCEPT ![u] = d], UNCHANGED <<server, store, fetching, used>>
      PROVE  EInv'
  <2>1. EGood(u, d, store[u], fetching[u], n, server)
    BY <1>3, <1>4, <1>5, EGoodMoves
  <2>2. Proceeds(u, d, store[u], fetching[u], n)
    BY <1>1, <1>2, <1>5, <2>1 DEF Proceeds
  <2> QED
    BY <2>2, ELocalStep
<1>6. CASE Ack(u)
  <2>1. Pending(dev[u]) # <<>> /\ Head(Pending(dev[u])).reply # "none"
    BY <1>6 DEF Ack, AckDue
  <2>2. PICK d : d = Acknowledge(u, dev[u])
    OBVIOUS
  <2>3. /\ Orders(u, d, n, server)
        /\ Ends(dev[u].queue[TRUE]) => Ended(server) \/ Ends(d.queue[TRUE])
        /\ Starting(d.queue[TRUE]) <=> Starting(dev[u].queue[TRUE])
    BY <1>4, <2>1, <2>2, AcknowledgeOrders
  <2>4. dev' = [dev EXCEPT ![u] = d] /\ UNCHANGED <<server, store, fetching, used>>
    BY <1>6, <2>2 DEF Ack
  <2> QED
    BY <1>5, <2>3, <2>4
<1>7. ASSUME NEW c \in Codes, Sync(u, c) PROVE EInv'
  <2>1. PICK x \in Docs \cup {NoDoc} : x = server[c]
    BY DEF IInv, TypeOK
  <2>2. PICK d : d = Receive(u, dev[u], c, x)
    OBVIOUS
  <2>3. Plausible(u, x, Ended(server), MayList(u, n, server))
    BY <1>2, <2>1, ServerPlausible
  <2>4. /\ Orders(u, d, n, server)
        /\ Ends(d.queue[TRUE]) <=> Ends(dev[u].queue[TRUE])
        /\ Starting(d.queue[TRUE]) <=> Starting(dev[u].queue[TRUE])
    <3>1. PICK e : e = dev[u]
      OBVIOUS
    <3>2. PICK sv : sv = server
      OBVIOUS
    <3>3. /\ Orders(u, e, n, sv) /\ Plausible(u, x, Ended(sv), MayList(u, n, sv))
          /\ d = Receive(u, e, c, x)
      BY <1>4, <2>2, <2>3, <3>1, <3>2
    <3>4. x \in Docs \cup {NoDoc}
      OBVIOUS
    <3>5. /\ Orders(u, d, n, sv)
          /\ Ends(d.queue[TRUE]) <=> Ends(e.queue[TRUE])
          /\ Starting(d.queue[TRUE]) <=> Starting(e.queue[TRUE])
      BY <3>3, <3>4, ReceiveOrders
    <3> QED
      BY <3>1, <3>2, <3>5
  <2>5. dev' = [dev EXCEPT ![u] = d] /\ UNCHANGED <<server, store, fetching, used>>
    BY <1>7, <2>1, <2>2 DEF Sync
  <2>6. /\ Ends(dev[u].queue[TRUE]) => Ended(server) \/ Ends(d.queue[TRUE])
        /\ Starting(dev[u].queue[TRUE]) => Starting(d.queue[TRUE])
    BY <2>4, Zenon
  <2> QED
    BY <1>5, <2>4, <2>5, <2>6, Zenon
<1>8. \A c \in Codes : ~GoOffline(u, c)
  BY CalmAllows DEF GoOffline, OneRound
<1> QED
  BY <1>6, <1>7, <1>8

------------------------------------------------------------------------------
(* The server executes a write. *)

\* What an executed write of kind op makes of the document x0.
Alters(op, x0, x1) ==
    /\ x1 = NoDoc <=> x0 = NoDoc /\ op # "create"
    /\ x0 # NoDoc => /\ x0.finished => x1.finished
                     /\ x0.restaurantList => x1.restaurantList
                     /\ x0.live => x1.live \/ x1.finished
    /\ x1 # NoDoc => /\ x1.finished => op = "end" \/ (x0 # NoDoc /\ x0.finished)
                     /\ x1.restaurantList => op = "list" \/ (x0 # NoDoc /\ x0.restaurantList)
                     /\ x1.live => op = "start" \/ (x0 # NoDoc /\ x0.live /\ op # "end")
                     /\ op = "end" => x1.finished
                     /\ op = "start" => x1.live
                     /\ IsOver(x1) => op \in {"end", "push", "result"} \/ (x0 # NoDoc /\ IsOver(x0))

\* Executing a write does that to its document.
LEMMA ApplyAlters ==
    ASSUME NEW u \in Users, NEW w \in Writes, w.op \notin {"leave", "delete"},
           NEW x0 \in Docs \cup {NoDoc}, w.op = "create" => x0 = NoDoc,
           NEW n \in Int, NEW x1, x1 = Apply(u, w, n, x0)
    PROVE  Alters(w.op, x0, x1)
<1>1. CASE w.op = "create"
  <2>1. x1 = NewDoc(u) /\ x1 \in Docs
    BY <1>1, NewDocType DEF Apply, Replaces
  <2>2. ~x1.finished /\ ~x1.restaurantList /\ ~x1.live /\ x1.finishedPushing = 0 /\ x1.result = NoResult
    BY <2>1 DEF NewDoc
  <2> QED
    BY <1>1, <2>1, <2>2, MissingAssumption DEF Alters, IsOver
<1>2. CASE w.op # "create" /\ x0 = NoDoc
  BY <1>2 DEF Apply, Replaces, Missing, Alters
<1>3. CASE w.op # "create" /\ x0 # NoDoc
  <2>1. x0 \in Docs /\ ~Missing(x0) /\ ~Replaces(w)
    BY <1>3, MissingAssumption DEF Missing, Replaces
  <2>2. x1 = Patch(u, w, n, x0)
    BY <2>1 DEF Apply, Replaces
  <2>3. /\ x1 \in Docs
        /\ x1.finished = (x0.finished \/ w.op = "end")
        /\ w.op \notin {"start", "end"} => x1.live = x0.live
        /\ w.op = "start" => x1.live
        /\ w.op = "end" => ~x1.live
        /\ x1.restaurantList = (x0.restaurantList \/ w.op = "list")
        /\ w.op # "result" => x1.result = x0.result
        /\ w.op # "push" => x1.finishedPushing = x0.finishedPushing
    BY <1>3, <2>1, <2>2, PatchFields
  <2>4. x1 # NoDoc
    BY <2>3, MissingAssumption
  <2> QED
    BY <1>3, <2>3, <2>4 DEF Alters, IsOver
<1> QED
  BY <1>1, <1>2, <1>3

\* The documents sv become sv2 when a write of kind op is executed.
Grows(op, sv, sv2) ==
    /\ \A o \in Codes : sv[o] # NoDoc => sv2[o] # NoDoc
    /\ Ended(sv) => Ended(sv2)
    /\ Listed(sv) => Listed(sv2)
    /\ Started(sv) => Started(sv2)
    /\ Ended(sv2) => Ended(sv) \/ op = "end"
    /\ Listed(sv2) => Listed(sv) \/ op = "list"

\* What that does to the documents together.
LEMMA AltersGrows ==
    ASSUME NEW op, NEW sv, NEW sv2, NEW c \in Codes, Alters(op, sv[c], sv2[c]),
           \A o \in Codes \ {c} : sv2[o] = sv[o]
    PROVE  Grows(op, sv, sv2)
<1>1. \A o \in Codes : sv[o] # NoDoc => sv2[o] # NoDoc
  BY DEF Alters
<1>2. Ended(sv) => Ended(sv2)
  BY <1>1 DEF Ended, Alters
<1>3. Listed(sv) => Listed(sv2)
  BY <1>1 DEF Listed, Alters
<1>4. Started(sv) => Started(sv2)
  BY <1>1 DEF Started, Alters
<1>5. Ended(sv2) => Ended(sv) \/ op = "end"
  BY DEF Ended, Alters
<1>6. Listed(sv2) => Listed(sv) \/ op = "list"
  BY DEF Listed, Alters
<1> QED
  BY <1>1, <1>2, <1>3, <1>4, <1>5, <1>6 DEF Grows

\* When the server's documents grow, a device that waits for no start stays in order.
LEMMA OrdersGrow ==
    ASSUME NEW v, NEW d, NEW n, NEW op, NEW sv, NEW sv2, Orders(v, d, n, sv), Grows(op, sv, sv2),
           Starting(d.queue[TRUE]) => ~Listed(sv2) /\ ~Ended(sv2)
    PROVE  Orders(v, d, n, sv2)
<1>1. PICK q \in Seq(Writes) : q = d.queue[TRUE]
  BY DeviceParts DEF Orders
<1>2. MayList(v, n, sv) => MayList(v, n, sv2)
  BY DEF MayList, Grows
<1>3. Ended(sv) => Ended(sv2)
  BY DEF Grows
<1>4. \A x, over, over2 : Plausible(v, x, over, MayList(v, n, sv)) /\ (over => over2)
                             => Plausible(v, x, over2, MayList(v, n, sv2))
  BY <1>2 DEF Plausible
<1>5. ASSUME NEW i \in DOMAIN q PROVE InOrder(v, q, i, n, sv2)
  <2>1. InOrder(v, q, i, n, sv)
    BY <1>1 DEF Orders
  <2>2. q[i].code \in Codes
    <3>1. q[i] \in Writes
      OBVIOUS
    <3> QED
      BY <3>1, WriteParts
  <2>3. q[i].op = "start" /\ q[i].reply = "none" => ~Listed(sv2) /\ ~Ended(sv2)
    BY <1>1 DEF Starting, Waits
  <2>4. sv[q[i].code] # NoDoc => sv2[q[i].code] # NoDoc
    BY <2>2 DEF Grows
  <2> QED
    BY <1>2, <1>3, <2>1, <2>3, <2>4 DEF InOrder
<1>6. OrderlyCache(v, d.cache, n, sv2)
  BY <1>3, <1>4 DEF Orders, OrderlyCache
<1>7. \A x \in Shows(d) : Plausible(v, x, Ended(sv2) \/ Ends(d.queue[TRUE]), MayList(v, n, sv2))
  BY <1>3, <1>4 DEF Orders
<1>8. d \in Devices /\ d.user = TRUE
  BY DEF Orders
<1> QED
  BY <1>1, <1>5, <1>6, <1>7, <1>8 DEF Orders

\* The i-th write of the device d, of kind op, is executed, which leaves the device d2
\* and makes the documents sv2 of sv.
ExecutesOn(d, i, d2, op, sv, sv2) ==
    /\ Executes(d, i, d2) /\ d2.cache = d.cache /\ d2.shown = d.shown
    /\ op = d.queue[TRUE][i].op
    /\ Grows(op, sv, sv2)
    /\ op \in {"end", "push", "result"} => Ended(sv2)
    /\ op = "create" => sv2[d.queue[TRUE][i].code] # NoDoc

\* The write of kind op that is executed is the start that waits in q, or that start
\* waits in q2 still.
StartStays(op, q, q2) == Starting(q) => op = "start" \/ Starting(q2)

\* When the i-th write of a device is executed, its writes stay in order.
LEMMA OrdersExecuted ==
    ASSUME NEW u, NEW d, NEW n, NEW sv, Orders(u, d, n, sv), NEW i, NEW d2 \in Devices,
           NEW op, NEW sv2, ExecutesOn(d, i, d2, op, sv, sv2)
    PROVE  /\ Orders(u, d2, n, sv2)
           /\ Ends(d2.queue[TRUE]) <=> Ends(d.queue[TRUE])
           /\ StartStays(op, d.queue[TRUE], d2.queue[TRUE])
<1>0. /\ Executes(d, i, d2) /\ d2.cache = d.cache /\ d2.shown = d.shown
      /\ op = d.queue[TRUE][i].op /\ Grows(op, sv, sv2)
      /\ op \in {"end", "push", "result"} => Ended(sv2)
      /\ op = "create" => sv2[d.queue[TRUE][i].code] # NoDoc
  BY DEF ExecutesOn
<1>1. PICK q \in Seq(Writes) : q = d.queue[TRUE]
  BY DeviceParts DEF Orders
<1>2. PICK q2 \in Seq(Writes) : q2 = d2.queue[TRUE]
  BY DeviceParts
<1>3. /\ i \in DOMAIN q /\ q[i].reply = "none" /\ q[i].op = op
      /\ \A j \in DOMAIN q : j < i => q[j].reply # "none"
      /\ DOMAIN q2 = DOMAIN q
      /\ \A j \in DOMAIN q \ {i} : q2[j] = q[j]
      /\ q2[i].op = q[i].op /\ q2[i].code = q[i].code /\ q2[i].reply # "none"
  BY <1>0, <1>1, <1>2 DEF Executes
<1>4. \A j \in DOMAIN q : q2[j].op = q[j].op /\ q2[j].code = q[j].code
  BY <1>0, <1>3
<1>5. d.user = TRUE /\ d2.user = TRUE /\ d2.inbox = d.inbox
  BY <1>0 DEF Orders, Executes
<1>6. MayList(u, n, sv) => MayList(u, n, sv2)
  BY <1>0 DEF MayList, Grows
<1>7. Ended(sv) => Ended(sv2)
  BY <1>0 DEF Grows
<1>8. ASSUME NEW j \in DOMAIN q2 PROVE InOrder(u, q2, j, n, sv2)
  <2>1. InOrder(u, q, j, n, sv)
    BY <1>0, <1>1, <1>3 DEF Orders
  <2>2. q2[j].op = q[j].op /\ q2[j].code = q[j].code
    BY <1>0, <1>3, <1>4
  <2>3. q2[j].op \in {"end", "push", "result"} => (q2[j].reply # "none" => Ended(sv2))
    <3>1. CASE j = i
      BY <1>0, <1>3, <2>2, <3>1
    <3>2. CASE j # i
      BY <1>0, <1>3, <1>7, <2>1, <3>2 DEF InOrder
    <3> QED
      BY <1>0, <3>1, <3>2
  <2>4. q2[j].op \in {"push", "result"} => Ended(sv2) \/ \E k \in DOMAIN q2 : k < j /\ q2[k].op = "end"
    BY <1>0, <1>3, <1>4, <1>7, <2>1, <2>2 DEF InOrder
  <2>5. q2[j].op = "start" => /\ u \in Hosts /\ n > 0
                              /\ \A k \in DOMAIN q2 : q2[k].op \in {"list", "end"} => j < k
    BY <1>0, <1>3, <1>4, <2>1, <2>2 DEF InOrder
  <2>6. q2[j].op = "start" /\ q2[j].reply = "none" => ~Listed(sv2) /\ ~Ended(sv2)
    <3> SUFFICES ASSUME q2[j].op = "start", q2[j].reply = "none" PROVE ~Listed(sv2) /\ ~Ended(sv2)
      OBVIOUS
    <3>1. j # i /\ q[j].reply = "none" /\ q[j].op = "start"
      BY <1>0, <1>3
    <3>2. /\ ~Listed(sv) /\ ~Ended(sv)
          /\ \A k \in DOMAIN q : q[k].op \in {"list", "end"} => j < k
      BY <1>0, <2>1, <3>1 DEF InOrder
    <3>3. op \notin {"list", "end"}
      BY <1>0, <1>3, <3>1, <3>2
    <3> QED
      BY <1>0, <3>2, <3>3 DEF Grows
  <2>7. q2[j].op \notin {"create", "join"} => sv2[q2[j].code] # NoDoc \/ CreatesBefore(q2, q2[j].code, j)
    <3> SUFFICES ASSUME q2[j].op \notin {"create", "join"}
                 PROVE  sv2[q2[j].code] # NoDoc \/ CreatesBefore(q2, q2[j].code, j)
      OBVIOUS
    <3>1. PICK c \in Codes : c = q2[j].code
      <4>1. q2[j] \in Writes
        OBVIOUS
      <4> QED
        BY <1>0, <4>1, WriteParts
    <3>2. sv[c] # NoDoc \/ CreatesBefore(q, c, j)
      BY <1>0, <2>1, <2>2, <3>1 DEF InOrder
    <3>3. CASE sv[c] # NoDoc
      BY <1>0, <3>1, <3>3 DEF Grows
    <3>4. CASE CreatesBefore(q, c, j)
      <4>1. PICK k \in DOMAIN q : k < j /\ q[k].op = "create" /\ q[k].reply = "none" /\ q[k].code = c
        BY <1>0, <3>4 DEF CreatesBefore, Waits
      <4>2. CASE k = i
        BY <1>0, <1>1, <1>3, <3>1, <4>1, <4>2
      <4>3. CASE k # i
        BY <1>0, <1>3, <3>1, <4>1, <4>3 DEF CreatesBefore, Waits
      <4> QED
        BY <1>0, <4>2, <4>3
    <3> QED
      BY <1>0, <3>2, <3>3, <3>4
  <2>8. /\ q2[j].op \notin {"leave", "delete"}
        /\ q2[j].op = "join" => u \notin Hosts
        /\ q2[j].op = "end" => MayList(u, n, sv2)
        /\ q2[j].op = "list" => u \in Hosts /\ n > 0
    BY <1>0, <1>6, <2>1, <2>2 DEF InOrder
  <2> QED
    BY <1>0, <2>3, <2>4, <2>5, <2>6, <2>7, <2>8 DEF InOrder
<1>9. Ends(q2) <=> Ends(q)
  BY <1>0, <1>3, <1>4 DEF Ends
<1>10. Starting(q) => op = "start" \/ Starting(q2)
  <2> SUFFICES ASSUME NEW j \in DOMAIN q, Waits(q, j, "start") PROVE op = "start" \/ Starting(q2)
    BY <1>0 DEF Starting
  <2>1. CASE j = i
    BY <1>0, <1>3, <2>1 DEF Waits
  <2>2. CASE j # i
    <3>1. j \in DOMAIN q2 /\ Waits(q2, j, "start")
      BY <1>0, <1>3, <2>2 DEF Waits
    <3> QED
      BY <1>0, <3>1 DEF Starting
  <2> QED
    BY <1>0, <2>1, <2>2
<1>11. \A x, over, over2 : Plausible(u, x, over, MayList(u, n, sv)) /\ (over => over2)
                              => Plausible(u, x, over2, MayList(u, n, sv2))
  BY <1>0, <1>6 DEF Plausible
<1>12. OrderlyCache(u, d2.cache, n, sv2)
  BY <1>0, <1>7, <1>11 DEF Orders, OrderlyCache
<1>13. Shows(d2) = Shows(d)
  BY <1>0, <1>5 DEF Shows
<1>14. \A x \in Shows(d2) : Plausible(u, x, Ended(sv2) \/ Ends(q2), MayList(u, n, sv2))
  BY <1>0, <1>1, <1>7, <1>9, <1>11, <1>13 DEF Orders
<1> QED
  BY <1>0, <1>1, <1>2, <1>5, <1>8, <1>9, <1>10, <1>12, <1>14 DEF Orders, StartStays

\* What u's write of kind op needs: the session's documents sv, u's starts n.
Lawful(u, op, n, sv) ==
    /\ op \in {"push", "result"} => Ended(sv)
    /\ op = "end" => MayList(u, n, sv)
    /\ op = "list" => u \in Hosts /\ n > 0
    /\ op = "start" => ~Listed(sv) /\ ~Ended(sv)

\* The first write that waits is lawful, and its document is there.
LEMMA FirstLawful ==
    ASSUME NEW u, NEW d, NEW n, NEW sv, Orders(u, d, n, sv), NEW i \in DOMAIN d.queue[TRUE],
           d.queue[TRUE][i].reply = "none",
           \A j \in DOMAIN d.queue[TRUE] : j < i => d.queue[TRUE][j].reply # "none"
    PROVE  /\ Lawful(u, d.queue[TRUE][i].op, n, sv)
           /\ d.queue[TRUE][i].op \notin {"create", "join"} => sv[d.queue[TRUE][i].code] # NoDoc
<1>1. PICK q : q = d.queue[TRUE]
  OBVIOUS
<1>2. \A j \in DOMAIN q : InOrder(u, q, j, n, sv)
  BY <1>1 DEF Orders
<1>3. i \in DOMAIN q /\ q[i].reply = "none" /\ \A j \in DOMAIN q : j < i => q[j].reply # "none"
  BY <1>1
<1>4. InOrder(u, q, i, n, sv)
  BY <1>2, <1>3
<1>5. q[i].op \in {"push", "result"} => Ended(sv)
  <2>1. ASSUME NEW j \in DOMAIN q, j < i, q[j].op = "end" PROVE Ended(sv)
    BY <1>2, <1>3, <2>1 DEF InOrder
  <2> QED
    BY <1>4, <2>1 DEF InOrder
<1>6. q[i].op \notin {"create", "join"} => sv[q[i].code] # NoDoc
  BY <1>3, <1>4 DEF InOrder, CreatesBefore, Waits
<1>7. Lawful(u, q[i].op, n, sv)
  BY <1>3, <1>4, <1>5 DEF InOrder, Lawful
<1> QED
  BY <1>1, <1>6, <1>7

\* Who waits for a start sees no list and no end arrive from others, and who has not
\* started neither.
LEMMA OthersLawful ==
    ASSUME OneRound, NEW u \in Users, NEW v \in Users \ {u}, NEW op, NEW m, NEW n, NEW q, NEW sv,
           NEW sv2, Grows(op, sv, sv2), Lawful(u, op, m, sv), v \in Hosts
    PROVE  /\ ~Listed(sv) => ~Listed(sv2)
           /\ ~Listed(sv) /\ ~Ended(sv) => ~Ended(sv2)
           /\ Begun(v, q, n, sv) => Begun(v, q, n, sv2)
<1>1. u \notin Hosts
  BY DEF OneRound
<1>2. ~Listed(sv) => ~Listed(sv2)
  BY <1>1 DEF Grows, Lawful
<1>3. ~Listed(sv) /\ ~Ended(sv) => ~Ended(sv2)
  BY <1>1 DEF Grows, Lawful, MayList
<1> QED
  BY <1>2, <1>3 DEF Begun, Grows

\* Nothing that is executed takes from the documents what the invariant knows of them.
LEMMA AltersServer ==
    ASSUME NEW op, NEW sv, NEW sv2, NEW c \in Codes, Alters(op, sv[c], sv2[c]),
           \A o \in Codes \ {c} : sv2[o] = sv[o], Grows(op, sv, sv2), EServer(sv),
           op \in {"end", "push", "result"} => Ended(sv2), op = "start" => ~Ended(sv)
    PROVE  EServer(sv2)
<1> SUFFICES ASSUME NEW o \in Codes, sv2[o] # NoDoc
             PROVE  /\ IsOver(sv2[o]) => Ended(sv2)
                    /\ sv2[o].finished => ~sv2[o].live
  BY DEF EServer
<1>1. CASE o # c
  <2>1. sv2[o] = sv[o]
    BY <1>1
  <2>2. (IsOver(sv[o]) => Ended(sv)) /\ (sv[o].finished => ~sv[o].live)
    BY <2>1 DEF EServer
  <2> QED
    BY <2>1, <2>2 DEF Grows
<1>2. CASE o = c
  <2>1. sv[c] # NoDoc => (IsOver(sv[c]) => Ended(sv)) /\ (sv[c].finished => ~sv[c].live)
    BY DEF EServer
  <2>2. IsOver(sv2[c]) => Ended(sv2)
    BY <1>2, <2>1 DEF Alters, Grows
  <2>3. op = "start" => ~(sv[c] # NoDoc /\ sv[c].finished)
    BY DEF Ended
  <2>4. sv2[c].finished => ~sv2[c].live
    BY <1>2, <2>1, <2>3 DEF Alters
  <2> QED
    BY <1>2, <2>2, <2>4
<1> QED
  BY <1>1, <1>2

\* The server executes user u's write w, the i-th in its queue, with the number k;
\* u's device gets to d.
Performs(u, i, w, k, d) ==
    /\ w = dev[u].queue[TRUE][i] /\ Executes(dev[u], i, d)
    /\ d.cache = dev[u].cache /\ d.shown = dev[u].shown
    /\ d.queue[TRUE][i].liked = w.liked /\ d.queue[TRUE][i].sel = w.sel
    /\ HandsIn(d, store[u]) <=> HandsIn(dev[u], store[u]) \/ w.op = "push"
    /\ server' = [server EXCEPT ![w.code] = Apply(u, w, k, server[w.code])]
    /\ dev' = [dev EXCEPT ![u] = d] /\ UNCHANGED <<store, screen, fetching, running, used>>

\* What is known when u's write w is executed.
Permitted(u, w) ==
    /\ w.op \notin {"leave", "delete"}
    /\ w.op = "create" => server[w.code] = NoDoc /\ u \in Hosts /\ store[u].sessionCode = w.code
    /\ w.op = "join" => \A o \in Codes : ~MemberOf(u, server[o])
    /\ w.op = "push" => ~HandsIn(dev[u], store[u]) /\ MemberOf(u, server[w.code])
    /\ w.op \notin {"create", "join"} => server[w.code] # NoDoc
    /\ Lawful(u, w.op, used[u]["start"], server)

Performed(u) ==
    \E i \in DOMAIN dev[u].queue[TRUE], w \in Writes, k \in Int, d \in Devices :
        Performs(u, i, w, k, d) /\ Permitted(u, w)

\* What the push, join or creation w of user u needs of the documents sv, and what the
\* push makes of u's likes when the device gets from d to d2.
Fulfils(u, d, d2, s, w, sv) ==
    /\ HandsIn(d2, s) <=> HandsIn(d, s) \/ w.op = "push"
    /\ w.op = "push" => ~HandsIn(d, s) /\ MemberOf(u, sv[w.code])
    /\ w.op = "join" => \A o \in Codes : ~MemberOf(u, sv[o])
    /\ w.op = "create" => sv[w.code] = NoDoc /\ u \in Hosts /\ s.sessionCode = w.code

\* The push that is executed was the only one that waited.
LEMMA HandsInExecuted ==
    ASSUME NEW u, NEW d, NEW s, NEW x, NEW n, NEW sv, Good(u, d, s, x, n, sv), NEW i, NEW d2,
           Executes(d, i, d2), NEW w, w = d.queue[TRUE][i]
    PROVE  Fulfils(u, d, d2, s, w, sv)
<1>1. PICK q : q = d.queue[TRUE]
  OBVIOUS
<1>2. PICK q2 : q2 = d2.queue[TRUE]
  OBVIOUS
<1>3. /\ i \in DOMAIN q /\ w = q[i] /\ w.reply = "none" /\ DOMAIN q2 = DOMAIN q
      /\ \A j \in DOMAIN q : j < i => q[j].reply # "none"
      /\ \A j \in DOMAIN q \ {i} : q2[j] = q[j]
      /\ q2[i].reply \in {"ok", "failed"}
  BY <1>1, <1>2 DEF Executes
<1>4. /\ \A j \in DOMAIN q : Waits(q2, j, "push") <=> Waits(q, j, "push") /\ j # i
      /\ \A op : Waits(q, i, op) <=> w.op = op
  BY <1>3 DEF Waits
<1>5. QueueOrder(u, q, sv) /\ Roles(u, d, s, x) /\ Part(u, d, s, sv)
  BY <1>1 DEF Good
<1>6. w.op = "push" => s.pushed /\ ~HandsIn(d, s)
  BY <1>1, <1>3, <1>4, <1>5 DEF Part, HandsIn
<1>7. w.op = "push" => HandsIn(d2, s)
  <2> SUFFICES ASSUME w.op = "push", NEW j \in DOMAIN q2, Waits(q2, j, "push") PROVE FALSE
    BY <1>2, <1>6 DEF HandsIn
  <2>1. j \in DOMAIN q /\ Waits(q, j, "push") /\ j # i /\ Waits(q, i, "push")
    BY <1>3, <1>4
  <2> QED
    BY <1>3, <1>5, <2>1 DEF QueueOrder
<1>8. w.op # "push" => (HandsIn(d2, s) <=> HandsIn(d, s))
  BY <1>1, <1>2, <1>3, <1>4 DEF HandsIn
<1>9. w.op = "push" => MemberOf(u, sv[w.code])
  <2>1. ~CreatesBefore(q, w.code, i)
    BY <1>3 DEF CreatesBefore, Waits
  <2> QED
    BY <1>3, <1>4, <1>5, <2>1 DEF QueueOrder
<1>10. /\ w.op = "join" => \A o \in Codes : ~MemberOf(u, sv[o])
       /\ w.op = "create" => sv[w.code] = NoDoc
  BY <1>3, <1>4, <1>5 DEF QueueOrder
<1>11. w.op = "create" => u \in Hosts /\ s.sessionCode = w.code
  BY <1>1, <1>3, <1>5 DEF Roles
<1> QED
  BY <1>6, <1>7, <1>8, <1>9, <1>10, <1>11 DEF Fulfils

LEMMA CommitPerforms ==
    ASSUME IInv, CInv, RInv, EInv, NEW u \in Users, NEW b \in BOOLEAN, Commit(u, b)
    PROVE  Performed(u)
<1>1. TypeOK /\ dev[u] \in Devices /\ store[u] \in Stores
  BY DEF IInv, TypeOK
<1>2. EGood(u, dev[u], store[u], fetching[u], used[u]["start"], server)
  BY DEF EInv
<1>3. PICK m : m = used[u]["start"]
  OBVIOUS
<1>4. PICK q \in Seq(Writes) : q = dev[u].queue[b]
  BY <1>1, DeviceParts
<1>5. PICK i \in DOMAIN q :
        /\ q[i].reply = "none"
        /\ \A j \in 1 .. i - 1 : q[j].reply # "none"
        /\ server' = [server EXCEPT ![q[i].code] =
                        Apply(u, q[i], NumberFor(q[i], server[q[i].code]), server[q[i].code])]
        /\ dev' = [dev EXCEPT ![u].queue[b][i] =
                     [q[i] EXCEPT !.counter = NumberFor(q[i], server[q[i].code]),
                                  !.reply = IF Replaces(q[i]) \/ server[q[i].code] # NoDoc
                                            THEN "ok" ELSE "failed"]]
  BY <1>4, ZenonT(40) DEF Commit
<1>6. Good(u, dev[u], store[u], screen[u], used[u]["join"], server)
  BY DEF RInv
<1>7. b = TRUE
  <2>1. dev[u].queue[FALSE] = <<>>
    BY <1>6 DEF Good, Roles
  <2>2. ASSUME b = FALSE PROVE FALSE
    <3>1. q = <<>>
      BY <1>4, <2>1, <2>2, Zenon
    <3>2. DOMAIN q = {}
      BY <3>1
    <3> QED
      BY <3>2
  <2> QED
    BY <2>2
<1>8. PICK w \in Writes : w = q[i]
  BY <1>4
<1>9. PICK c \in Codes : c = w.code
  BY WriteParts
<1>10. server[c] \in Docs \cup {NoDoc}
  BY <1>1 DEF TypeOK
<1>11. PICK k \in Int : k = NumberFor(w, server[c])
  BY <1>10, NumberForType DEF CachedDocs
<1>12. PICK a : a = IF Replaces(w) \/ server[c] # NoDoc THEN "ok" ELSE "failed"
  OBVIOUS
<1>13. PICK x : x = [w EXCEPT !.counter = k, !.reply = a]
  OBVIOUS
<1>14. x.op = w.op /\ x.code = c /\ x.reply = a /\ x.liked = w.liked /\ x.sel = w.sel
  BY <1>9, <1>13 DEF Writes
<1>15. PICK r : r = [q EXCEPT ![i] = x]
  OBVIOUS
<1>16. PICK qs : qs = [dev[u].queue EXCEPT ![b] = r]
  OBVIOUS
<1>17. PICK d : d = [dev[u] EXCEPT !.queue = qs]
  OBVIOUS
<1>18. dev' = [dev EXCEPT ![u] = d]
  BY <1>4, <1>5, <1>8, <1>9, <1>11, <1>12, <1>13, <1>15, <1>16, <1>17
<1>19. DOMAIN r = DOMAIN q /\ r[i] = x /\ \A j \in DOMAIN q \ {i} : r[j] = q[j]
  BY <1>4, <1>15
<1>20. qs[TRUE] = r /\ qs[FALSE] = dev[u].queue[FALSE]
  BY <1>1, <1>7, <1>16, DeviceParts
<1>21. /\ d.queue = qs /\ d.user = dev[u].user /\ d.inbox = dev[u].inbox
       /\ d.cache = dev[u].cache /\ d.shown = dev[u].shown
  BY <1>1, <1>17 DEF Devices
<1>22. a \in {"ok", "failed"}
  BY <1>12
<1>23. dev[u].queue[TRUE] = q /\ d.queue[TRUE] = r /\ \A j \in DOMAIN q : j < i => q[j].reply # "none"
  <2>1. \A j \in DOMAIN q : j < i => q[j].reply # "none"
    BY <1>4, <1>5
  <2>2. dev[u].queue[TRUE] = q /\ d.queue[TRUE] = r
    BY <1>4, <1>7, <1>20, <1>21
  <2> QED
    BY <2>1, <2>2
<1>24. Executes(dev[u], i, d)
  <2>1. d.queue[FALSE] = dev[u].queue[FALSE]
    BY <1>20, <1>21
  <2> QED
    BY <1>5, <1>8, <1>9, <1>14, <1>19, <1>21, <1>22, <1>23, <2>1 DEF Executes
<1>25. d \in Devices
  <2>1. IInv'
    BY NetworkStep
  <2>2. dev'[u] = d
    BY <1>1, <1>18 DEF TypeOK
  <2> QED
    BY <2>1, <2>2 DEF IInv, TypeOK
<1>26. w.op \notin {"leave", "delete"}
  <2>1. Sound(dev[u], Existing)
    BY DEF CInv
  <2> QED
    BY <1>8, <1>23, <2>1 DEF Sound, SoundQueue, Harmless
<1>27. /\ HandsIn(d, store[u]) <=> HandsIn(dev[u], store[u]) \/ w.op = "push"
       /\ w.op = "push" => ~HandsIn(dev[u], store[u]) /\ MemberOf(u, server[w.code])
       /\ w.op = "join" => \A o \in Codes : ~MemberOf(u, server[o])
       /\ w.op = "create" => server[w.code] = NoDoc /\ u \in Hosts /\ store[u].sessionCode = w.code
  <2>1. w = dev[u].queue[TRUE][i]
    BY <1>8, <1>23
  <2>2. PICK e : e = dev[u]
    OBVIOUS
  <2>3. PICK s : s = store[u]
    OBVIOUS
  <2>4. PICK sv : sv = server
    OBVIOUS
  <2>5. PICK top : top = screen[u]
    OBVIOUS
  <2>6. PICK joins : joins = used[u]["join"]
    OBVIOUS
  <2>7. Good(u, e, s, top, joins, sv)
    BY <1>6, <2>2, <2>3, <2>4, <2>5, <2>6
  <2>9. Executes(e, i, d) /\ w = e.queue[TRUE][i]
    BY <1>24, <2>1, <2>2
  <2>8. Fulfils(u, e, d, s, w, sv)
    BY <2>7, <2>9, HandsInExecuted
  <2> QED
    BY <2>2, <2>3, <2>4, <2>8 DEF Fulfils
<1>28. /\ Lawful(u, w.op, m, server)
       /\ w.op \notin {"create", "join"} => server[w.code] # NoDoc
  <2>1. Orders(u, dev[u], m, server)
    BY <1>2, <1>3 DEF EGood
  <2>2. /\ Lawful(u, q[i].op, m, server)
        /\ q[i].op \notin {"create", "join"} => server[q[i].code] # NoDoc
    BY <1>5, <1>23, <2>1, FirstLawful
  <2> QED
    BY <1>8, <2>2
<1>29. Permitted(u, w)
  BY <1>3, <1>26, <1>27, <1>28 DEF Permitted
<1>30. Performs(u, i, w, k, d)
  <2>1. w = dev[u].queue[TRUE][i]
    BY <1>8, <1>23
  <2>2. server' = [server EXCEPT ![w.code] = Apply(u, w, k, server[w.code])]
    BY <1>5, <1>8, <1>9, <1>11
  <2>3. d.queue[TRUE][i].liked = w.liked /\ d.queue[TRUE][i].sel = w.sel
    BY <1>14, <1>19, <1>23
  <2>4. UNCHANGED <<store, screen, fetching, running, used>>
    BY DEF Commit
  <2> QED
    BY <1>18, <1>21, <1>24, <1>27, <2>1, <2>2, <2>3, <2>4 DEF Performs
<1> QED
  <2>1. i \in DOMAIN dev[u].queue[TRUE]
    BY <1>23
  <2> QED
    BY <1>25, <1>29, <1>30, <2>1 DEF Performed

\* The server executes a write: everything stays in order.
LEMMA CommitEnds ==
    ASSUME OneRound, IInv, CInv, RInv, EInv, NEW u \in Users, NEW b \in BOOLEAN, Commit(u, b)
    PROVE  EInv'
<1>1. TypeOK /\ dev[u] \in Devices /\ store[u] \in Stores
  BY DEF IInv, TypeOK
<1>2. EGood(u, dev[u], store[u], fetching[u], used[u]["start"], server)
  BY DEF EInv
<1>3. PICK m : m = used[u]["start"]
  OBVIOUS
<1>4. PICK i \in DOMAIN dev[u].queue[TRUE], w \in Writes, k \in Int, d \in Devices :
        Performs(u, i, w, k, d) /\ Permitted(u, w)
  BY CommitPerforms DEF Performed
<1>5. PICK c \in Codes : c = w.code
  BY WriteParts
<1>6. server[c] \in Docs \cup {NoDoc}
  BY <1>1 DEF TypeOK
<1>7. PICK op : op = w.op
  OBVIOUS
<1>8. /\ w = dev[u].queue[TRUE][i] /\ Executes(dev[u], i, d)
      /\ d.cache = dev[u].cache /\ d.shown = dev[u].shown
      /\ server' = [server EXCEPT ![c] = Apply(u, w, k, server[c])]
      /\ dev' = [dev EXCEPT ![u] = d] /\ UNCHANGED <<store, screen, fetching, running, used>>
  BY <1>4, <1>5 DEF Performs
<1>9. /\ op \notin {"leave", "delete"} /\ (op = "create" => server[c] = NoDoc)
      /\ Lawful(u, op, m, server) /\ (op \notin {"create", "join"} => server[c] # NoDoc)
  BY <1>3, <1>4, <1>5, <1>7 DEF Permitted
<1>10. PICK sv : sv = server'
  OBVIOUS
<1>11. sv[c] = Apply(u, w, k, server[c]) /\ \A o \in Codes \ {c} : sv[o] = server[o]
  BY <1>1, <1>8, <1>10 DEF TypeOK
<1>12. dev'[u] = d /\ \A v \in Users \ {u} : dev'[v] = dev[v]
  BY <1>1, <1>8 DEF TypeOK
<1>13. Alters(op, server[c], sv[c])
  BY <1>6, <1>7, <1>9, <1>11, ApplyAlters
<1>14. Grows(op, server, sv)
  BY <1>11, <1>13, AltersGrows
<1>15. Orders(u, dev[u], m, server)
  BY <1>2, <1>3 DEF EGood
<1>16. op \in {"end", "push", "result"} => Ended(sv)
  <2>1. op = "end" => Ended(sv)
    BY <1>13, <1>9 DEF Ended, Alters
  <2>2. op \in {"push", "result"} => Ended(sv)
    BY <1>14, <1>9 DEF Lawful, Grows
  <2> QED
    BY <2>1, <2>2
<1>17. op = "create" => sv[c] # NoDoc
  BY <1>13 DEF Alters
<1>18. /\ Orders(u, d, m, sv)
       /\ Ends(d.queue[TRUE]) <=> Ends(dev[u].queue[TRUE])
       /\ Starting(dev[u].queue[TRUE]) => op = "start" \/ Starting(d.queue[TRUE])
  <2>1. op = dev[u].queue[TRUE][i].op /\ c = dev[u].queue[TRUE][i].code
    BY <1>5, <1>7, <1>8
  <2> QED
    <3>1. PICK s0 : s0 = server
      OBVIOUS
    <3>2. PICK e : e = dev[u]
      OBVIOUS
    <3>3. Orders(u, e, m, s0)
      BY <1>15, <3>1, <3>2
    <3>4. ExecutesOn(e, i, d, op, s0, sv)
      BY <1>8, <1>14, <1>16, <1>17, <2>1, <3>1, <3>2 DEF ExecutesOn
    <3>5. /\ Orders(u, d, m, sv)
          /\ Ends(d.queue[TRUE]) <=> Ends(e.queue[TRUE])
          /\ StartStays(op, e.queue[TRUE], d.queue[TRUE])
      BY <3>3, <3>4, OrdersExecuted
    <3> QED
      BY <3>2, <3>5 DEF StartStays
<1>19. EGood(u, d, store[u], fetching[u], m, sv)
  <2>1. Remembers(u, store[u], fetching[u], m, server, Ended(server) \/ Ends(dev[u].queue[TRUE]))
    BY <1>2, <1>3 DEF EGood
  <2>2. Remembers(u, store[u], fetching[u], m, sv, Ended(sv) \/ Ends(d.queue[TRUE]))
    BY <1>14, <1>18, <2>1 DEF Remembers, MayList, Grows
  <2>3. Begun(u, dev[u].queue[TRUE], m, server)
    BY <1>2, <1>3 DEF EGood
  <2>4. op = "start" => Started(sv)
    BY <1>13, <1>9, <1>17 DEF Started, Alters
  <2>5. u \in Hosts /\ m = 0 => op \notin {"list", "end"}
    BY <1>9 DEF Lawful, MayList
  <2>6. Begun(u, d.queue[TRUE], m, sv)
    BY <1>14, <1>18, <2>3, <2>4, <2>5 DEF Begun, Grows
  <2> QED
    BY <1>18, <2>2, <2>6 DEF EGood
<1>20. ASSUME NEW v \in Users \ {u}
       PROVE  EGood(v, dev[v], store[v], fetching[v], used[v]["start"], sv)
  <2>1. PICK e : e = dev[v]
    OBVIOUS
  <2>2. PICK n : n = used[v]["start"]
    OBVIOUS
  <2>3. EGood(v, e, store[v], fetching[v], n, server)
    BY <2>1, <2>2 DEF EInv
  <2>4. /\ Orders(v, e, n, server) /\ Begun(v, e.queue[TRUE], n, server)
        /\ Remembers(v, store[v], fetching[v], n, server, Ended(server) \/ Ends(e.queue[TRUE]))
    BY <2>3 DEF EGood
  <2>5. Starting(e.queue[TRUE]) => v \in Hosts /\ ~Listed(server) /\ ~Ended(server)
    BY <2>4 DEF Orders, Starting, Waits, InOrder
  <2>6. ASSUME v \in Hosts
        PROVE  /\ ~Listed(server) => ~Listed(sv)
               /\ ~Listed(server) /\ ~Ended(server) => ~Ended(sv)
               /\ Begun(v, e.queue[TRUE], n, server) => Begun(v, e.queue[TRUE], n, sv)
    <3>1. PICK s0 : s0 = server
      OBVIOUS
    <3>2. PICK p : p = e.queue[TRUE]
      OBVIOUS
    <3>3. Grows(op, s0, sv) /\ Lawful(u, op, m, s0) /\ v \in Users \ {u}
      BY <1>14, <1>9, <3>1
    <3>4. /\ ~Listed(s0) => ~Listed(sv)
          /\ ~Listed(s0) /\ ~Ended(s0) => ~Ended(sv)
          /\ Begun(v, p, n, s0) => Begun(v, p, n, sv)
      BY <2>6, <3>3, OthersLawful
    <3> QED
      BY <3>1, <3>2, <3>4
  <2>7. Orders(v, e, n, sv)
    BY <1>14, <2>4, <2>5, <2>6, OrdersGrow
  <2>8. Begun(v, e.queue[TRUE], n, sv)
    BY <2>4, <2>6 DEF Begun
  <2>9. Remembers(v, store[v], fetching[v], n, sv, Ended(sv) \/ Ends(e.queue[TRUE]))
    BY <1>14, <2>4 DEF Remembers, MayList, Grows
  <2> QED
    BY <2>1, <2>2, <2>7, <2>8, <2>9 DEF EGood
<1>21. ASSUME NEW v \in Users
       PROVE  EGood(v, dev'[v], store'[v], fetching'[v], used'[v]["start"], server')
  <2>1. CASE v = u
    BY <1>3, <1>8, <1>10, <1>12, <1>19, <2>1
  <2>2. CASE v # u
    BY <1>8, <1>10, <1>12, <1>20, <2>2
  <2> QED
    BY <2>1, <2>2
<1>22. EServer(sv)
  <2>1. EServer(server)
    BY DEF EInv
  <2>2. op = "start" => ~Ended(server)
    BY <1>9 DEF Lawful
  <2> QED
    BY <1>11, <1>13, <1>14, <1>16, <2>1, <2>2, AltersServer
<1> QED
  BY <1>10, <1>21, <1>22 DEF EInv

\* In every state of such a round the events are in order.
LEMMA EInvariance == ASSUME OneRound, OneStart PROVE Spec => []EInv
<1>1. Init => EInv
  <2> SUFFICES ASSUME Init PROVE EInv
    OBVIOUS
  <2>1. \A c \in Codes : server[c] = NoDoc
    BY DEF Init
  <2>2. ~Listed(server) /\ ~Ended(server)
    BY <2>1 DEF Listed, Ended
  <2>3. ASSUME NEW u \in Users
        PROVE  EGood(u, dev[u], store[u], fetching[u], used[u]["start"], server)
    <3>1. /\ dev[u] = NewDevice /\ store[u] = NewStore(TRUE) /\ ~fetching[u]
          /\ used[u]["start"] = 0
      BY DEF Init, Kinds
    <3>2. /\ dev[u].user = TRUE /\ dev[u].queue[TRUE] = <<>> /\ dev[u].inbox = <<>>
          /\ \A c \in Codes : dev[u].cache[c] = Unknown /\ dev[u].shown[c] = NoDoc
      BY <3>1 DEF NewDevice
    <3>3. DOMAIN dev[u].queue[TRUE] = {} /\ DOMAIN dev[u].inbox = {}
      BY <3>2
    <3>4. Shows(dev[u]) \subseteq {NoDoc}
      BY <3>2, <3>3 DEF Shows
    <3>5. \A c \in Codes : Visible(dev[u].cache[c]) = NoDoc
      BY <3>2 DEF Visible, Missing
    <3>6. dev[u] \in Devices
      BY <3>1, IInvInit DEF IInv, TypeOK
    <3>7. Orders(u, dev[u], used[u]["start"], server)
      BY <3>2, <3>3, <3>4, <3>5, <3>6 DEF Orders, OrderlyCache, Plausible
    <3>8. Remembers(u, store[u], fetching[u], used[u]["start"], server,
                    Ended(server) \/ Ends(dev[u].queue[TRUE]))
      BY <3>1 DEF Remembers, NewStore
    <3>9. Begun(u, dev[u].queue[TRUE], used[u]["start"], server)
      BY <2>2, <3>1 DEF Begun
    <3> QED
      BY <3>7, <3>8, <3>9 DEF EGood
  <2>4. EServer(server)
    BY <2>1 DEF EServer
  <2> QED
    BY <2>3, <2>4 DEF EInv
<1>2. IInv /\ MInv /\ CInv /\ RInv /\ EInv /\ [Next]_vars => EInv'
  <2> SUFFICES ASSUME IInv, MInv, CInv, RInv, EInv, [Next]_vars PROVE EInv'
    OBVIOUS
  <2>1. CASE UNCHANGED vars
    BY <2>1 DEF vars, EInv
  <2>2. CASE Next
    <3>1. PICK u \in Users :
            \/ OpenCreate(u) \/ OpenJoin(u)
            \/ LeaveCreateScreen(u) \/ LeaveJoinScreen(u)
            \/ SignOut(u) \/ HearSignOut(u) \/ SignIn(u) \/ Quit(u) \/ Launch(u)
            \/ \E c \in Codes : CreateSession(u, c)
            \/ \E c \in Codes : JoinSession(u, c)
            \/ \E t \in TimeLimits, r \in Radii : Start(u, t, r)
            \/ ReceiveRestaurants(u) \/ FetchFails(u)
            \/ \E r \in Restaurants : LikeRestaurant(u, r)
            \/ EndSession(u)
            \/ Joined(u) \/ Left(u) \/ Deleted(u) \/ SnapshotGone(u) \/ SnapshotData(u)
            \/ \E b \in BOOLEAN : Commit(u, b)
            \/ Ack(u)
            \/ \E c \in Codes : Sync(u, c) \/ GoOffline(u, c)
      BY <2>2, Zenon DEF Next
    <3>2. ~Left(u) /\ ~Deleted(u) /\ ~SnapshotGone(u)
      BY OnlyWelcome DEF OneRound
    <3> QED
      BY <3>1, <3>2, NavigationEnds, OperationEnds, JoinedEnds, SnapshotDataEnds,
         CommitEnds, DeliveryEnds, Zenon
  <2> QED
    BY <2>1, <2>2
<1>3. OneRound => Calm
  BY DEF OneRound
<1> QED
  BY <1>1, <1>2, <1>3, Invariance, MInvariance, CInvariance, RInvariance, PTL DEF Spec

\* In a round with one host who starts it once, in which nobody goes away and nobody
\* taps Join twice, neither of the screens is ever left without a branch: a user whose
\* device has caught up and who has a result no longer has a live session, and who has
\* a result has a session code (CreateSession.swift:64-76, JoinSession.swift:20-43).
THEOREM AlwaysABranch == ASSUME OneRound, OneStart PROVE Spec => []NeverBlank
<1>1. IInv /\ CInv /\ RInv /\ EInv /\ SettledMirrors => NeverBlank
  <2> SUFFICES ASSUME IInv, CInv, RInv, EInv, SettledMirrors, NEW u \in Users,
                      store[u].session, screen[u] # "home", Settled(u)
               PROVE  CreateForm(u) \/ JoinForm(u) \/ Waiting(u) \/ ShowsLive(u) \/ ShowsResult(u)
    BY DEF NeverBlank
  <2>1. /\ dev[u] \in Devices /\ store[u] \in Stores /\ screen[u] \in {"create", "join"}
        /\ server \in [Codes -> Docs \cup {NoDoc}]
    BY DEF IInv, TypeOK
  <2>2. PICK q \in Seq(Writes) : q = dev[u].queue[TRUE]
    BY <2>1, DeviceParts
  <2>3. q = <<>> /\ DOMAIN q = {}
    <3>1. q = <<>>
      BY <2>2 DEF Settled
    <3> QED
      BY <3>1
  <2>4. Orders(u, dev[u], used[u]["start"], server)
    BY DEF EInv, EGood
  <2>5. store[u].result # NoResult => Ended(server) /\ store[u].sessionCode # NoCode
    <3>1. Remembers(u, store[u], fetching[u], used[u]["start"], server,
                    Ended(server) \/ Ends(dev[u].queue[TRUE]))
      BY DEF EInv, EGood
    <3>2. ~Ends(dev[u].queue[TRUE])
      BY <2>2, <2>3 DEF Ends
    <3> QED
      BY <3>1, <3>2 DEF Remembers
  <2>6. CASE store[u].sessionCode = NoCode
    <3>1. ~store[u].sessionLive
      BY <2>6 DEF CInv, InSession
    <3> QED
      BY <2>1, <2>5, <2>6, <3>1 DEF CreateForm, JoinForm, OnTop
  <2>7. CASE store[u].sessionCode # NoCode
    <3>1. PICK c \in Codes : c = store[u].sessionCode
      BY <2>1, <2>7 DEF Stores
    <3>2. \A o \in Codes : dev[u].listeners[o] > 0 => server[o] # NoDoc
      <4>1. dev[u].user = TRUE
        BY <2>4 DEF Orders
      <4>2. \A o \in Codes : ~Creates(dev[u], o)
        BY <2>2, <2>3, <4>1 DEF Creates, Pending
      <4>3. \A o \in Codes : SoundView(dev[u], o, Existing)
        BY DEF CInv, Sound
      <4> QED
        BY <4>2, <4>3 DEF SoundView, Existing
    <3>3. dev[u].listeners[c] > 0
      BY <2>7, <3>1 DEF IInv, Fits
    <3>4. \A o, o2 \in Codes : server[o] # NoDoc /\ server[o2] # NoDoc => o = o2
      BY DEF RInv, OneSession, OneRound
    <3>5. \A o \in Codes \ {c} : dev[u].listeners[o] = 0
      <4>1. \A o \in Codes : dev[u].listeners[o] \in Nat
        BY <2>1, DeviceParts
      <4> QED
        BY <3>2, <3>3, <3>4, <4>1
    <3>6. store[u].sessionLive = server[c].live
      BY <3>1, <3>5 DEF SettledMirrors
    <3>7. store[u].result # NoResult => ~store[u].sessionLive
      <4> SUFFICES ASSUME store[u].result # NoResult PROVE ~store[u].sessionLive
        OBVIOUS
      <4>1. PICK o \in Codes : server[o] # NoDoc /\ server[o].finished
        BY <2>5 DEF Ended
      <4>2. o = c
        BY <3>2, <3>3, <3>4, <4>1
      <4>3. ~server[o].live
        BY <4>1 DEF EInv, EServer
      <4> QED
        BY <3>6, <4>2, <4>3
    <3>8. CASE store[u].result # NoResult
      BY <2>1, <2>7, <3>7, <3>8 DEF ShowsResult, OnTop
    <3>9. CASE store[u].result = NoResult /\ store[u].sessionLive
      BY <2>1, <2>7, <3>9 DEF Waiting, ShowsLive, OnTop
    <3>10. CASE store[u].result = NoResult /\ ~store[u].sessionLive
      BY <2>1, <2>7, <3>10 DEF Waiting, CreateForm, OnTop
    <3> QED
      BY <3>8, <3>9, <3>10
  <2> QED
    BY <2>6, <2>7
<1>2. OneRound => Calm
  BY DEF OneRound
<1> QED
  BY <1>1, <1>2, Invariance, MirrorsWhenSettled, CInvariance, RInvariance, EInvariance, PTL

------------------------------------------------------------------------------
(* What is decided. *)

Likings == Users \X SUBSET Restaurants

\* The final likes that the server has.
Delivered ==
    {x \in Likings : /\ HandsIn(dev[x[1]], store[x[1]])
                     /\ \E c \in Codes : MemberOf(x[1], server[c]) /\ server[c].likes[x[1]] = x[2]}

\* The likes that user u's queue q hands in, and those before its i-th write.
Pushes(u, q) == {<<u, q[i].liked>> : i \in {j \in DOMAIN q : q[j].op = "push"}}
Earlier(u, q, i) == {<<u, q[k].liked>> : k \in {j \in DOMAIN q : j < i /\ q[j].op = "push"}}

\* The likes in the document x are those in H, or empty; none are counted if H is empty.
Accounted(x, H) ==
    x # NoDoc => /\ \A p \in DOMAIN x.likes : x.likes[p] = {} \/ <<p, x.likes[p]>> \in H
                 /\ x.finishedPushing > 0 => H # {}

\* A restaurant that somebody in H likes, or none.
Justified(sel, H) == /\ H # {}
                     /\ sel = ErrorResult \/ \E x \in H : sel \in x[2]

\* The i-th write of u's queue q, when the server has the final likes H.
Backed(u, q, i, H) ==
    /\ q[i].op \notin {"leave", "delete"}
    /\ q[i].op = "push" /\ q[i].reply # "none" => <<u, q[i].liked>> \in H
    /\ q[i].op = "result" => Justified(q[i].sel, H \cup Earlier(u, q, i))

BackedCache(cache, H) == \A c \in Codes : Accounted(Visible(cache[c]), H)

LGood(u, d, H) ==
    /\ d \in Devices /\ d.user = TRUE
    /\ \A i \in DOMAIN d.queue[TRUE] : Backed(u, d.queue[TRUE], i, H)
    /\ BackedCache(d.cache, H)
    /\ \A x \in Shows(d) : Accounted(x, H \cup Pushes(u, d.queue[TRUE]))

LInv == /\ \A u \in Users : LGood(u, dev[u], Delivered)
        /\ \A c \in Codes : Accounted(server[c], Delivered)

\* More final likes account for more.
LEMMA AccountedGrows ==
    ASSUME NEW H, NEW H2, H \subseteq H2
    PROVE  /\ \A x : Accounted(x, H) => Accounted(x, H2)
           /\ \A sel : Justified(sel, H) => Justified(sel, H2)
<1>1. \A x : Accounted(x, H) => Accounted(x, H2)
  BY DEF Accounted
<1>2. \A sel : Justified(sel, H) => Justified(sel, H2)
  BY DEF Justified
<1> QED
  BY <1>1, <1>2

\* A new document has empty likes.
LEMMA NewAccounted == ASSUME NEW u \in Users, NEW H, NEW s, s = NewDoc(u) PROVE Accounted(s, H)
<1>1. s.finishedPushing = 0 /\ s.likes = SetLikes(NoLikes, u, {})
  BY DEF NewDoc
<1>2. \A p \in DOMAIN s.likes : s.likes[p] = {}
  BY <1>1 DEF SetLikes, NoLikes
<1> QED
  BY <1>1, <1>2 DEF Accounted

\* The likes of a document with those of u set.
LEMMA SetAccounted ==
    ASSUME NEW y, NEW u, NEW liked, NEW H,
           \A p \in DOMAIN y : y[p] = {} \/ <<p, y[p]>> \in H,
           liked = {} \/ <<u, liked>> \in H, NEW z, z = SetLikes(y, u, liked)
    PROVE  \A p \in DOMAIN z : z[p] = {} \/ <<p, z[p]>> \in H
  BY DEF SetLikes

\* A patch leaves a document accounted for if it pushes what is.
LEMMA PatchAccounted ==
    ASSUME NEW u \in Users, NEW w \in Writes, w.op \notin {"create", "leave", "delete"},
           NEW n \in Int, NEW y \in Docs, NEW H, Accounted(y, H),
           w.op = "push" => <<u, w.liked>> \in H, NEW x, x = Patch(u, w, n, y)
    PROVE  x \in Docs /\ Accounted(x, H)
<1>1. /\ x \in Docs
      /\ x.finishedPushing = IF w.op = "push" THEN n ELSE y.finishedPushing
      /\ w.op \notin {"join", "push"} => x.likes = y.likes
      /\ w.op = "join" => x.likes = SetLikes(y.likes, u, {})
      /\ w.op = "push" => x.likes = SetLikes(y.likes, u, w.liked)
  BY PatchFields
<1>2. /\ \A p \in DOMAIN y.likes : y.likes[p] = {} \/ <<p, y.likes[p]>> \in H
      /\ y.finishedPushing > 0 => H # {}
  BY MissingAssumption DEF Accounted
<1>3. \A p \in DOMAIN x.likes : x.likes[p] = {} \/ <<p, x.likes[p]>> \in H
  <2>0. PICK k : k = y.likes
    OBVIOUS
  <2>1. CASE w.op \notin {"join", "push"}
    BY <1>1, <1>2, <2>1
  <2>2. CASE w.op \in {"join", "push"}
    <3>1. PICK l : l = IF w.op = "join" THEN {} ELSE w.liked
      OBVIOUS
    <3>2. l = {} \/ <<u, l>> \in H
      BY <2>2, <3>1
    <3>3. PICK z : z = SetLikes(k, u, l)
      OBVIOUS
    <3>4. \A p \in DOMAIN k : k[p] = {} \/ <<p, k[p]>> \in H
      BY <1>2, <2>0
    <3>5. \A p \in DOMAIN z : z[p] = {} \/ <<p, z[p]>> \in H
      BY <3>2, <3>3, <3>4, SetAccounted
    <3>6. x.likes = z
      BY <1>1, <2>0, <2>2, <3>1, <3>3
    <3> QED
      BY <3>5, <3>6
  <2> QED
    BY <2>1, <2>2
<1>4. x.finishedPushing > 0 => H # {}
  BY <1>1, <1>2
<1> QED
  BY <1>1, <1>3, <1>4 DEF Accounted

\* The same for a document that may be missing, and a write that may make it.
LEMMA ApplyAccounted ==
    ASSUME NEW u \in Users, NEW w \in Writes, w.op \notin {"leave", "delete"},
           NEW n \in Int, NEW y \in CachedDocs, NEW H, Accounted(Visible(y), H),
           w.op = "push" => <<u, w.liked>> \in H, NEW x, x = Apply(u, w, n, y)
    PROVE  Accounted(Visible(x), H)
<1>1. CASE w.op = "create"
  <2>1. x = NewDoc(u)
    BY <1>1 DEF Apply, Replaces
  <2>2. Accounted(x, H)
    BY <2>1, NewAccounted
  <2> QED
    BY <2>2 DEF Visible, Accounted
<1>2. CASE ~Replaces(w) /\ Missing(y)
  BY <1>2 DEF Apply, Replaces, Visible, Accounted
<1>3. CASE ~Replaces(w) /\ ~Missing(y)
  <2>1. y \in Docs /\ Visible(y) = y
    BY <1>3 DEF Missing, CachedDocs, Visible
  <2>2. x = Patch(u, w, n, y) /\ w.op \notin {"create", "leave", "delete"}
    BY <1>3 DEF Apply, Replaces
  <2>3. Accounted(x, H)
    BY <2>1, <2>2, PatchAccounted
  <2> QED
    BY <2>3 DEF Visible, Accounted
<1> QED
  BY <1>1, <1>2, <1>3 DEF Replaces

\* A view of a cache with writes is accounted for by what they push too.
LEMMA OverlayAccounted ==
    ASSUME NEW u \in Users, NEW q \in Seq(Writes), NEW H, \A i \in DOMAIN q : Backed(u, q, i, H),
           NEW cache \in [Codes -> CachedDocs], BackedCache(cache, H), NEW c \in Codes,
           NEW x, x = Overlay(u, q, c, cache[c])
    PROVE  Accounted(Visible(x), H \cup Pushes(u, q))
<1> SUFFICES ASSUME ~Missing(x) PROVE Accounted(x, H \cup Pushes(u, q))
  BY DEF Visible, Accounted
<1>1. PICK s \in Docs :
         /\ s = IF Makes(q, c) THEN NewDoc(u) ELSE cache[c]
         /\ \A f \in Fields :
               \/ x[f] = s[f] /\ Overwritten(q, c, f)
               \/ \E i \in DOMAIN q : /\ LastWriter(q, c, f, i)
                                      /\ x[f] = Patch(u, q[i], q[i].num, s)[f]
  <2>1. \A i \in DOMAIN q : q[i].op \notin {"leave", "delete"}
    BY DEF Backed
  <2>2. cache[c] \in CachedDocs
    OBVIOUS
  <2> QED
    BY <2>1, <2>2, OverlayField
<1>2. PICK G : G = H \cup Pushes(u, q)
  OBVIOUS
<1>3. Accounted(s, G)
  <2>1. CASE Makes(q, c)
    BY <1>1, <2>1, NewAccounted
  <2>2. CASE ~Makes(q, c)
    <3>1. Accounted(s, H)
      BY <1>1, <2>2, MissingAssumption DEF BackedCache, Visible, Missing
    <3> QED
      BY <1>2, <3>1, AccountedGrows
  <2> QED
    BY <2>1, <2>2
<1>4. ASSUME NEW i \in DOMAIN q, q[i].op \notin {"create", "leave", "delete"}, NEW y,
             y = Patch(u, q[i], q[i].num, s)
      PROVE  Accounted(y, G) /\ y # NoDoc
  <2>1. q[i] \in Writes /\ q[i].num \in Int
    BY WriteParts
  <2>2. q[i].op = "push" => <<u, q[i].liked>> \in G
    BY <1>2 DEF Pushes
  <2>3. y \in Docs /\ Accounted(y, G)
    BY <1>3, <1>4, <2>1, <2>2, PatchAccounted
  <2> QED
    BY <2>3, MissingAssumption
<1>5. \A i \in DOMAIN q : \A f : LastWriter(q, c, f, i) => q[i].op \notin {"create", "leave", "delete"}
  BY DEF LastWriter, Assigns, Backed
<1>6. \E y : Accounted(y, G) /\ y # NoDoc /\ x["likes"] = y["likes"]
  <2>1. \/ x["likes"] = s["likes"]
        \/ \E i \in DOMAIN q : /\ LastWriter(q, c, "likes", i)
                               /\ x["likes"] = Patch(u, q[i], q[i].num, s)["likes"]
    BY <1>1 DEF Fields
  <2> QED
    BY <1>3, <1>4, <1>5, <2>1, MissingAssumption
<1>7. \E y : Accounted(y, G) /\ y # NoDoc /\ x["finishedPushing"] = y["finishedPushing"]
  <2>1. \/ x["finishedPushing"] = s["finishedPushing"]
        \/ \E i \in DOMAIN q : /\ LastWriter(q, c, "finishedPushing", i)
                               /\ x["finishedPushing"] = Patch(u, q[i], q[i].num, s)["finishedPushing"]
    BY <1>1 DEF Fields
  <2> QED
    BY <1>3, <1>4, <1>5, <2>1, MissingAssumption
<1>8. Accounted(x, G)
  BY <1>6, <1>7 DEF Accounted
<1> QED
  BY <1>2, <1>8

\* What a device shows of a document is accounted for.
LEMMA LocalAccounted ==
    ASSUME NEW u \in Users, NEW d, NEW H, LGood(u, d, H), NEW c \in Codes
    PROVE  Accounted(Visible(Local(u, d, c)), H \cup Pushes(u, d.queue[TRUE]))
<1>1. d \in Devices /\ d.user = TRUE
  BY DEF LGood
<1>2. PICK q \in Seq(Writes) : q = d.queue[TRUE]
  BY <1>1, DeviceParts
<1>3. d.cache \in [Codes -> CachedDocs]
  BY <1>1, DeviceParts
<1>4. Local(u, d, c) = Overlay(u, q, c, d.cache[c])
  BY <1>1, <1>2 DEF Local, Pending
<1>5. (\A i \in DOMAIN q : Backed(u, q, i, H)) /\ BackedCache(d.cache, H)
  BY <1>2 DEF LGood
<1> QED
  BY <1>2, <1>3, <1>4, <1>5, OverlayAccounted

\* A push waits in the queue q.
Handing(q) == \E i \in DOMAIN q : Waits(q, i, "push")

\* The device shows what it showed before or x.
LEMMA LGoodShown ==
    ASSUME NEW u, NEW d, NEW H, LGood(u, d, H), NEW x, Accounted(x, H \cup Pushes(u, d.queue[TRUE])),
           NEW d2 \in Devices, d2.queue = d.queue, d2.user = d.user, d2.cache = d.cache,
           Shows(d2) \subseteq Shows(d) \cup {x}
    PROVE  LGood(u, d2, H)
  BY DEF LGood

\* The device d has other writes instead, and another cache.
LEMMA LGoodChanged ==
    ASSUME NEW u, NEW d, NEW H, LGood(u, d, H), NEW d2 \in Devices, d2.user = TRUE,
           \A i \in DOMAIN d2.queue[TRUE] : Backed(u, d2.queue[TRUE], i, H),
           BackedCache(d2.cache, H), Shows(d2) \subseteq Shows(d) \cup {NoDoc},
           Pushes(u, d.queue[TRUE]) \subseteq H \cup Pushes(u, d2.queue[TRUE])
    PROVE  LGood(u, d2, H)
<1>1. PICK G : G = H \cup Pushes(u, d.queue[TRUE])
  OBVIOUS
<1>2. PICK G2 : G2 = H \cup Pushes(u, d2.queue[TRUE])
  OBVIOUS
<1>3. G \subseteq G2
  BY <1>1, <1>2
<1>4. \A x \in Shows(d2) : Accounted(x, G) \/ x = NoDoc
  BY <1>1 DEF LGood
<1>5. \A x \in Shows(d2) : Accounted(x, G2)
  BY <1>3, <1>4, AccountedGrows DEF Accounted
<1> QED
  BY <1>2, <1>5 DEF LGood

\* A refresh, a new listener and an answer to the listeners that wait show nothing
\* that is not accounted for.
LEMMA RefreshLikes ==
    ASSUME NEW u \in Users, NEW d, NEW H, LGood(u, d, H), NEW c \in Codes,
           NEW d2, d2 = Refresh(u, d, c)
    PROVE  LGood(u, d2, H) /\ d2.queue = d.queue
<1>1. PICK x : x = Visible(Local(u, d, c))
  OBVIOUS
<1>2. Accounted(x, H \cup Pushes(u, d.queue[TRUE])) /\ d \in Devices
  BY <1>1, LocalAccounted DEF LGood
<1>3. /\ d2 \in Devices /\ d2.queue = d.queue /\ d2.user = d.user /\ d2.cache = d.cache
      /\ Shows(d2) \subseteq Shows(d) \cup {x}
  BY <1>1, <1>2, RefreshShows
<1> QED
  BY <1>2, <1>3, LGoodShown

LEMMA WatchLikes ==
    ASSUME NEW u \in Users, NEW d, NEW H, LGood(u, d, H), NEW c \in Codes,
           NEW d2, d2 = Watch(u, d, c)
    PROVE  LGood(u, d2, H) /\ d2.queue = d.queue
<1>1. PICK x : x = Visible(Local(u, d, c))
  OBVIOUS
<1>2. Accounted(x, H \cup Pushes(u, d.queue[TRUE])) /\ d \in Devices
  BY <1>1, LocalAccounted DEF LGood
<1>3. /\ d2 \in Devices /\ d2.queue = d.queue /\ d2.user = d.user /\ d2.cache = d.cache
      /\ Shows(d2) \subseteq Shows(d) \cup {x}
  BY <1>1, <1>2, WatchShows
<1> QED
  BY <1>2, <1>3, LGoodShown

\* What a device takes from its inbox is accounted for.
LEMMA HandledLikes ==
    ASSUME NEW u \in Users, NEW d, NEW H, LGood(u, d, H), d.inbox # <<>>,
           NEW d2, d2 = Handled(d)
    PROVE  /\ LGood(u, d2, H) /\ d2.queue = d.queue
           /\ Accounted(Head(d.inbox).data, H \cup Pushes(u, d.queue[TRUE]))
<1>1. d \in Devices
  BY DEF LGood
<1>2. /\ d2 \in Devices /\ d2.queue = d.queue /\ d2.user = d.user /\ d2.cache = d.cache
      /\ Shows(d2) \subseteq Shows(d) /\ Head(d.inbox).data \in Shows(d)
  BY <1>1, HandledShows
<1> QED
  BY <1>2 DEF LGood

\* The write w may be queued behind those in q.
MayHand(u, w, q, H) ==
    /\ w.reply = "none" /\ w.op \notin {"leave", "delete"}
    /\ w.op = "result" => Justified(w.sel, H \cup Pushes(u, q))

\* A write that may be added leaves the queue backed.
LEMMA AppendBacked ==
    ASSUME NEW u, NEW q \in Seq(Writes), NEW H, \A i \in DOMAIN q : Backed(u, q, i, H),
           NEW w \in Writes, MayHand(u, w, q, H), NEW q2, q2 = Append(q, w)
    PROVE  /\ \A i \in DOMAIN q2 : Backed(u, q2, i, H)
           /\ Pushes(u, q) \subseteq Pushes(u, q2)
           /\ Handing(q2) <=> Handing(q) \/ w.op = "push"
<1>1. PICK k \in Nat : k = Len(q) + 1
  OBVIOUS
<1>2. /\ q2[k] = w /\ \A i \in DOMAIN q : i < k /\ i \in DOMAIN q2 /\ q2[i] = q[i] /\ i \in Nat
      /\ \A i \in DOMAIN q2 : i = k \/ i \in DOMAIN q
      /\ k \in DOMAIN q2
  BY <1>1, AppendProperties
<1>3. Handing(q2) <=> Handing(q) \/ w.op = "push"
  BY <1>2 DEF Handing, Waits, MayHand
<1>4. Pushes(u, q) \subseteq Pushes(u, q2)
  BY <1>2 DEF Pushes
<1>5. \A i \in DOMAIN q : Earlier(u, q, i) \subseteq Earlier(u, q2, i)
  BY <1>2 DEF Earlier
<1>6. Pushes(u, q) \subseteq Earlier(u, q2, k)
  BY <1>2 DEF Earlier, Pushes
<1>7. ASSUME NEW i \in DOMAIN q PROVE Backed(u, q2, i, H)
  <2>1. Backed(u, q, i, H) /\ q2[i] = q[i]
    BY <1>2
  <2>2. PICK G : G = H \cup Earlier(u, q, i)
    OBVIOUS
  <2>3. PICK G2 : G2 = H \cup Earlier(u, q2, i)
    OBVIOUS
  <2>4. G \subseteq G2
    BY <1>5, <2>2, <2>3
  <2>5. \A sel : Justified(sel, G) => Justified(sel, G2)
    BY <2>4, AccountedGrows
  <2> QED
    BY <2>1, <2>2, <2>3, <2>5 DEF Backed
<1>8. Backed(u, q2, k, H)
  <2>1. PICK G : G = H \cup Pushes(u, q)
    OBVIOUS
  <2>2. PICK G2 : G2 = H \cup Earlier(u, q2, k)
    OBVIOUS
  <2>3. \A sel : Justified(sel, G) => Justified(sel, G2)
    BY <1>6, <2>1, <2>2, AccountedGrows
  <2> QED
    BY <1>2, <2>1, <2>2, <2>3 DEF Backed, MayHand
<1> QED
  BY <1>2, <1>3, <1>4, <1>7, <1>8

\* A device that issues a write that may be added stays good.
LEMMA IssueLikes ==
    ASSUME NEW u \in Users, NEW d, NEW H, LGood(u, d, H), NEW w \in Writes,
           MayHand(u, w, d.queue[TRUE], H), NEW d2, d2 = Issue(u, d, w)
    PROVE  /\ LGood(u, d2, H)
           /\ Pushes(u, d.queue[TRUE]) \subseteq Pushes(u, d2.queue[TRUE])
           /\ Handing(d2.queue[TRUE]) <=> Handing(d.queue[TRUE]) \/ w.op = "push"
<1>1. d \in Devices /\ d.user = TRUE /\ w.code \in Codes
  BY WriteParts DEF LGood
<1>2. PICK q \in Seq(Writes) : q = d.queue[TRUE]
  BY <1>1, DeviceParts
<1>3. PICK d1 \in Devices, x \in Writes :
         /\ Renumbered(w, x) /\ d1.queue[TRUE] = Append(q, x) /\ SameBut(d, d1)
         /\ d2 = Refresh(u, d1, w.code)
  <2>1. Queues(u, d, q, w, d2)
    BY <1>1, <1>2, IssueSteps
  <2> QED
    BY <2>1 DEF Queues
<1>4. PICK r : r = Append(q, x)
  OBVIOUS
<1>5. MayHand(u, x, q, H) /\ x.op = w.op
  BY <1>2, <1>3 DEF MayHand, Renumbered
<1>6. /\ \A i \in DOMAIN r : Backed(u, r, i, H)
      /\ Pushes(u, q) \subseteq Pushes(u, r)
      /\ Handing(r) <=> Handing(q) \/ x.op = "push"
  <2>1. \A i \in DOMAIN q : Backed(u, q, i, H)
    BY <1>2 DEF LGood
  <2> QED
    BY <1>4, <1>5, <2>1, AppendBacked
<1>7. d1.queue[TRUE] = r /\ d1.user = TRUE /\ d1.cache = d.cache /\ Shows(d1) = Shows(d)
  BY <1>1, <1>3, <1>4 DEF SameBut, Shows
<1>8. LGood(u, d1, H)
  <2>1. BackedCache(d1.cache, H)
    BY <1>7 DEF LGood
  <2> QED
    BY <1>2, <1>6, <1>7, <2>1, LGoodChanged
<1>9. LGood(u, d2, H) /\ d2.queue = d1.queue
  BY <1>1, <1>3, <1>8, RefreshLikes
<1>10. d2.queue[TRUE] = r
  BY <1>7, <1>9
<1> QED
  BY <1>2, <1>5, <1>6, <1>9, <1>10

\* The oldest write, once answered, can be taken from a backed queue.
LEMMA TailBacked ==
    ASSUME NEW u, NEW q \in Seq(Writes), q # <<>>, NEW H,
           \A i \in DOMAIN q : Backed(u, q, i, H), Head(q).reply # "none",
           NEW q2, q2 = Tail(q)
    PROVE  /\ \A i \in DOMAIN q2 : Backed(u, q2, i, H)
           /\ Pushes(u, q) \subseteq H \cup Pushes(u, q2)
           /\ Handing(q2) <=> Handing(q)
<1>1. /\ q2 \in Seq(Writes) /\ Len(q2) = Len(q) - 1
      /\ \A i \in 1 .. Len(q2) : q2[i] = q[i + 1]
  BY HeadTailProperties, Zenon
<1>2. /\ Len(q) \in Nat /\ DOMAIN q = 1 .. Len(q) /\ DOMAIN q2 = 1 .. Len(q2)
      /\ Head(q) = q[1] /\ Len(q) > 0
  BY <1>1, EmptySeq
<1>3. /\ \A i \in DOMAIN q2 : i + 1 \in DOMAIN q /\ q2[i] = q[i + 1]
      /\ \A i \in DOMAIN q : i = 1 \/ \E k \in DOMAIN q2 : i = k + 1
      /\ \A i, j \in DOMAIN q2 : i + 1 < j + 1 <=> i < j
      /\ 1 \in DOMAIN q /\ q[1].reply # "none"
  <2>1. \A i \in DOMAIN q2 : i + 1 \in DOMAIN q /\ q2[i] = q[i + 1]
    BY <1>1, <1>2
  <2>2. \A i \in DOMAIN q : i # 1 => i - 1 \in DOMAIN q2 /\ i = (i - 1) + 1
    BY <1>1, <1>2
  <2>3. \A i, j \in DOMAIN q2 : i + 1 < j + 1 <=> i < j
    BY <1>2
  <2> QED
    BY <1>2, <2>1, <2>2, <2>3
<1>4. q[1].op = "push" => <<u, q[1].liked>> \in H
  BY <1>3 DEF Backed
<1>5. Pushes(u, q) \subseteq H \cup Pushes(u, q2)
  <2> SUFFICES ASSUME NEW i \in DOMAIN q, q[i].op = "push"
               PROVE  <<u, q[i].liked>> \in H \cup Pushes(u, q2)
    BY DEF Pushes
  <2>1. CASE i = 1
    BY <1>4, <2>1
  <2>2. CASE i # 1
    <3>1. PICK k \in DOMAIN q2 : i = k + 1
      BY <1>3, <2>2
    <3>2. q2[k] = q[i]
      BY <1>3, <3>1
    <3> QED
      BY <3>2 DEF Pushes
  <2> QED
    BY <2>1, <2>2
<1>6. Handing(q2) <=> Handing(q)
  BY <1>3 DEF Handing, Waits
<1>7. ASSUME NEW i \in DOMAIN q2 PROVE Backed(u, q2, i, H)
  <2>1. PICK m \in DOMAIN q : m = i + 1
    BY <1>3
  <2>2. Backed(u, q, m, H) /\ q2[i] = q[m]
    BY <1>3, <2>1
  <2>3. PICK G : G = H \cup Earlier(u, q, m)
    OBVIOUS
  <2>4. PICK G2 : G2 = H \cup Earlier(u, q2, i)
    OBVIOUS
  <2>5. G \subseteq G2
    <3> SUFFICES ASSUME NEW j \in DOMAIN q, j < m, q[j].op = "push"
                 PROVE  <<u, q[j].liked>> \in G2
      BY <2>3, <2>4 DEF Earlier
    <3>1. CASE j = 1
      BY <1>4, <2>4, <3>1
    <3>2. CASE j # 1
      <4>1. PICK k \in DOMAIN q2 : j = k + 1
        BY <1>3, <3>2
      <4>2. q2[k] = q[j] /\ k < i
        BY <1>3, <2>1, <4>1
      <4> QED
        BY <2>4, <4>2 DEF Earlier
    <3> QED
      BY <3>1, <3>2
  <2>6. \A sel : Justified(sel, G) => Justified(sel, G2)
    BY <2>5, AccountedGrows
  <2> QED
    BY <2>2, <2>3, <2>4, <2>6 DEF Backed
<1> QED
  BY <1>5, <1>6, <1>7

\* An answer leaves a device good: a push that goes has reached the server.
LEMMA AcknowledgeLikes ==
    ASSUME NEW u \in Users, NEW d, NEW H, LGood(u, d, H),
           Pending(d) # <<>>, Head(Pending(d)).reply # "none", NEW d2, d2 = Acknowledge(u, d)
    PROVE  LGood(u, d2, H) /\ (Handing(d2.queue[TRUE]) <=> Handing(d.queue[TRUE]))
<1>1. d \in Devices /\ d.user = TRUE
  BY DEF LGood
<1>2. PICK old \in Seq(Writes) : old = d.queue[TRUE]
  BY <1>1, DeviceParts
<1>3. Pending(d) = old /\ old # <<>> /\ Head(old).reply # "none"
  BY <1>1, <1>2 DEF Pending
<1>4. PICK r \in Seq(Writes) : r = Tail(old)
  BY <1>3, HeadTailProperties, Zenon
<1>5. PICK d1 \in Devices, x \in CachedDocs, w \in Writes, c \in Codes :
        /\ w = Head(d.queue[TRUE]) /\ c = w.code /\ x = Known(u, w, d.cache[c])
        /\ d1.queue[TRUE] = Tail(d.queue[TRUE]) /\ d1.user = TRUE
        /\ Shows(d1) \subseteq Shows(d) \cup {NoDoc}
        /\ d1.cache[c] = x /\ \A o \in Codes \ {c} : d1.cache[o] = d.cache[o]
        /\ d2 = Refresh(u, d1, c)
  <2>1. Clears(u, d, d2)
    BY <1>1, AcknowledgeSteps
  <2> QED
    BY <2>1 DEF Clears
<1>6. w = Head(old) /\ d1.queue[TRUE] = r /\ w.reply # "none"
  BY <1>2, <1>3, <1>4, <1>5
<1>7. (\A j \in DOMAIN old : Backed(u, old, j, H)) /\ BackedCache(d.cache, H)
  BY <1>2 DEF LGood
<1>8. /\ \A j \in DOMAIN r : Backed(u, r, j, H)
      /\ Pushes(u, old) \subseteq H \cup Pushes(u, r)
      /\ Handing(r) <=> Handing(old)
  BY <1>3, <1>4, <1>7, TailBacked
<1>9. w.op \notin {"leave", "delete"} /\ (w.op = "push" => <<u, w.liked>> \in H)
  <2>1. 1 \in DOMAIN old /\ Head(old) = old[1]
    BY <1>3, EmptySeq
  <2>2. Backed(u, old, 1, H) /\ old[1] = w
    BY <1>6, <1>7, <2>1
  <2> QED
    BY <1>6, <2>2 DEF Backed
<1>10. PICK y \in CachedDocs : y = d.cache[c]
  BY <1>1, DeviceParts
<1>11. Accounted(Visible(y), H)
  BY <1>7, <1>10 DEF BackedCache
<1>12. Accounted(Visible(x), H)
  <2>1. x = y \/ x = Unknown \/ x = Apply(u, w, w.counter, y)
    BY <1>5, <1>10, Zenon DEF Known
  <2>2. CASE x = y
    BY <1>11, <2>2, Zenon
  <2>3. CASE x = Unknown
    BY <2>3 DEF Visible, Missing, Accounted
  <2>4. CASE x = Apply(u, w, w.counter, y)
    <3>1. w.counter \in Int
      BY WriteParts
    <3> QED
      BY <1>9, <1>11, <2>4, <3>1, ApplyAccounted
  <2> QED
    BY <2>1, <2>2, <2>3, <2>4
<1>13. BackedCache(d1.cache, H)
  <2>1. ASSUME NEW o \in Codes PROVE Accounted(Visible(d1.cache[o]), H)
    <3>1. CASE o = c
      <4>1. d1.cache[o] = x
        BY <1>5, <3>1
      <4> QED
        BY <1>12, <4>1
    <3>2. CASE o # c
      <4>1. d1.cache[o] = d.cache[o]
        BY <1>5, <3>2
      <4> QED
        BY <1>7, <4>1 DEF BackedCache
    <3> QED
      BY <3>1, <3>2
  <2> QED
    BY <2>1 DEF BackedCache
<1>14. LGood(u, d1, H)
  <2>1. \A j \in DOMAIN d1.queue[TRUE] : Backed(u, d1.queue[TRUE], j, H)
    BY <1>6, <1>8
  <2>2. Pushes(u, d.queue[TRUE]) \subseteq H \cup Pushes(u, d1.queue[TRUE])
    BY <1>2, <1>6, <1>8
  <2>3. d1 \in Devices /\ d1.user = TRUE /\ Shows(d1) \subseteq Shows(d) \cup {NoDoc}
    BY <1>5
  <2> QED
    BY <1>13, <2>1, <2>2, <2>3, LGoodChanged
<1>15. LGood(u, d2, H) /\ d2.queue = d1.queue
  <2>1. d2 = Refresh(u, d1, c) /\ c \in Codes
    BY <1>5
  <2> QED
    BY <1>14, <2>1, RefreshLikes
<1>16. d2.queue[TRUE] = r
  BY <1>6, <1>15
<1> QED
  BY <1>2, <1>8, <1>15, <1>16

\* A document that is accounted for leaves the device that gets it good.
LEMMA ReceiveLikes ==
    ASSUME NEW u \in Users, NEW d, NEW H, LGood(u, d, H), NEW c \in Codes,
           NEW remote \in Docs \cup {NoDoc}, Accounted(remote, H),
           NEW d2, d2 = Receive(u, d, c, remote)
    PROVE  LGood(u, d2, H) /\ (Handing(d2.queue[TRUE]) <=> Handing(d.queue[TRUE]))
<1>1. d \in Devices /\ d.user = TRUE /\ BackedCache(d.cache, H)
  BY DEF LGood
<1>2. PICK known \in Devices :
        /\ SameContents(d.queue[TRUE], known.queue[TRUE]) /\ known.user = TRUE
        /\ Shows(known) = Shows(d)
        /\ known.cache[c] = remote /\ \A o \in Codes \ {c} : known.cache[o] = d.cache[o]
        /\ d2 = Reach(Refresh(u, known, c), c, "synced")
  <2>1. Takes(u, d, c, remote, d2)
    BY <1>1, ReceiveSteps
  <2> QED
    BY <2>1 DEF Takes
<1>3. PICK d1 : d1 = Refresh(u, known, c)
  OBVIOUS
<1>4. PICK old : old = d.queue[TRUE]
  OBVIOUS
<1>5. PICK r : r = known.queue[TRUE]
  OBVIOUS
<1>6. /\ DOMAIN r = DOMAIN old
      /\ \A i \in DOMAIN old : /\ r[i].op = old[i].op /\ r[i].liked = old[i].liked
                               /\ r[i].sel = old[i].sel
                               /\ r[i].reply = "none" <=> old[i].reply = "none"
  BY <1>2, <1>4, <1>5 DEF SameContents, SameKind
<1>7. /\ Pushes(u, r) = Pushes(u, old) /\ \A i : Earlier(u, r, i) = Earlier(u, old, i)
      /\ Handing(r) <=> Handing(old)
  BY <1>6 DEF Pushes, Earlier, Handing, Waits
<1>8. \A i \in DOMAIN r : Backed(u, r, i, H)
  <2>1. ASSUME NEW i \in DOMAIN r PROVE Backed(u, r, i, H)
    <3>1. Backed(u, old, i, H)
      BY <1>4, <1>6 DEF LGood
    <3>2. Earlier(u, r, i) = Earlier(u, old, i)
      BY <1>7
    <3> QED
      BY <1>6, <3>1, <3>2 DEF Backed
  <2> QED
    BY <2>1
<1>9. BackedCache(known.cache, H)
  <2>1. Visible(remote) = remote
    BY MissingAssumption DEF Visible, Missing
  <2> QED
    BY <1>1, <1>2, <2>1 DEF BackedCache
<1>10. LGood(u, known, H)
  <2>1. Pushes(u, d.queue[TRUE]) \subseteq H \cup Pushes(u, known.queue[TRUE])
    BY <1>4, <1>5, <1>7
  <2> QED
    BY <1>2, <1>5, <1>8, <1>9, <2>1, LGoodChanged
<1>11. LGood(u, d1, H) /\ d1.queue = known.queue
  BY <1>3, <1>10, RefreshLikes
<1>12. /\ d2 \in Devices /\ d2.queue = d1.queue /\ d2.user = d1.user /\ d2.cache = d1.cache
       /\ Shows(d2) \subseteq Shows(d1)
  <2>1. d1 \in Devices
    BY <1>11 DEF LGood
  <2> QED
    BY <1>2, <1>3, <2>1, ReachShows
<1>13. LGood(u, d2, H)
  BY <1>11, <1>12 DEF LGood
<1> QED
  BY <1>4, <1>5, <1>7, <1>11, <1>12, <1>13

\* More final likes on the server leave a device good.
LEMMA LGoodGrows ==
    ASSUME NEW u, NEW d, NEW H, LGood(u, d, H), NEW H2, H \subseteq H2
    PROVE  LGood(u, d, H2)
<1>1. PICK q : q = d.queue[TRUE]
  OBVIOUS
<1>2. \A x : Accounted(x, H) => Accounted(x, H2)
  BY AccountedGrows
<1>3. ASSUME NEW i \in DOMAIN q PROVE Backed(u, q, i, H2)
  <2>1. PICK G : G = H \cup Earlier(u, q, i)
    OBVIOUS
  <2>2. PICK G2 : G2 = H2 \cup Earlier(u, q, i)
    OBVIOUS
  <2>3. G \subseteq G2
    BY <2>1, <2>2
  <2>4. \A sel : Justified(sel, G) => Justified(sel, G2)
    BY <2>3, AccountedGrows
  <2>5. Backed(u, q, i, H)
    BY <1>1 DEF LGood
  <2> QED
    BY <2>1, <2>2, <2>4, <2>5 DEF Backed
<1>4. BackedCache(d.cache, H2)
  BY <1>2 DEF LGood, BackedCache
<1>5. \A x \in Shows(d) : Accounted(x, H2 \cup Pushes(u, d.queue[TRUE]))
  <2>1. PICK G : G = H \cup Pushes(u, d.queue[TRUE])
    OBVIOUS
  <2>2. PICK G2 : G2 = H2 \cup Pushes(u, d.queue[TRUE])
    OBVIOUS
  <2>3. G \subseteq G2
    BY <2>1, <2>2
  <2>4. \A x : Accounted(x, G) => Accounted(x, G2)
    BY <2>3, AccountedGrows
  <2> QED
    BY <2>1, <2>2, <2>4 DEF LGood
<1> QED
  BY <1>1, <1>3, <1>4, <1>5 DEF LGood

\* The i-th write of u's device d is executed, which leaves the device d2 and adds the
\* likes that the write hands in to the final ones.
Delivers(u, d, i, d2, H, H2) ==
    /\ Executes(d, i, d2) /\ d2.cache = d.cache /\ d2.shown = d.shown
    /\ d2.queue[TRUE][i].liked = d.queue[TRUE][i].liked /\ d2.queue[TRUE][i].sel = d.queue[TRUE][i].sel
    /\ H \subseteq H2
    /\ d.queue[TRUE][i].op = "push" => <<u, d.queue[TRUE][i].liked>> \in H2

LEMMA LGoodExecuted ==
    ASSUME NEW u, NEW d, NEW H, LGood(u, d, H), NEW i, NEW d2 \in Devices, NEW H2,
           Delivers(u, d, i, d2, H, H2)
    PROVE  LGood(u, d2, H2)
<1>1. PICK q : q = d.queue[TRUE]
  OBVIOUS
<1>2. PICK q2 : q2 = d2.queue[TRUE]
  OBVIOUS
<1>3. /\ i \in DOMAIN q /\ DOMAIN q2 = DOMAIN q
      /\ \A j \in DOMAIN q \ {i} : q2[j] = q[j]
      /\ q[i].op = "push" => <<u, q[i].liked>> \in H2
      /\ \A j \in DOMAIN q : q2[j].op = q[j].op /\ q2[j].liked = q[j].liked /\ q2[j].sel = q[j].sel
  BY <1>1, <1>2 DEF Delivers, Executes
<1>4. /\ d.user = TRUE /\ d2.user = TRUE /\ d2.inbox = d.inbox /\ d2.cache = d.cache
      /\ d2.shown = d.shown
  BY DEF Delivers, Executes, LGood
<1>5. Pushes(u, q2) = Pushes(u, q) /\ \A j : Earlier(u, q2, j) = Earlier(u, q, j)
  BY <1>3 DEF Pushes, Earlier
<1>6. LGood(u, d, H2)
  BY LGoodGrows DEF Delivers
<1>7. ASSUME NEW j \in DOMAIN q2 PROVE Backed(u, q2, j, H2)
  <2>1. Backed(u, q, j, H2)
    BY <1>1, <1>3, <1>6 DEF LGood
  <2>2. Earlier(u, q2, j) = Earlier(u, q, j)
    BY <1>5
  <2>3. q2[j].op = q[j].op /\ q2[j].liked = q[j].liked /\ q2[j].sel = q[j].sel
    BY <1>3
  <2>4. q2[j].op = "push" /\ q2[j].reply # "none" => <<u, q2[j].liked>> \in H2
    BY <1>3, <2>1, <2>3 DEF Backed
  <2> QED
    BY <2>1, <2>2, <2>3, <2>4 DEF Backed
<1>8. Shows(d2) = Shows(d)
  BY <1>4 DEF Shows
<1>9. BackedCache(d2.cache, H2)
  BY <1>4, <1>6 DEF LGood
<1>10. \A x \in Shows(d2) : Accounted(x, H2 \cup Pushes(u, q2))
  BY <1>1, <1>5, <1>6, <1>8 DEF LGood
<1> QED
  BY <1>2, <1>4, <1>7, <1>9, <1>10 DEF LGood

\* The device gets from d to d2; as many pushes wait.
LikesKept(u, d, d2, H) == LGood(u, d2, H) /\ (Handing(d2.queue[TRUE]) <=> Handing(d.queue[TRUE]))

LEMMA PlainIssue ==
    ASSUME NEW u \in Users, NEW d, NEW H, LGood(u, d, H), NEW w \in Writes,
           w.reply = "none", w.op \notin {"leave", "delete", "push", "result"},
           NEW d2, d2 = Issue(u, d, w)
    PROVE  LikesKept(u, d, d2, H)
<1>1. MayHand(u, w, d.queue[TRUE], H)
  BY DEF MayHand
<1>2. /\ LGood(u, d2, H)
      /\ Handing(d2.queue[TRUE]) <=> Handing(d.queue[TRUE]) \/ w.op = "push"
  BY <1>1, IssueLikes
<1> QED
  BY <1>2 DEF LikesKept

LEMMA PlainWatch ==
    ASSUME NEW u \in Users, NEW d, NEW H, LGood(u, d, H), NEW c \in Codes,
           NEW d2, d2 = Watch(u, d, c)
    PROVE  LikesKept(u, d, d2, H)
<1>1. LGood(u, d2, H) /\ d2.queue = d.queue
  BY WatchLikes
<1> QED
  BY <1>1 DEF LikesKept

------------------------------------------------------------------------------
(* Steps that leave the server alone. *)

\* Step: nobody's likes reach the server, and no document changes there.
Stays == /\ server' = server
         /\ \A v \in Users : HandsIn(dev'[v], store'[v]) <=> HandsIn(dev[v], store[v])

\* User u's device gets to d and the store to s, with nothing new for the server.
Lingers(u, d, s) ==
    /\ LikesKept(u, dev[u], d, Delivered) /\ (s.pushed <=> store[u].pushed) /\ server' = server
    /\ dev' = [dev EXCEPT ![u] = d] /\ store' = [store EXCEPT ![u] = s]

LEMMA DeliveredStays == ASSUME Stays PROVE Delivered' = Delivered
<1>1. server' = server /\ \A x \in Likings : x[1] \in Users
  BY DEF Stays, Likings
<1>2. \A x \in Likings : HandsIn(dev'[x[1]], store'[x[1]]) <=> HandsIn(dev[x[1]], store[x[1]])
  BY <1>1 DEF Stays
<1> QED
  BY <1>1, <1>2 DEF Delivered

LEMMA HandsInHanding ==
    ASSUME NEW d, NEW s
    PROVE  HandsIn(d, s) <=> s.pushed /\ ~Handing(d.queue[TRUE])
  BY DEF HandsIn, Handing

\* u's device gets to d and the store to s, which leaves the final likes as they are.
LEMMA LLocalStep ==
    ASSUME IInv, LInv, NEW u \in Users, NEW d, NEW s, LGood(u, d, Delivered),
           HandsIn(d, s) <=> HandsIn(dev[u], store[u]), server' = server,
           dev' = [dev EXCEPT ![u] = d], store' = [store EXCEPT ![u] = s]
    PROVE  LInv' /\ Stays
<1>1. /\ dev'[u] = d /\ store'[u] = s
      /\ \A v \in Users \ {u} : dev'[v] = dev[v] /\ store'[v] = store[v]
  BY DEF IInv, TypeOK
<1>2. Stays
  BY <1>1 DEF Stays
<1>3. PICK H : H = Delivered
  OBVIOUS
<1>4. Delivered' = H
  BY <1>2, <1>3, DeliveredStays
<1>5. ASSUME NEW v \in Users PROVE LGood(v, dev'[v], H)
  BY <1>1, <1>3 DEF LInv
<1>6. \A c \in Codes : Accounted(server'[c], H)
  BY <1>3 DEF LInv
<1>7. LInv'
  BY <1>4, <1>5, <1>6 DEF LInv
<1> QED
  BY <1>2, <1>7

LEMMA LingersStep == ASSUME IInv, LInv, NEW u \in Users, NEW d, NEW s, Lingers(u, d, s) PROVE LInv' /\ Stays
<1>1. HandsIn(d, s) <=> HandsIn(dev[u], store[u])
  BY HandsInHanding DEF Lingers, LikesKept
<1> QED
  BY <1>1, LLocalStep DEF Lingers, LikesKept

\* What the invariant says of user u, with the final likes in a name of its own.
LEMMA MyLikes == ASSUME LInv, NEW u \in Users PROVE LikesKept(u, dev[u], dev[u], Delivered)
  BY DEF LInv, LikesKept

\* Navigation leaves the server and the final likes alone.
LEMMA NavigationLikes ==
    ASSUME OneRound, IInv, CInv, LInv, NEW u \in Users,
           \/ OpenCreate(u) \/ OpenJoin(u)
           \/ LeaveCreateScreen(u) \/ LeaveJoinScreen(u)
           \/ SignOut(u) \/ HearSignOut(u) \/ SignIn(u) \/ Quit(u) \/ Launch(u)
    PROVE  LInv' /\ Stays
<1>1. TypeOK /\ Calm
  BY DEF IInv, OneRound
<1>2. /\ dev = [dev EXCEPT ![u] = dev[u]] /\ store = [store EXCEPT ![u] = store[u]]
      /\ dev[u] \in Devices /\ store[u] \in Stores
  BY <1>1 DEF TypeOK
<1>3. LikesKept(u, dev[u], dev[u], Delivered)
  BY MyLikes
<1>4. CASE OpenCreate(u)
  <2>1. PICK s : s = [store[u] EXCEPT !.createdSession = TRUE]
    OBVIOUS
  <2>2. s.pushed <=> store[u].pushed
    BY <1>2, <2>1 DEF Stores
  <2>3. store' = [store EXCEPT ![u] = s] /\ UNCHANGED <<server, dev>>
    BY <1>1, <1>4, <2>1 DEF OpenCreate, TypeOK
  <2>4. Lingers(u, dev[u], s)
    BY <1>2, <1>3, <2>2, <2>3 DEF Lingers
  <2> QED
    BY <2>4, LingersStep
<1>5. CASE OpenJoin(u) \/ Launch(u)
  <2>1. UNCHANGED <<server, dev, store>>
    BY <1>5 DEF OpenJoin, Launch
  <2>2. Lingers(u, dev[u], store[u])
    BY <1>2, <1>3, <2>1 DEF Lingers
  <2> QED
    BY <2>2, LingersStep
<1>6. CASE \/ LeaveCreateScreen(u) \/ LeaveJoinScreen(u)
           \/ SignOut(u) \/ HearSignOut(u) \/ SignIn(u) \/ Quit(u)
  <2>1. ~Allowed(u, "back") /\ ~Allowed(u, "sign")
    BY <1>1, CalmAllows
  <2>2. ~Allowed(u, "quit")
    BY <1>1 DEF OneRound, Allowed, TypeOK, Kinds
  <2>3. store[u].session
    BY DEF CInv, InSession
  <2> QED
    BY <1>6, <2>1, <2>2, <2>3
       DEF LeaveCreateScreen, LeaveJoinScreen, ScreenGone, SignOut, HearSignOut, SignIn, Quit
<1> QED
  BY <1>4, <1>5, <1>6

\* A start: three writes, and the session is watched again.
LEMMA StartLikes ==
    ASSUME NEW u \in Users, NEW d, NEW H, LGood(u, d, H), NEW c \in Codes,
           NEW w1 \in Writes, w1.op = "time", w1.reply = "none",
           NEW w2 \in Writes, w2.op = "radius", w2.reply = "none",
           NEW w3 \in Writes, w3.op = "start", w3.reply = "none",
           NEW d1, d1 = Issue(u, d, w1), NEW d2, d2 = Issue(u, d1, w2),
           NEW d3, d3 = Issue(u, d2, w3), NEW d4, d4 = Watch(u, d3, c)
    PROVE  LikesKept(u, d, d4, H)
<1>1. LikesKept(u, d, d1, H)
  BY PlainIssue
<1>2. LikesKept(u, d1, d2, H)
  BY <1>1, PlainIssue DEF LikesKept
<1>3. LikesKept(u, d2, d3, H)
  BY <1>2, PlainIssue DEF LikesKept
<1>4. LikesKept(u, d3, d4, H)
  BY <1>3, PlainWatch DEF LikesKept
<1> QED
  BY <1>1, <1>2, <1>3, <1>4 DEF LikesKept

\* The operations of a session leave the server and the final likes alone.
LEMMA OperationLikes ==
    ASSUME OneRound, IInv, CInv, LInv, NEW u \in Users,
           \/ \E c \in Codes : CreateSession(u, c)
           \/ \E c \in Codes : JoinSession(u, c)
           \/ \E t \in TimeLimits, r \in Radii : Start(u, t, r)
           \/ ReceiveRestaurants(u) \/ FetchFails(u)
           \/ \E r \in Restaurants : LikeRestaurant(u, r)
           \/ EndSession(u)
    PROVE  LInv' /\ Stays
<1>1. /\ dev = [dev EXCEPT ![u] = dev[u]] /\ store = [store EXCEPT ![u] = store[u]]
      /\ dev[u] \in Devices /\ store[u] \in Stores /\ TypeOK
  BY DEF IInv, TypeOK
<1>2. PICK H : H = Delivered
  OBVIOUS
<1>3. PICK d0 : d0 = dev[u]
  OBVIOUS
<1>4. LikesKept(u, d0, d0, H) /\ LGood(u, d0, H)
  BY <1>2, <1>3, MyLikes DEF LikesKept
<1>5. store[u].sessionCode # NoCode => store[u].sessionCode \in Codes
  BY <1>1 DEF Stores
<1>6. ASSUME NEW op \in Ops, NEW c \in Codes
      PROVE  Write(op, c) \in Writes /\ Write(op, c).op = op /\ Write(op, c).reply = "none"
  BY WriteType DEF Write
<1>7. ASSUME NEW d, NEW s, LikesKept(u, d0, d, H), s.pushed <=> store[u].pushed, server' = server,
             dev' = [dev EXCEPT ![u] = d], store' = [store EXCEPT ![u] = s]
      PROVE  LInv' /\ Stays
  <2>1. Lingers(u, d, s)
    BY <1>2, <1>3, <1>7 DEF Lingers
  <2> QED
    BY <2>1, LingersStep
<1>8. ASSUME NEW op \in {"join", "list", "end"}, NEW c \in Codes,
             dev' = [dev EXCEPT ![u] = Issue(u, dev[u], Write(op, c))], UNCHANGED <<server, store>>
      PROVE  LInv' /\ Stays
  <2>1. PICK w : w = Write(op, c)
    OBVIOUS
  <2>2. w \in Writes /\ w.op = op /\ w.reply = "none"
    BY <1>6, <2>1 DEF Ops
  <2>3. w.op \notin {"leave", "delete", "push", "result"}
    BY <2>2
  <2>4. PICK d : d = Issue(u, d0, w)
    OBVIOUS
  <2>5. LikesKept(u, d0, d, H)
    BY <1>4, <2>2, <2>3, <2>4, PlainIssue
  <2>6. dev' = [dev EXCEPT ![u] = d] /\ store' = [store EXCEPT ![u] = store[u]]
    BY <1>1, <1>3, <1>8, <2>1, <2>4
  <2> QED
    BY <1>7, <1>8, <2>5, <2>6
<1>9. ASSUME NEW c \in Codes, CreateSession(u, c) PROVE LInv' /\ Stays
  <2>1. PICK w : w = Write("create", c)
    OBVIOUS
  <2>2. w \in Writes /\ w.op = "create" /\ w.reply = "none"
    BY <1>6, <2>1 DEF Ops
  <2>3. PICK s : s = [store[u] EXCEPT !.sessionCode = c]
    OBVIOUS
  <2>4. s.pushed <=> store[u].pushed
    BY <1>1, <2>3 DEF Stores
  <2>5. PICK d : d = Issue(u, d0, w)
    OBVIOUS
  <2>6. PICK d2 : d2 = Watch(u, d, c)
    OBVIOUS
  <2>7. LikesKept(u, d0, d, H)
    BY <1>4, <2>2, <2>5, PlainIssue
  <2>8. LikesKept(u, d, d2, H)
    BY <2>6, <2>7, PlainWatch DEF LikesKept
  <2>9. LikesKept(u, d0, d2, H)
    BY <2>7, <2>8 DEF LikesKept
  <2>10. dev' = [dev EXCEPT ![u] = d2] /\ store' = [store EXCEPT ![u] = s] /\ server' = server
    BY <1>3, <1>9, <2>1, <2>3, <2>5, <2>6 DEF CreateSession, Do
  <2> QED
    BY <1>7, <2>4, <2>9, <2>10
<1>10. ASSUME NEW c \in Codes, JoinSession(u, c) PROVE LInv' /\ Stays
  <2>1. dev' = [dev EXCEPT ![u] = Issue(u, dev[u], Write("join", c))] /\ UNCHANGED <<server, store>>
    BY <1>10 DEF JoinSession
  <2> QED
    BY <1>8, <2>1
<1>11. ASSUME NEW t \in TimeLimits, NEW r \in Radii, Start(u, t, r) PROVE LInv' /\ Stays
  <2>1. PICK c \in Codes : c = store[u].sessionCode /\ c # NoCode
    BY <1>5, <1>11 DEF Start
  <2>2. t \in Int /\ r \in Int
    BY FirestoreAssumption
  <2>3. {"time", "radius", "start"} \subseteq Ops
    BY DEF Ops
  <2>4. PICK w1 : w1 = [Write("time", c) EXCEPT !.num = t]
    OBVIOUS
  <2>5. PICK w2 : w2 = [Write("radius", c) EXCEPT !.num = r]
    OBVIOUS
  <2>6. PICK w3 : w3 = Write("start", c)
    OBVIOUS
  <2>7. /\ w1 \in Writes /\ w1.op = "time" /\ w1.reply = "none"
        /\ w2 \in Writes /\ w2.op = "radius" /\ w2.reply = "none"
        /\ w3 \in Writes /\ w3.op = "start" /\ w3.reply = "none"
    BY <2>2, <2>3, <2>4, <2>5, <2>6, WriteType DEF Write
  <2>8. PICK d1 : d1 = Issue(u, d0, w1)
    OBVIOUS
  <2>9. PICK d2 : d2 = Issue(u, d1, w2)
    OBVIOUS
  <2>10. PICK d3 : d3 = Issue(u, d2, w3)
    OBVIOUS
  <2>11. PICK d4 : d4 = Watch(u, d3, c)
    OBVIOUS
  <2>12. LikesKept(u, d0, d4, H)
    BY <1>4, <2>7, <2>8, <2>9, <2>10, <2>11, StartLikes
  <2>13. dev' = [dev EXCEPT ![u] = d4] /\ UNCHANGED <<server, store>>
    BY <1>3, <1>11, <2>1, <2>4, <2>5, <2>6, <2>8, <2>9, <2>10, <2>11 DEF Start
  <2>14. store' = [store EXCEPT ![u] = store[u]]
    BY <1>1, <2>13
  <2> QED
    BY <1>7, <2>12, <2>13, <2>14
<1>12. InSession(dev[u], store[u], fetching[u])
  BY DEF CInv
<1>13. CASE ReceiveRestaurants(u)
  <2>1. PICK c \in Codes : c = store[u].sessionCode /\ c # NoCode
    BY <1>5, <1>12, <1>13 DEF ReceiveRestaurants, InSession
  <2>2. dev' = [dev EXCEPT ![u] = Issue(u, dev[u], Write("list", c))] /\ UNCHANGED <<server, store>>
    BY <1>13, <2>1 DEF ReceiveRestaurants
  <2> QED
    BY <1>8, <2>2
<1>14. CASE EndSession(u)
  <2>1. PICK c \in Codes : c = store[u].sessionCode /\ c # NoCode
    BY <1>5, <1>12, <1>14 DEF EndSession, EndDue, ShowsLive, OnTop, InSession
  <2>2. dev' = [dev EXCEPT ![u] = Issue(u, dev[u], Write("end", c))] /\ UNCHANGED <<server, store>>
    BY <1>14, <2>1 DEF EndSession
  <2> QED
    BY <1>8, <2>2
<1>15. CASE FetchFails(u)
  <2>1. dev' = [dev EXCEPT ![u] = d0] /\ store' = [store EXCEPT ![u] = store[u]] /\ server' = server
    BY <1>1, <1>3, <1>15 DEF FetchFails
  <2> QED
    BY <1>4, <1>7, <2>1
<1>16. ASSUME NEW r \in Restaurants, LikeRestaurant(u, r) PROVE LInv' /\ Stays
  <2>1. PICK s : s = [store[u] EXCEPT !.likedRestaurants = store[u].likedRestaurants \cup {r}]
    OBVIOUS
  <2>2. s.pushed <=> store[u].pushed
    BY <1>1, <2>1 DEF Stores
  <2>3. store' = [store EXCEPT ![u] = s] /\ UNCHANGED <<server, dev>>
    BY <1>1, <1>16, <2>1 DEF LikeRestaurant, TypeOK
  <2>4. dev' = [dev EXCEPT ![u] = d0]
    BY <1>1, <1>3, <2>3
  <2> QED
    BY <1>4, <1>7, <2>2, <2>3, <2>4
<1> QED
  BY <1>9, <1>10, <1>11, <1>13, <1>14, <1>15, <1>16

\* The completion of a join leaves the server and the final likes alone.
LEMMA JoinedLikes ==
    ASSUME IInv, LInv, NEW u \in Users, Joined(u)
    PROVE  LInv' /\ Stays
<1>1. dev[u] \in Devices /\ store[u] \in Stores
  BY DEF IInv, TypeOK
<1>2. PICK H : H = Delivered
  OBVIOUS
<1>3. PICK d0 : d0 = dev[u]
  OBVIOUS
<1>4. LGood(u, d0, H)
  BY <1>2, <1>3, MyLikes DEF LikesKept
<1>5. d0.inbox # <<>> /\ server' = server
  BY <1>3 DEF Joined, Arrived, CallbackDue
<1>6. PICK e \in Events : e = Head(dev[u].inbox)
  BY <1>3, <1>5, HandledFits DEF IInv
<1>7. PICK d : d = Handled(d0)
  OBVIOUS
<1>8. LikesKept(u, d0, d, H)
  <2>1. LGood(u, d, H) /\ d.queue = d0.queue
    BY <1>4, <1>5, <1>7, HandledLikes
  <2> QED
    BY <2>1 DEF LikesKept
<1>9. PICK s : s = IF e.ok THEN [store[u] EXCEPT !.sessionCode = e.code]
                   ELSE [store[u] EXCEPT !.sessionError = "join"]
  OBVIOUS
<1>10. s.pushed <=> store[u].pushed
  BY <1>1, <1>9 DEF Stores
<1>11. PICK d2 : d2 = IF e.ok THEN Watch(u, d, e.code) ELSE d
  OBVIOUS
<1>12. LikesKept(u, d0, d2, H)
  <2>1. e.code \in Codes
    BY DEF Events
  <2>2. CASE e.ok
    <3>1. PICK c \in Codes : c = e.code
      BY <2>1
    <3>2. LGood(u, d, H) /\ d2 = Watch(u, d, c)
      BY <1>8, <1>11, <2>2, <3>1 DEF LikesKept
    <3>3. LikesKept(u, d, d2, H)
      BY <3>2, PlainWatch
    <3> QED
      BY <1>8, <3>3 DEF LikesKept
  <2>3. CASE ~e.ok
    BY <1>8, <1>11, <2>3
  <2> QED
    BY <2>2, <2>3
<1>13. dev' = [dev EXCEPT ![u] = d2] /\ store' = [store EXCEPT ![u] = s]
  <2>1. CASE e.ok
    BY <1>3, <1>6, <1>7, <1>9, <1>11, <2>1 DEF Joined, Do
  <2>2. CASE ~e.ok
    BY <1>3, <1>6, <1>7, <1>9, <1>11, <2>2 DEF Joined, Do
  <2> QED
    BY <2>1, <2>2
<1>14. Lingers(u, d2, s)
  BY <1>2, <1>3, <1>5, <1>10, <1>12, <1>13 DEF Lingers
<1> QED
  BY <1>14, LingersStep

\* Answers and documents that reach a device leave the server and the final likes alone.
LEMMA DeliveryLikes ==
    ASSUME OneRound, IInv, LInv, NEW u \in Users,
           Ack(u) \/ (\E c \in Codes : Sync(u, c) \/ GoOffline(u, c))
    PROVE  LInv' /\ Stays
<1>1. store = [store EXCEPT ![u] = store[u]]
  BY DEF IInv, TypeOK
<1>2. PICK H : H = Delivered
  OBVIOUS
<1>3. PICK d0 : d0 = dev[u]
  OBVIOUS
<1>4. LGood(u, d0, H)
  BY <1>2, <1>3, MyLikes DEF LikesKept
<1>5. ASSUME NEW d, LikesKept(u, d0, d, H), dev' = [dev EXCEPT ![u] = d], UNCHANGED <<server, store>>
      PROVE  LInv' /\ Stays
  <2>1. Lingers(u, d, store[u])
    BY <1>1, <1>2, <1>3, <1>5 DEF Lingers
  <2> QED
    BY <2>1, LingersStep
<1>6. CASE Ack(u)
  <2>1. Pending(d0) # <<>> /\ Head(Pending(d0)).reply # "none"
    BY <1>3, <1>6 DEF Ack, AckDue
  <2>2. PICK d : d = Acknowledge(u, d0)
    OBVIOUS
  <2>3. LikesKept(u, d0, d, H)
    BY <1>4, <2>1, <2>2, AcknowledgeLikes DEF LikesKept
  <2>4. dev' = [dev EXCEPT ![u] = d] /\ UNCHANGED <<server, store>>
    BY <1>3, <1>6, <2>2 DEF Ack
  <2> QED
    BY <1>5, <2>3, <2>4
<1>7. ASSUME NEW c \in Codes, Sync(u, c) PROVE LInv' /\ Stays
  <2>1. PICK x \in Docs \cup {NoDoc} : x = server[c]
    BY DEF IInv, TypeOK
  <2>2. PICK d : d = Receive(u, d0, c, x)
    OBVIOUS
  <2>3. Accounted(x, H)
    BY <1>2, <2>1 DEF LInv
  <2>4. LikesKept(u, d0, d, H)
    BY <1>4, <2>2, <2>3, ReceiveLikes DEF LikesKept
  <2>5. dev' = [dev EXCEPT ![u] = d] /\ UNCHANGED <<server, store>>
    BY <1>3, <1>7, <2>1, <2>2 DEF Sync
  <2> QED
    BY <1>5, <2>4, <2>5
<1>8. \A c \in Codes : ~GoOffline(u, c)
  BY CalmAllows DEF GoOffline, OneRound
<1> QED
  BY <1>6, <1>7, <1>8

\* A selection from likes that are accounted for is justified if a push was counted.
LEMMA SelectionJustified ==
    ASSUME NEW d \in Docs, NEW G, Accounted(d, G), d.finishedPushing > 0, DOMAIN d.likes # {},
           NEW sel \in Selections(d.likes)
    PROVE  Justified(sel, G)
<1>1. d # NoDoc
  BY MissingAssumption
<1>2. G # {} /\ \A p \in DOMAIN d.likes : d.likes[p] = {} \/ <<p, d.likes[p]>> \in G
  BY <1>1 DEF Accounted
<1>3. PICK l : l = d.likes
  OBVIOUS
<1>4. sel = ErrorResult \/ sel \in Consensus(l)
  BY <1>3, Zenon DEF Selections
<1>5. CASE sel \in Consensus(l)
  <2>1. PICK p \in DOMAIN l : sel \in l[p]
    BY <1>3, <1>5 DEF Consensus
  <2>2. <<p, l[p]>> \in G
    BY <1>2, <1>3, <2>1
  <2>3. <<p, l[p]>>[2] = l[p]
    OBVIOUS
  <2> QED
    BY <1>2, <2>1, <2>2, <2>3 DEF Justified
<1>6. CASE sel = ErrorResult
  BY <1>2, <1>6 DEF Justified
<1> QED
  BY <1>4, <1>5, <1>6

\* What calcResult() selects after a snapshot is justified.
LEMMA CalculatedJustified ==
    ASSUME NEW u, NEW s \in Stores, NEW f, NEW n, NEW sv, NEW over, Remembers(u, s, f, n, sv, over),
           NEW d \in Docs, Plausible(u, d, over, MayList(u, n, sv)), NEW G, Accounted(d, G),
           DOMAIN d.likes # {}, MustCalc(s, d), NEW sel \in Selections(d.likes)
    PROVE  Justified(sel, G)
<1>1. d.finishedPushing = d.participants /\ s.createdSession
  BY DEF MustCalc
<1>2. u \in Hosts /\ d # NoDoc
  BY <1>1, MissingAssumption DEF Remembers
<1>3. d.participants >= 1
  BY <1>2 DEF Plausible
<1>4. d.participants \in Int
  BY DEF Docs
<1>5. d.finishedPushing > 0
  BY <1>1, <1>3, <1>4
<1> QED
  BY <1>5, SelectionJustified

\* A snapshot with data leaves the server and the final likes alone: what the device
\* pushes is under way, and what it selects is justified.
LEMMA SnapshotDataLikes ==
    ASSUME OneRound, IInv, MInv, CInv, RInv, EInv, LInv, NEW u \in Users, SnapshotData(u)
    PROVE  LInv' /\ Stays
<1>1. dev[u] \in Devices /\ store[u] \in Stores
  BY DEF IInv, TypeOK
<1>2. PICK H : H = Delivered
  OBVIOUS
<1>3. PICK d0 : d0 = dev[u]
  OBVIOUS
<1>4. PICK s0 \in Stores : s0 = store[u]
  BY <1>1
<1>5. LGood(u, d0, H)
  BY <1>2, <1>3, MyLikes DEF LikesKept
<1>6. d0.inbox # <<>> /\ Head(d0.inbox).data # NoDoc
  BY <1>3 DEF SnapshotData, Arrived, CallbackDue
<1>7. PICK popped : popped = Handled(d0)
  OBVIOUS
<1>8. PICK e \in Events : e = Head(d0.inbox)
  BY <1>3, <1>6, HandledFits DEF IInv
<1>9. PICK d \in Docs : d = e.data
  BY <1>6, <1>8 DEF Events
<1>10. s0.session /\ s0.sessionCode # NoCode /\ DOMAIN d.likes # {}
  BY <1>3, <1>4, <1>6, <1>8, <1>9, SnapshotInSession DEF SnapshotData
<1>11. PICK c \in Codes : c = s0.sessionCode
  BY <1>10 DEF Stores
<1>12. PICK push \in BOOLEAN : push = MustPush(s0, d)
  BY DEF MustPush
<1>13. PICK after : after = IF push THEN PushResults(u, popped) ELSE popped
  OBVIOUS
<1>14. PICK new : new = [Absorb(s0, d) EXCEPT !.pushed = @ \/ push]
  OBVIOUS
<1>15. /\ \/ Do(u, after, new)
          \/ MustCalc(s0, d) /\ \E sel \in Selections(d.likes) : Do(u, CalcResult(u, after, sel), new)
       /\ server' = server
  BY <1>3, <1>4, <1>7, <1>8, <1>9, <1>10, <1>12, <1>13, <1>14 DEF SnapshotData
<1>16. /\ LGood(u, popped, H) /\ popped.queue = d0.queue
       /\ Accounted(d, H \cup Pushes(u, d0.queue[TRUE]))
  BY <1>5, <1>6, <1>7, <1>8, <1>9, HandledLikes
<1>17. /\ LGood(u, after, H)
       /\ Pushes(u, popped.queue[TRUE]) \subseteq Pushes(u, after.queue[TRUE])
       /\ Handing(after.queue[TRUE]) <=> Handing(popped.queue[TRUE]) \/ push
  <2>1. CASE push
    <3>1. PICK l \in SUBSET Restaurants : l = s0.likedRestaurants
      BY DEF Stores
    <3>2. PICK w : w = [Write("push", c) EXCEPT !.liked = l]
      OBVIOUS
    <3>3. w \in Writes /\ w.op = "push" /\ w.reply = "none"
      BY <3>2, WriteType DEF Write, Ops
    <3>4. after = Issue(u, popped, w)
      BY <1>4, <1>11, <1>13, <2>1, <3>1, <3>2 DEF PushResults
    <3>5. MayHand(u, w, popped.queue[TRUE], H)
      BY <3>3 DEF MayHand
    <3>6. /\ LGood(u, after, H)
          /\ Pushes(u, popped.queue[TRUE]) \subseteq Pushes(u, after.queue[TRUE])
          /\ Handing(after.queue[TRUE]) <=> Handing(popped.queue[TRUE]) \/ w.op = "push"
      BY <1>16, <3>3, <3>4, <3>5, IssueLikes
    <3> QED
      BY <2>1, <3>3, <3>6
  <2>2. CASE ~push
    BY <1>13, <1>16, <2>2
  <2> QED
    BY <2>1, <2>2
<1>18. new.pushed <=> s0.pushed \/ push
  <2>1. PICK a \in Stores : a = Absorb(s0, d)
    BY AbsorbType
  <2>2. a.pushed = s0.pushed
    BY <2>1 DEF Absorb, Stores
  <2>3. PICK p : p = (a.pushed \/ push)
    OBVIOUS
  <2>4. new = [a EXCEPT !.pushed = p]
    BY <1>14, <2>1, <2>3
  <2>5. new.pushed = p
    BY <2>4 DEF Stores
  <2> QED
    BY <2>2, <2>3, <2>5
<1>19. push => ~s0.pushed
  BY <1>12 DEF MustPush
<1>20. ASSUME NEW dd, LGood(u, dd, H), Handing(dd.queue[TRUE]) <=> Handing(after.queue[TRUE]), Do(u, dd, new)
       PROVE  LInv' /\ Stays
  <2>1. Handing(dd.queue[TRUE]) <=> Handing(d0.queue[TRUE]) \/ push
    BY <1>16, <1>17, <1>20
  <2>2. HandsIn(dd, new) <=> HandsIn(d0, s0)
    BY <1>18, <1>19, <2>1, HandsInHanding
  <2>3. dev' = [dev EXCEPT ![u] = dd] /\ store' = [store EXCEPT ![u] = new]
    BY <1>20 DEF Do
  <2> QED
    BY <1>2, <1>3, <1>4, <1>15, <1>20, <2>2, <2>3, LLocalStep
<1>21. CASE Do(u, after, new)
  BY <1>17, <1>20, <1>21
<1>22. ASSUME NEW sel \in Selections(d.likes), Do(u, CalcResult(u, after, sel), new), MustCalc(s0, d)
       PROVE  LInv' /\ Stays
  <2>1. sel \in Results
    BY DEF Selections, Consensus, Results
  <2>2. PICK w : w = [Write("result", c) EXCEPT !.sel = sel]
    OBVIOUS
  <2>3. w \in Writes /\ w.op = "result" /\ w.reply = "none" /\ w.sel = sel
    BY <2>1, <2>2, WriteType DEF Write, Ops
  <2>4. PICK dd : dd = Issue(u, after, w)
    OBVIOUS
  <2>5. dd = CalcResult(u, after, sel)
    BY <1>4, <1>11, <2>2, <2>4 DEF CalcResult
  <2>6. PICK G : G = H \cup Pushes(u, after.queue[TRUE])
    OBVIOUS
  <2>7. Accounted(d, G)
    <3>1. PICK G0 : G0 = H \cup Pushes(u, d0.queue[TRUE])
      OBVIOUS
    <3>2. G0 \subseteq G
      BY <1>16, <1>17, <2>6, <3>1
    <3>3. Accounted(d, G0)
      BY <1>16, <3>1
    <3> QED
      BY <3>2, <3>3, AccountedGrows
  <2>8. PICK n : n = used[u]["start"]
    OBVIOUS
  <2>9. PICK sv : sv = server
    OBVIOUS
  <2>10. PICK over : over = (Ended(server) \/ Ends(dev[u].queue[TRUE]))
    OBVIOUS
  <2>11. EGood(u, d0, s0, fetching[u], n, sv)
    BY <1>3, <1>4, <2>8, <2>9 DEF EInv
  <2>12. Remembers(u, s0, fetching[u], n, sv, over)
    BY <1>3, <2>9, <2>10, <2>11 DEF EGood
  <2>13. Plausible(u, d, over, MayList(u, n, sv))
    BY <1>3, <1>6, <1>7, <1>8, <1>9, <2>9, <2>10, <2>11, HandledOrders DEF EGood
  <2>14. Justified(sel, G)
    BY <1>10, <1>22, <2>7, <2>12, <2>13, CalculatedJustified
  <2>15. MayHand(u, w, after.queue[TRUE], H)
    BY <2>3, <2>6, <2>14 DEF MayHand
  <2>16. /\ LGood(u, dd, H)
         /\ Handing(dd.queue[TRUE]) <=> Handing(after.queue[TRUE]) \/ w.op = "push"
    BY <1>17, <2>3, <2>4, <2>15, IssueLikes
  <2>17. Handing(dd.queue[TRUE]) <=> Handing(after.queue[TRUE])
    BY <2>3, <2>16
  <2> QED
    BY <1>20, <1>22, <2>5, <2>16, <2>17
<1> QED
  BY <1>15, <1>21, <1>22

\* What a write of user u makes of an existing document.
LEMMA ApplyPatches ==
    ASSUME NEW u \in Users, NEW w \in Writes, w.op \notin {"create", "leave", "delete"},
           NEW n \in Int, NEW d \in Docs, NEW x, x = Apply(u, w, n, d)
    PROVE  x = Patch(u, w, n, d) /\ x \in Docs /\ x # NoDoc
<1>1. ~Missing(d) /\ ~Replaces(w)
  BY MissingAssumption DEF Missing, Replaces
<1>2. x = Patch(u, w, n, d)
  BY <1>1 DEF Apply, Replaces
<1>3. x \in Docs
  BY <1>2, PatchFields
<1> QED
  BY <1>2, <1>3, MissingAssumption

\* The others' likes stay, and u's unless u joins or pushes.
LEMMA LikesAfter ==
    ASSUME NEW u \in Users, NEW w \in Writes, w.op \notin {"create", "leave", "delete"},
           NEW n \in Int, NEW d \in Docs, NEW x, x = Apply(u, w, n, d)
    PROVE  /\ \A v \in DOMAIN d.likes : v # u \/ w.op \notin {"join", "push"} =>
                 v \in DOMAIN x.likes /\ x.likes[v] = d.likes[v]
           /\ w.op = "push" => u \in DOMAIN x.likes /\ x.likes[u] = w.liked
<1>1. /\ w.op \notin {"join", "push"} => x.likes = d.likes
      /\ w.op = "join" => x.likes = SetLikes(d.likes, u, {})
      /\ w.op = "push" => x.likes = SetLikes(d.likes, u, w.liked)
  <2>1. x = Patch(u, w, n, d)
    BY ApplyPatches
  <2> QED
    BY <2>1, PatchFields
<1>2. PICK l : l = d.likes
  OBVIOUS
<1>3. PICK l2 : l2 = x.likes
  OBVIOUS
<1>4. CASE w.op \notin {"join", "push"}
  BY <1>1, <1>4
<1>5. CASE w.op = "join"
  BY <1>1, <1>2, <1>3, <1>5 DEF SetLikes
<1>6. CASE w.op = "push"
  BY <1>1, <1>2, <1>3, <1>6 DEF SetLikes
<1> QED
  BY <1>4, <1>5, <1>6

\* The server executes a write: final likes are not lost, and a push adds them.
LEMMA DeliveredGrows ==
    ASSUME IInv, NEW u \in Users, NEW i, NEW w \in Writes, NEW k \in Int, NEW d,
           Performs(u, i, w, k, d), Permitted(u, w)
    PROVE  /\ Delivered \subseteq Delivered'
           /\ w.op = "push" => <<u, w.liked>> \in Delivered'
<1>1. PICK c \in Codes : c = w.code
  BY WriteParts
<1>2. TypeOK /\ server[c] \in Docs \cup {NoDoc} /\ w.liked \in SUBSET Restaurants
  BY WriteParts DEF IInv, TypeOK
<1>3. PICK x : x = Apply(u, w, k, server[c])
  OBVIOUS
<1>4. server'[c] = x /\ \A o \in Codes \ {c} : server'[o] = server[o]
  BY <1>1, <1>2, <1>3 DEF Performs, TypeOK
<1>5. /\ dev'[u] = d /\ \A v \in Users \ {u} : dev'[v] = dev[v]
      /\ store' = store
  BY <1>2 DEF Performs, TypeOK
<1>6. /\ HandsIn(d, store[u]) <=> HandsIn(dev[u], store[u]) \/ w.op = "push"
      /\ w.op \notin {"leave", "delete"}
      /\ w.op = "create" => server[c] = NoDoc
      /\ w.op = "join" => \A o \in Codes : ~MemberOf(u, server[o])
      /\ w.op = "push" => ~HandsIn(dev[u], store[u]) /\ MemberOf(u, server[c])
  BY <1>1 DEF Performs, Permitted
<1>7. \A v \in Users : HandsIn(dev[v], store[v]) => HandsIn(dev'[v], store'[v])
  BY <1>5, <1>6
<1>8. ASSUME NEW v \in Users, HandsIn(dev[v], store[v]), NEW o \in Codes, MemberOf(v, server[o])
      PROVE  MemberOf(v, server'[o]) /\ server'[o].likes[v] = server[o].likes[v]
  <2>1. CASE o # c
    BY <1>4, <1>8, <2>1
  <2>2. CASE o = c
    <3>1. server[c] \in Docs /\ v \in DOMAIN server[c].likes /\ w.op # "create"
      BY <1>2, <1>6, <1>8, <2>2 DEF MemberOf
    <3>2. v # u \/ w.op \notin {"join", "push"}
      BY <1>6, <1>8
    <3>3. PICK y \in Docs : y = server[c]
      BY <3>1
    <3>4. w.op \notin {"create", "leave", "delete"} /\ x = Apply(u, w, k, y)
      BY <1>3, <1>6, <3>1, <3>3
    <3>5. x # NoDoc
      BY <3>4, ApplyPatches
    <3>6. v \in DOMAIN x.likes /\ x.likes[v] = y.likes[v]
      BY <3>1, <3>2, <3>3, <3>4, LikesAfter
    <3> QED
      BY <1>4, <2>2, <3>3, <3>5, <3>6 DEF MemberOf
  <2> QED
    BY <2>1, <2>2
<1>9. Delivered \subseteq Delivered'
  <2> SUFFICES ASSUME NEW z \in Delivered PROVE z \in Delivered'
    OBVIOUS
  <2>1. z \in Likings /\ z[1] \in Users /\ HandsIn(dev[z[1]], store[z[1]])
    BY DEF Delivered, Likings
  <2>2. PICK o \in Codes : MemberOf(z[1], server[o]) /\ server[o].likes[z[1]] = z[2]
    BY DEF Delivered
  <2>3. MemberOf(z[1], server'[o]) /\ server'[o].likes[z[1]] = z[2]
    BY <1>8, <2>1, <2>2
  <2>4. HandsIn(dev'[z[1]], store'[z[1]])
    BY <1>7, <2>1
  <2> QED
    BY <2>1, <2>3, <2>4 DEF Delivered
<1>10. ASSUME w.op = "push" PROVE <<u, w.liked>> \in Delivered'
  <2>1. PICK y \in Docs : y = server[c] /\ u \in DOMAIN y.likes
    BY <1>2, <1>6, <1>10 DEF MemberOf
  <2>2. w.op \notin {"create", "leave", "delete"} /\ x = Apply(u, w, k, y)
    BY <1>3, <1>10, <2>1
  <2>3. x # NoDoc
    BY <2>2, ApplyPatches
  <2>4. u \in DOMAIN x.likes /\ x.likes[u] = w.liked
    BY <1>10, <2>2, LikesAfter
  <2>5. MemberOf(u, server'[c]) /\ server'[c].likes[u] = w.liked
    BY <1>4, <2>3, <2>4 DEF MemberOf
  <2>6. HandsIn(dev'[u], store'[u])
    BY <1>5, <1>6, <1>10
  <2>7. PICK z : z = <<u, w.liked>>
    OBVIOUS
  <2>8. z \in Likings /\ z[1] = u /\ z[2] = w.liked
    BY <1>2, <2>7 DEF Likings
  <2>9. z \in Delivered'
    BY <2>5, <2>6, <2>8 DEF Delivered
  <2> QED
    BY <2>7, <2>9
<1> QED
  BY <1>9, <1>10

\* The server executes a write: what is decided stays justified.
LEMMA CommitLikes ==
    ASSUME IInv, CInv, RInv, EInv, LInv, NEW u \in Users, NEW b \in BOOLEAN, Commit(u, b)
    PROVE  LInv'
<1>1. PICK i \in DOMAIN dev[u].queue[TRUE], w \in Writes, k \in Int, d \in Devices :
        Performs(u, i, w, k, d) /\ Permitted(u, w)
  BY CommitPerforms DEF Performed
<1>2. PICK c \in Codes : c = w.code
  BY WriteParts
<1>3. TypeOK /\ server[c] \in Docs \cup {NoDoc}
  BY DEF IInv, TypeOK
<1>4. PICK H : H = Delivered
  OBVIOUS
<1>5. PICK H2 : H2 = Delivered'
  OBVIOUS
<1>6. H \subseteq H2 /\ (w.op = "push" => <<u, w.liked>> \in H2)
  BY <1>1, <1>4, <1>5, DeliveredGrows
<1>7. PICK x : x = Apply(u, w, k, server[c])
  OBVIOUS
<1>8. /\ server'[c] = x /\ \A o \in Codes \ {c} : server'[o] = server[o]
      /\ dev'[u] = d /\ \A v \in Users \ {u} : dev'[v] = dev[v]
  BY <1>1, <1>2, <1>3, <1>7 DEF Performs, TypeOK
<1>9. LGood(u, d, H2)
  <2>1. PICK e : e = dev[u]
    OBVIOUS
  <2>2. LGood(u, e, H)
    BY <1>4, <2>1 DEF LInv
  <2>3. Delivers(u, e, i, d, H, H2)
    BY <1>1, <1>6, <2>1 DEF Performs, Delivers
  <2> QED
    BY <2>2, <2>3, LGoodExecuted
<1>10. ASSUME NEW v \in Users PROVE LGood(v, dev'[v], H2)
  <2>1. CASE v = u
    BY <1>8, <1>9, <2>1
  <2>2. CASE v # u
    <3>1. PICK e : e = dev[v]
      OBVIOUS
    <3>2. LGood(v, e, H)
      BY <1>4, <3>1 DEF LInv
    <3>3. LGood(v, e, H2)
      BY <1>6, <3>2, LGoodGrows
    <3> QED
      BY <1>8, <2>2, <3>1, <3>3
  <2> QED
    BY <2>1, <2>2
<1>11. \A o \in Codes : Accounted(server[o], H2)
  BY <1>4, <1>6, AccountedGrows DEF LInv
<1>12. Accounted(x, H2)
  <2>1. PICK y \in CachedDocs : y = server[c]
    BY <1>3 DEF CachedDocs
  <2>2. Visible(y) = y
    BY <1>3, <2>1, MissingAssumption DEF Visible, Missing
  <2>3. Accounted(Visible(y), H2)
    BY <1>11, <2>1, <2>2
  <2>4. w.op \notin {"leave", "delete"}
    BY <1>1 DEF Permitted
  <2>5. Accounted(Visible(x), H2)
    BY <1>6, <1>7, <2>1, <2>3, <2>4, ApplyAccounted
  <2>6. x \in Docs \cup {NoDoc}
    BY <1>3, <1>7, <2>1, ApplyType
  <2>7. Visible(x) = x
    BY <2>6, MissingAssumption DEF Visible, Missing
  <2> QED
    BY <2>5, <2>7
<1>13. \A o \in Codes : Accounted(server'[o], H2)
  BY <1>8, <1>11, <1>12
<1> QED
  BY <1>5, <1>10, <1>13 DEF LInv

------------------------------------------------------------------------------
(* What was decided in a session is justified at every moment. *)

\* In every state a decision can be traced to likes that were handed in.
LEMMA LInvariance == ASSUME OneRound, OneStart PROVE Spec => []LInv
<1>1. Init => LInv
  <2> SUFFICES ASSUME Init PROVE LInv
    OBVIOUS
  <2>1. \A c \in Codes : server[c] = NoDoc
    BY DEF Init
  <2>2. PICK H : H = Delivered
    OBVIOUS
  <2>3. ASSUME NEW u \in Users PROVE LGood(u, dev[u], H)
    <3>1. dev[u] = NewDevice
      BY DEF Init
    <3>2. /\ dev[u].user = TRUE /\ dev[u].queue[TRUE] = <<>> /\ dev[u].inbox = <<>>
          /\ \A c \in Codes : dev[u].cache[c] = Unknown /\ dev[u].shown[c] = NoDoc
      BY <3>1 DEF NewDevice
    <3>3. DOMAIN dev[u].queue[TRUE] = {} /\ DOMAIN dev[u].inbox = {}
      BY <3>2
    <3>4. Shows(dev[u]) \subseteq {NoDoc}
      BY <3>2, <3>3 DEF Shows
    <3>5. \A c \in Codes : Visible(dev[u].cache[c]) = NoDoc
      BY <3>2 DEF Visible, Missing
    <3>6. dev[u] \in Devices
      BY <3>1, IInvInit DEF IInv, TypeOK
    <3>7. BackedCache(dev[u].cache, H)
      BY <3>5 DEF BackedCache, Accounted
    <3> QED
      BY <3>2, <3>3, <3>4, <3>6, <3>7 DEF LGood, Accounted
  <2>4. \A c \in Codes : Accounted(server[c], H)
    BY <2>1 DEF Accounted
  <2> QED
    BY <2>2, <2>3, <2>4 DEF LInv
<1>2. IInv /\ MInv /\ CInv /\ RInv /\ EInv /\ LInv /\ [Next]_vars => LInv'
  <2> SUFFICES ASSUME IInv, MInv, CInv, RInv, EInv, LInv, [Next]_vars PROVE LInv'
    OBVIOUS
  <2>1. CASE UNCHANGED vars
    BY <2>1 DEF vars, LInv, Delivered, HandsIn
  <2>2. CASE Next
    <3>1. PICK u \in Users :
            \/ OpenCreate(u) \/ OpenJoin(u)
            \/ LeaveCreateScreen(u) \/ LeaveJoinScreen(u)
            \/ SignOut(u) \/ HearSignOut(u) \/ SignIn(u) \/ Quit(u) \/ Launch(u)
            \/ \E c \in Codes : CreateSession(u, c)
            \/ \E c \in Codes : JoinSession(u, c)
            \/ \E t \in TimeLimits, r \in Radii : Start(u, t, r)
            \/ ReceiveRestaurants(u) \/ FetchFails(u)
            \/ \E r \in Restaurants : LikeRestaurant(u, r)
            \/ EndSession(u)
            \/ Joined(u) \/ Left(u) \/ Deleted(u) \/ SnapshotGone(u) \/ SnapshotData(u)
            \/ \E b \in BOOLEAN : Commit(u, b)
            \/ Ack(u)
            \/ \E c \in Codes : Sync(u, c) \/ GoOffline(u, c)
      BY <2>2, Zenon DEF Next
    <3>2. ~Left(u) /\ ~Deleted(u) /\ ~SnapshotGone(u)
      BY OnlyWelcome DEF OneRound
    <3> QED
      BY <3>1, <3>2, NavigationLikes, OperationLikes, JoinedLikes, SnapshotDataLikes,
         CommitLikes, DeliveryLikes, Zenon
  <2> QED
    BY <2>1, <2>2
<1>3. OneRound => Calm
  BY DEF OneRound
<1> QED
  BY <1>1, <1>2, <1>3, Invariance, MInvariance, CInvariance, RInvariance, EInvariance, PTL DEF Spec

\* Every step but the server's leaves the documents and the final likes alone.
LEMMA StaysOrCommits ==
    ASSUME OneRound, IInv, MInv, CInv, RInv, EInv, LInv, Next
    PROVE  Stays \/ \E u \in Users, b \in BOOLEAN : Commit(u, b)
<1>1. PICK u \in Users :
        \/ OpenCreate(u) \/ OpenJoin(u)
        \/ LeaveCreateScreen(u) \/ LeaveJoinScreen(u)
        \/ SignOut(u) \/ HearSignOut(u) \/ SignIn(u) \/ Quit(u) \/ Launch(u)
        \/ \E c \in Codes : CreateSession(u, c)
        \/ \E c \in Codes : JoinSession(u, c)
        \/ \E t \in TimeLimits, r \in Radii : Start(u, t, r)
        \/ ReceiveRestaurants(u) \/ FetchFails(u)
        \/ \E r \in Restaurants : LikeRestaurant(u, r)
        \/ EndSession(u)
        \/ Joined(u) \/ Left(u) \/ Deleted(u) \/ SnapshotGone(u) \/ SnapshotData(u)
        \/ \E b \in BOOLEAN : Commit(u, b)
        \/ Ack(u)
        \/ \E c \in Codes : Sync(u, c) \/ GoOffline(u, c)
  BY Zenon DEF Next
<1>2. ~Left(u) /\ ~Deleted(u) /\ ~SnapshotGone(u)
  BY OnlyWelcome DEF OneRound
<1> QED
  BY <1>1, <1>2, NavigationLikes, OperationLikes, JoinedLikes, SnapshotDataLikes, DeliveryLikes, Zenon

------------------------------------------------------------------------------
(* The abstract session. *)

\* The refinement mapping as a function of the document x and of who has handed in.
PhaseOf(x) == IF x = NoDoc THEN "none" ELSE IF x.finished THEN "finished"
              ELSE IF x.live THEN "live" ELSE "gathering"

MembersOf(x) == IF x = NoDoc THEN {} ELSE DOMAIN x.likes

Handed(x, ds, ss) == {v \in MembersOf(x) : HandsIn(ds[v], ss[v])}

FinalOf(x, S) == [v \in S |-> x.likes[v]]

DecisionOf(x) == IF x = NoDoc THEN NoResult ELSE x.result

\* Nobody's queue of writes issued while signed out has any.
LEMMA PendingPush ==
    ASSUME NEW d, d.queue[FALSE] = <<>>
    PROVE  (\E b \in BOOLEAN : \E i \in DOMAIN d.queue[b] :
              d.queue[b][i].op = "push" /\ d.queue[b][i].reply = "none") <=> Handing(d.queue[TRUE])
<1>1. DOMAIN d.queue[FALSE] = {}
  <2>1. PICK q : q = <<>>
    OBVIOUS
  <2>2. DOMAIN q = {}
    BY <2>1
  <2>3. d.queue[FALSE] = q
    BY <2>1
  <2> QED
    BY <2>2, <2>3
<1> QED
  BY <1>1 DEF Handing, Waits

\* Those of D who have pushed and have no push on its way, as Refinement.tla puts it.
WithoutPush(D, ds, ss) ==
    {v \in D : ss[v].pushed /\ ~(\E b \in BOOLEAN : \E i \in DOMAIN ds[v].queue[b] :
                                     /\ ds[v].queue[b][i].op = "push"
                                     /\ ds[v].queue[b][i].reply = "none")}

LEMMA HandedUnfolds ==
    ASSUME NEW x, MembersOf(x) \subseteq Users, NEW ds, NEW ss,
           \A v \in Users : ds[v].queue[FALSE] = <<>>
    PROVE  WithoutPush(MembersOf(x), ds, ss) = Handed(x, ds, ss)
<1>1. ASSUME NEW v \in MembersOf(x)
      PROVE  /\ ss[v].pushed
             /\ ~(\E b \in BOOLEAN : \E i \in DOMAIN ds[v].queue[b] :
                     /\ ds[v].queue[b][i].op = "push" /\ ds[v].queue[b][i].reply = "none")
             <=> HandsIn(ds[v], ss[v])
  <2>1. PICK d : d = ds[v]
    OBVIOUS
  <2>2. d.queue[FALSE] = <<>>
    BY <2>1
  <2>3. HandsIn(d, ss[v]) <=> ss[v].pushed /\ ~Handing(d.queue[TRUE])
    BY HandsInHanding
  <2> QED
    BY <2>1, <2>2, <2>3, PendingPush
<1> QED
  BY <1>1 DEF WithoutPush, Handed

\* What the abstract session sees of a state of the protocol.
Seen(x, H) == /\ Phase = PhaseOf(x) /\ Members = MembersOf(x) /\ HandedIn = H
              /\ Final = FinalOf(x, H) /\ Decision = DecisionOf(x)

\* The same of the next state.
SeenNext(x, H) == /\ Phase' = PhaseOf(x) /\ Members' = MembersOf(x) /\ HandedIn' = H
                  /\ Final' = FinalOf(x, H) /\ Decision' = DecisionOf(x)

LEMMA SeenNow ==
    ASSUME IInv, RInv
    PROVE  Seen(server[Code], Handed(server[Code], dev, store))
<1>1. server[Code] \in Docs \cup {NoDoc} /\ \A v \in Users : dev[v].queue[FALSE] = <<>>
  BY CodeAssumption DEF IInv, TypeOK, RInv, Good, Roles
<1>2. PICK x : x = server[Code]
  OBVIOUS
<1>3. Phase = PhaseOf(x) /\ Decision = DecisionOf(x)
  BY <1>2, Zenon DEF Phase, PhaseOf, Decision, DecisionOf
<1>4. Members = MembersOf(x) /\ MembersOf(x) \subseteq Users
  BY <1>1, <1>2 DEF Members, MembersOf, Docs, LikesMaps
<1>5. HandedIn = Handed(x, dev, store)
  <2>1. PICK ds : ds = dev
    OBVIOUS
  <2>2. PICK ss : ss = store
    OBVIOUS
  <2>3. HandedIn = WithoutPush(MembersOf(x), ds, ss)
    BY <1>4, <2>1, <2>2 DEF HandedIn, HasPending, WithoutPush
  <2>4. MembersOf(x) \subseteq Users /\ \A v \in Users : ds[v].queue[FALSE] = <<>>
    BY <1>1, <1>4, <2>1
  <2> QED
    BY <2>1, <2>2, <2>3, <2>4, HandedUnfolds
<1>6. Final = FinalOf(x, HandedIn)
  BY <1>2 DEF Final, FinalOf
<1> QED
  BY <1>2, <1>3, <1>4, <1>5, <1>6 DEF Seen

LEMMA SeenThen ==
    ASSUME IInv', RInv'
    PROVE  SeenNext(server'[Code], Handed(server'[Code], dev', store'))
<1>1. server'[Code] \in Docs \cup {NoDoc} /\ \A v \in Users : dev'[v].queue[FALSE] = <<>>
  BY CodeAssumption DEF IInv, TypeOK, RInv, Good, Roles
<1>2. PICK x : x = server'[Code]
  OBVIOUS
<1>3. Phase' = PhaseOf(x) /\ Decision' = DecisionOf(x)
  BY <1>2, Zenon DEF Phase, PhaseOf, Decision, DecisionOf
<1>4. Members' = MembersOf(x) /\ MembersOf(x) \subseteq Users
  BY <1>1, <1>2 DEF Members, MembersOf, Docs, LikesMaps
<1>5. HandedIn' = Handed(x, dev', store')
  <2>1. PICK ds : ds = dev'
    OBVIOUS
  <2>2. PICK ss : ss = store'
    OBVIOUS
  <2>3. HandedIn' = WithoutPush(MembersOf(x), ds, ss)
    BY <1>4, <2>1, <2>2 DEF HandedIn, HasPending, WithoutPush
  <2>4. MembersOf(x) \subseteq Users /\ \A v \in Users : ds[v].queue[FALSE] = <<>>
    BY <1>1, <1>4, <2>1
  <2> QED
    BY <2>1, <2>2, <2>3, <2>4, HandedUnfolds
<1>6. Final' = FinalOf(x, HandedIn')
  BY <1>2 DEF Final, FinalOf
<1> QED
  BY <1>2, <1>3, <1>4, <1>5, <1>6 DEF SeenNext

\* A step after which the abstract session is what it was.
LEMMA SeenSame ==
    ASSUME NEW x, NEW H, NEW x2, NEW H2, Seen(x, H), SeenNext(x2, H2), x2 = x, H2 = H
    PROVE  UNCHANGED Session!vars
<1>1. UNCHANGED <<Phase, Members, Final, Decision>>
  BY DEF Seen, SeenNext
<1> QED
  BY <1>1 DEF Session!vars

\* While nobody founds two sessions, there is one document at most.
LEMMA OneDocument ==
    ASSUME OneRound, RInv, NEW c \in Codes, NEW o \in Codes, server[c] # NoDoc, server[o] # NoDoc
    PROVE  c = o
<1>1. (\E v \in Hosts : store[v].sessionCode = c) /\ (\E v \in Hosts : store[v].sessionCode = o)
  BY DEF RInv, OneSession
<1>2. \A v, w \in Hosts : v = w
  BY DEF OneRound
<1> QED
  BY <1>1, <1>2

\* Only a session that was started is ended.
LEMMA EndsStarted ==
    ASSUME OneRound, IInv, RInv, EInv, NEW u \in Users, NEW i \in DOMAIN dev[u].queue[TRUE],
           NEW w \in Writes, NEW k, NEW d, Performs(u, i, w, k, d), Permitted(u, w), w.op = "end"
    PROVE  Started(server)
<1>1. \A v \in Users : /\ Begun(v, dev[v].queue[TRUE], used[v]["start"], server)
                       /\ Orders(v, dev[v], used[v]["start"], server)
  BY DEF EInv, EGood
<1>2. \A v \in Users : \A j \in DOMAIN dev[v].queue[TRUE] :
        InOrder(v, dev[v].queue[TRUE], j, used[v]["start"], server)
  BY <1>1 DEF Orders
<1>3. MayList(u, used[u]["start"], server)
  BY DEF Permitted, Lawful
<1>4. CASE u \in Hosts
  <2>1. PICK q : q = dev[u].queue[TRUE]
    OBVIOUS
  <2>2. PICK n : n = used[u]["start"]
    OBVIOUS
  <2>3. n > 0 /\ Begun(u, q, n, server) /\ \A j \in DOMAIN q : InOrder(u, q, j, n, server)
    BY <1>1, <1>2, <1>3, <1>4, <2>1, <2>2 DEF MayList
  <2>4. i \in DOMAIN q /\ q[i].op = "end" /\ \A j \in DOMAIN q : j < i => q[j].reply # "none"
    BY <2>1 DEF Performs, Executes
  <2>5. ~Starting(q)
    BY <2>3, <2>4 DEF Starting, Waits, InOrder
  <2> QED
    BY <1>4, <2>3, <2>5 DEF Begun
<1>5. CASE u \notin Hosts
  <2>1. Listed(server)
    BY <1>3, <1>5 DEF MayList
  <2>2. PICK h \in Hosts : TRUE
    BY <2>1 DEF Listed, RInv, OneSession
  <2>3. h \in Users
    BY <2>2, SessionStoreAssumption
  <2>4. PICK q : q = dev[h].queue[TRUE]
    OBVIOUS
  <2>5. PICK n : n = used[h]["start"]
    OBVIOUS
  <2>6. Begun(h, q, n, server) /\ \A j \in DOMAIN q : InOrder(h, q, j, n, server)
    BY <1>1, <1>2, <2>3, <2>4, <2>5
  <2>7. ~Starting(q)
    BY <2>1, <2>6 DEF Starting, Waits, InOrder
  <2>8. n \in Nat /\ n # 0
    BY <2>1, <2>2, <2>6 DEF Begun
  <2> QED
    BY <2>2, <2>6, <2>7, <2>8 DEF Begun
<1> QED
  BY <1>4, <1>5

\* Executing a write changes who has handed in by the one who pushes.
LEMMA HandedAfter ==
    ASSUME IInv, NEW u \in Users, NEW i, NEW w, NEW k, NEW d, Performs(u, i, w, k, d), NEW v \in Users
    PROVE  HandsIn(dev'[v], store'[v]) <=> HandsIn(dev[v], store[v]) \/ (v = u /\ w.op = "push")
<1>1. dev \in [Users -> Devices]
  BY DEF IInv, TypeOK
<1>2. /\ dev' = [dev EXCEPT ![u] = d] /\ store' = store
      /\ HandsIn(d, store[u]) <=> HandsIn(dev[u], store[u]) \/ w.op = "push"
  BY DEF Performs
<1>3. CASE v = u
  <2>1. dev'[v] = d
    BY <1>1, <1>2, <1>3
  <2> QED
    BY <1>2, <1>3, <2>1
<1>4. CASE v # u
  <2>1. dev'[v] = dev[v]
    BY <1>1, <1>2, <1>4
  <2> QED
    BY <1>2, <1>4, <2>1
<1> QED
  BY <1>3, <1>4

LEMMA SameFinal ==
    ASSUME NEW x, NEW y, NEW S, \A v \in S : x.likes[v] = y.likes[v]
    PROVE  FinalOf(x, S) = FinalOf(y, S)
  BY DEF FinalOf

\* The steps of the abstract session, from what becomes of the document.
LEMMA StutterFrom ==
    ASSUME NEW x \in Docs, NEW x2 \in Docs, NEW H, Seen(x, H), SeenNext(x2, H),
           x2.likes = x.likes, x2.result = x.result, PhaseOf(x2) = PhaseOf(x)
    PROVE  UNCHANGED Session!vars
<1>1. x # NoDoc /\ x2 # NoDoc
  BY MissingAssumption
<1>2. MembersOf(x2) = MembersOf(x) /\ DecisionOf(x2) = DecisionOf(x) /\ FinalOf(x2, H) = FinalOf(x, H)
  BY <1>1 DEF MembersOf, DecisionOf, FinalOf
<1>3. UNCHANGED <<Phase, Members, Final, Decision>>
  BY <1>2 DEF Seen, SeenNext
<1> QED
  BY <1>3 DEF Session!vars

LEMMA CreateFrom ==
    ASSUME NEW u \in Users, NEW x2, x2 = NewDoc(u), Seen(NoDoc, {}), SeenNext(x2, {})
    PROVE  Session!Create(u)
<1>1. x2 \in Docs
  BY NewDocType
<1>2. x2 # NoDoc
  BY <1>1, MissingAssumption
<1>3. DOMAIN x2.likes = {u} /\ ~x2.live /\ ~x2.finished /\ x2.result = NoResult
  <2>1. x2.likes = SetLikes(NoLikes, u, {}) /\ ~x2.live /\ ~x2.finished /\ x2.result = NoResult
    BY DEF NewDoc
  <2>2. DOMAIN SetLikes(NoLikes, u, {}) = {u}
    BY DEF SetLikes, NoLikes
  <2> QED
    BY <2>1, <2>2
<1>4. /\ PhaseOf(NoDoc) = "none" /\ PhaseOf(x2) = "gathering" /\ MembersOf(x2) = {u}
      /\ DecisionOf(x2) = NoResult /\ DecisionOf(NoDoc) = NoResult
  BY <1>2, <1>3 DEF PhaseOf, MembersOf, DecisionOf
<1>5. FinalOf(x2, {}) = FinalOf(NoDoc, {})
  BY SameFinal
<1> QED
  BY <1>4, <1>5 DEF Seen, SeenNext, Session!Create

LEMMA JoinFrom ==
    ASSUME NEW u \in Users, NEW x \in Docs, NEW x2 \in Docs, NEW H, Seen(x, H), SeenNext(x2, H),
           u \notin DOMAIN x.likes, x2.likes = SetLikes(x.likes, u, {}), u \notin H,
           H \subseteq DOMAIN x.likes,
           x2.result = x.result, PhaseOf(x2) = PhaseOf(x)
    PROVE  Session!Join(u)
<1>1. x # NoDoc /\ x2 # NoDoc
  BY MissingAssumption
<1>2. MembersOf(x2) = MembersOf(x) \cup {u} /\ u \notin MembersOf(x) /\ DecisionOf(x2) = DecisionOf(x)
  BY <1>1 DEF MembersOf, DecisionOf, SetLikes
<1>3. PhaseOf(x) # "none"
  BY <1>1 DEF PhaseOf
<1>4. FinalOf(x2, H) = FinalOf(x, H)
  <2>1. \A v \in H : x2.likes[v] = x.likes[v]
    BY DEF SetLikes
  <2> QED
    BY <2>1, SameFinal
<1> QED
  BY <1>2, <1>3, <1>4 DEF Seen, SeenNext, Session!Join

LEMMA AdvanceFrom ==
    ASSUME NEW x \in Docs, NEW x2 \in Docs, NEW H, Seen(x, H), SeenNext(x2, H),
           x2.likes = x.likes, x2.result = x.result
    PROVE  /\ PhaseOf(x) = "gathering" /\ PhaseOf(x2) = "live" => Session!Start
           /\ PhaseOf(x) = "live" /\ PhaseOf(x2) = "finished" => Session!Finish
<1>1. x # NoDoc /\ x2 # NoDoc
  BY MissingAssumption
<1>2. MembersOf(x2) = MembersOf(x) /\ DecisionOf(x2) = DecisionOf(x) /\ FinalOf(x2, H) = FinalOf(x, H)
  BY <1>1 DEF MembersOf, DecisionOf, FinalOf
<1>3. UNCHANGED <<Members, Final, Decision>> /\ Phase = PhaseOf(x) /\ Phase' = PhaseOf(x2)
  BY <1>2 DEF Seen, SeenNext
<1> QED
  BY <1>3 DEF Session!Start, Session!Finish

LEMMA HandInFrom ==
    ASSUME NEW u \in Users, NEW liked \in SUBSET Restaurants,
           NEW x \in Docs, NEW x2 \in Docs, NEW H, Seen(x, H), SeenNext(x2, H \cup {u}),
           x.finished, x2.finished, u \in DOMAIN x.likes, u \notin H, H \subseteq DOMAIN x.likes,
           x2.likes = SetLikes(x.likes, u, liked), x2.result = x.result
    PROVE  Session!HandIn(u, liked)
<1>1. x # NoDoc /\ x2 # NoDoc
  BY MissingAssumption
<1>2. /\ MembersOf(x2) = MembersOf(x) /\ u \in MembersOf(x) /\ DecisionOf(x2) = DecisionOf(x)
      /\ PhaseOf(x) = "finished" /\ PhaseOf(x2) = "finished"
  BY <1>1 DEF MembersOf, DecisionOf, SetLikes, PhaseOf
<1>3. DOMAIN FinalOf(x, H) = H
  BY DEF FinalOf
<1>4. FinalOf(x2, H \cup {u}) = Session!SetLikes(FinalOf(x, H), u, liked)
  <2>1. \A v \in H \cup {u} : x2.likes[v] = IF v = u THEN liked ELSE x.likes[v]
    BY DEF SetLikes
  <2> QED
    BY <2>1 DEF FinalOf, Session!SetLikes
<1> QED
  BY <1>2, <1>3, <1>4 DEF Seen, SeenNext, Session!HandIn

LEMMA DecideFrom ==
    ASSUME NEW x \in Docs, NEW x2 \in Docs, NEW H, Seen(x, H), SeenNext(x2, H),
           x.finished, x2.finished, x2.likes = x.likes, H \subseteq DOMAIN x.likes, H # {},
           \/ x2.result = ErrorResult
           \/ \E p \in H : x2.result \in Restaurants /\ x2.result \in x.likes[p]
    PROVE  Session!GiveUp \/ \E r \in Restaurants \cup {ErrorResult} : Session!Decide(r)
<1>1. x # NoDoc /\ x2 # NoDoc
  BY MissingAssumption
<1>2. /\ MembersOf(x2) = MembersOf(x) /\ DecisionOf(x2) = x2.result /\ FinalOf(x2, H) = FinalOf(x, H)
      /\ PhaseOf(x) = "finished" /\ PhaseOf(x2) = "finished"
  BY <1>1 DEF MembersOf, DecisionOf, FinalOf, PhaseOf
<1>3. DOMAIN FinalOf(x, H) = H /\ \A p \in H : FinalOf(x, H)[p] = x.likes[p]
  BY DEF FinalOf
<1>4. /\ Phase = "finished" /\ Phase' = "finished" /\ Final = FinalOf(x, H) /\ Decision' = x2.result
      /\ UNCHANGED <<Phase, Members, Final>>
  BY <1>2 DEF Seen, SeenNext
<1>5. CASE x2.result = ErrorResult
  BY <1>3, <1>4, <1>5 DEF Session!GiveUp
<1>6. CASE \E p \in H : x2.result \in Restaurants /\ x2.result \in x.likes[p]
  <2>1. PICK p \in H : x2.result \in Restaurants /\ x2.result \in x.likes[p]
    BY <1>6
  <2>2. PICK f : f = FinalOf(x, H)
    OBVIOUS
  <2>3. p \in DOMAIN f /\ x2.result \in f[p]
    BY <1>3, <2>1, <2>2
  <2>4. PICK g : g = [v \in {p} |-> f[v]]
    OBVIOUS
  <2>5. DOMAIN g = {p} /\ x2.result \in g[p]
    BY <2>3, <2>4
  <2>6. x2.result \in Session!Consensus(g)
    BY <2>1, <2>5 DEF Session!Consensus
  <2>7. x2.result \in Session!Selections(g)
    BY <2>6 DEF Session!Selections
  <2>8. \E S \in SUBSET DOMAIN f : S # {} /\ x2.result \in Session!Selections([v \in S |-> f[v]])
    <3>1. {p} \in SUBSET DOMAIN f /\ {p} # {}
      BY <2>3
    <3> QED
      BY <2>4, <2>7, <3>1
  <2>9. Session!Decide(x2.result)
    BY <1>4, <2>2, <2>8 DEF Session!Decide
  <2> QED
    BY <2>1, <2>9
<1> QED
  BY <1>5, <1>6

\* What is written as the result was handed in, by the time the server has it.
LEMMA ResultHanded ==
    ASSUME OneRound, IInv, RInv, LInv, NEW u \in Users, NEW i \in DOMAIN dev[u].queue[TRUE],
           NEW w \in Writes, NEW k, NEW d, Performs(u, i, w, k, d), w.op = "result",
           NEW H, H = Handed(server[Code], dev, store), server[Code] # NoDoc
    PROVE  /\ H # {}
           /\ \/ w.sel = ErrorResult
              \/ \E p \in H : w.sel \in Restaurants /\ w.sel \in server[Code].likes[p]
<1>1. PICK q : q = dev[u].queue[TRUE]
  OBVIOUS
<1>2. PICK D : D = Delivered
  OBVIOUS
<1>3. \A j \in DOMAIN q : Backed(u, q, j, D)
  BY <1>1, <1>2 DEF LInv, LGood
<1>4. /\ i \in DOMAIN q /\ q[i] = w
      /\ \A j \in DOMAIN q : j < i => q[j].reply # "none"
  BY <1>1 DEF Performs, Executes
<1>5. Earlier(u, q, i) \subseteq D
  BY <1>3, <1>4 DEF Earlier, Backed
<1>6. Justified(w.sel, D)
  <2>1. D \cup Earlier(u, q, i) = D
    BY <1>5
  <2> QED
    BY <1>3, <1>4, <2>1 DEF Backed
<1>7. ASSUME NEW y \in D
      PROVE  /\ y[1] \in H /\ server[Code].likes[y[1]] = y[2] /\ y[2] \subseteq Restaurants
  <2>1. /\ y \in Likings /\ HandsIn(dev[y[1]], store[y[1]])
        /\ \E c \in Codes : MemberOf(y[1], server[c]) /\ server[c].likes[y[1]] = y[2]
    BY <1>2, <1>7 DEF Delivered
  <2>2. PICK c \in Codes : MemberOf(y[1], server[c]) /\ server[c].likes[y[1]] = y[2]
    BY <2>1
  <2>3. c = Code
    BY <2>2, OneDocument, CodeAssumption DEF MemberOf
  <2> QED
    BY <2>1, <2>2, <2>3 DEF Handed, MembersOf, MemberOf, Likings
<1> QED
  BY <1>6, <1>7 DEF Justified

\* Every write that the server executes is a step of the abstract session.
LEMMA ExecutedImplements ==
    ASSUME OneRound, IInv, RInv, EInv, LInv, IInv', RInv', NEW u \in Users,
           NEW i \in DOMAIN dev[u].queue[TRUE], NEW w \in Writes, NEW k \in Int, NEW d,
           Performs(u, i, w, k, d), Permitted(u, w), w.code = Code
    PROVE  Session!LateNext \/ UNCHANGED Session!vars
<1>1. PICK x : x = server[Code]
  OBVIOUS
<1>2. PICK x2 : x2 = server'[Code]
  OBVIOUS
<1>3. PICK H : H = Handed(x, dev, store)
  OBVIOUS
<1>4. PICK H2 : H2 = Handed(x2, dev', store')
  OBVIOUS
<1>5. Seen(x, H) /\ SeenNext(x2, H2)
  BY <1>1, <1>2, <1>3, <1>4, SeenNow, SeenThen
<1>6. server \in [Codes -> Docs \cup {NoDoc}] /\ Code \in Codes
  BY CodeAssumption DEF IInv, TypeOK
<1>7. x2 = Apply(u, w, k, x) /\ x \in Docs \cup {NoDoc}
  BY <1>1, <1>2, <1>6 DEF Performs
<1>8. \A v \in Users : HandsIn(dev'[v], store'[v]) <=> HandsIn(dev[v], store[v]) \/ (v = u /\ w.op = "push")
  BY HandedAfter
<1>9. /\ w.op \in {"create", "join", "push", "end", "result", "start", "list", "time", "radius"}
      /\ w.op = "create" => x = NoDoc /\ u \in Hosts /\ store[u].sessionCode = Code
      /\ w.op = "join" => \A o \in Codes : ~MemberOf(u, server[o])
      /\ w.op = "push" => ~HandsIn(dev[u], store[u]) /\ MemberOf(u, x)
      /\ w.op \notin {"create", "join"} => x # NoDoc
      /\ Lawful(u, w.op, used[u]["start"], server)
  BY <1>1, WriteParts DEF Permitted, Ops
<1>10. MembersOf(x) \subseteq Users
  BY <1>7 DEF MembersOf, Docs, LikesMaps
<1>11. HandsIn(dev[u], store[u]) => \E c \in Codes : MemberOf(u, server[c])
  BY DEF RInv, Good, Part
<1>12. H = {v \in MembersOf(x) : HandsIn(dev[v], store[v])}
  BY <1>3 DEF Handed
<1>13. H2 = {v \in MembersOf(x2) : HandsIn(dev'[v], store'[v])}
  BY <1>4 DEF Handed
<1>14. CASE w.op = "create"
  <2>1. x = NoDoc /\ x2 = NewDoc(u)
    BY <1>7, <1>9, <1>14 DEF Apply, Replaces
  <2>2. ~HandsIn(dev[u], store[u])
    <3>1. \A c \in Codes : ~MemberOf(u, server[c])
      <4> SUFFICES ASSUME NEW c \in Codes, server[c] # NoDoc PROVE FALSE
        BY DEF MemberOf
      <4>1. PICK v \in Hosts : store[v].sessionCode = c
        BY DEF RInv, OneSession
      <4>2. v = u
        BY <1>9, <1>14, <4>1 DEF OneRound
      <4> QED
        BY <1>1, <1>9, <1>14, <4>1, <4>2
    <3> QED
      BY <1>11, <3>1
  <2>3. H = {}
    BY <1>12, <2>1 DEF MembersOf
  <2>4. MembersOf(x2) \subseteq {u}
    <3>1. x2.likes = SetLikes(NoLikes, u, {})
      BY <2>1 DEF NewDoc
    <3>2. DOMAIN SetLikes(NoLikes, u, {}) = {u}
      BY DEF SetLikes, NoLikes
    <3> QED
      BY <3>1, <3>2 DEF MembersOf
  <2>5. H2 = {}
    BY <1>8, <1>13, <1>14, <2>2, <2>4
  <2>6. Session!Create(u)
    BY <1>5, <2>1, <2>3, <2>5, CreateFrom
  <2> QED
    BY <2>6 DEF Session!LateNext, Session!Next
<1>15. CASE x = NoDoc /\ w.op # "create"
  <2>1. w.op = "join"
    BY <1>9, <1>15
  <2>2. x2 = NoDoc
    BY <1>7, <1>15, <2>1 DEF Apply, Missing, Replaces
  <2>3. H = {} /\ H2 = {}
    BY <1>12, <1>13, <1>15, <2>2 DEF MembersOf
  <2> QED
    BY <1>5, <1>15, <2>2, <2>3, SeenSame
<1>16. CASE x # NoDoc /\ w.op # "create"
  <2>1. x \in Docs /\ w.op \notin {"create", "leave", "delete"}
    BY <1>7, <1>9, <1>16
  <2>2. x2 = Patch(u, w, k, x) /\ x2 \in Docs /\ x2 # NoDoc
    BY <1>7, <2>1, ApplyPatches
  <2>3. /\ x2.finished = (x.finished \/ w.op = "end")
        /\ w.op \notin {"start", "end"} => x2.live = x.live
        /\ w.op = "start" => x2.live
        /\ w.op = "end" => ~x2.live
        /\ x2.result = IF w.op = "result" THEN w.sel ELSE x.result
        /\ w.op \notin {"join", "push"} => x2.likes = x.likes
        /\ w.op = "join" => x2.likes = SetLikes(x.likes, u, {})
        /\ w.op = "push" => x2.likes = SetLikes(x.likes, u, w.liked)
    BY <2>1, <2>2, PatchFields
  <2>4. MembersOf(x) = DOMAIN x.likes /\ MembersOf(x2) = DOMAIN x2.likes
    BY <1>16, <2>2 DEF MembersOf
  <2>5. H \subseteq DOMAIN x.likes
    BY <1>12, <2>4
  <2>6. ASSUME x2.likes = x.likes, w.op # "push" PROVE H2 = H
    BY <1>8, <1>10, <1>12, <1>13, <2>4, <2>6
  <2>7. /\ Started(server) => x.live \/ x.finished
        /\ Ended(server) <=> x.finished
    BY <1>1, <1>6, <1>16, OneDocument DEF Started, Ended
  <2>8. CASE w.op = "join"
    <3>1. u \notin DOMAIN x.likes /\ ~HandsIn(dev[u], store[u])
      BY <1>1, <1>6, <1>9, <1>11, <1>16, <2>8 DEF MemberOf
    <3>2. DOMAIN x2.likes = DOMAIN x.likes \cup {u}
      BY <2>3, <2>8 DEF SetLikes
    <3>3. u \notin H /\ H2 = H
      BY <1>8, <1>10, <1>12, <1>13, <2>4, <2>8, <3>1, <3>2
    <3>4. PhaseOf(x2) = PhaseOf(x)
      BY <1>16, <2>2, <2>3, <2>8 DEF PhaseOf
    <3>5. x2.likes = SetLikes(x.likes, u, {}) /\ x2.result = x.result
      BY <2>3, <2>8
    <3>6. Session!Join(u)
      BY <1>5, <2>1, <2>2, <2>5, <3>1, <3>3, <3>4, <3>5, JoinFrom
    <3> QED
      BY <3>6 DEF Session!LateNext, Session!Next
  <2>9. CASE w.op \in {"list", "time", "radius"}
    <3>1. PhaseOf(x2) = PhaseOf(x) /\ x2.likes = x.likes /\ x2.result = x.result
      BY <1>16, <2>2, <2>3, <2>9 DEF PhaseOf
    <3>2. H2 = H
      BY <2>6, <2>9, <3>1
    <3> QED
      BY <1>5, <2>1, <2>2, <3>1, <3>2, StutterFrom
  <2>10. CASE w.op \in {"start", "end"}
    <3>1. x2.likes = x.likes /\ x2.result = x.result /\ H2 = H
      BY <2>3, <2>6, <2>10
    <3>2. w.op = "start" => ~x.finished
      BY <1>9, <2>7 DEF Lawful
    <3>3. w.op = "end" => x.live \/ x.finished
      BY <2>7, EndsStarted
    <3>4. \/ PhaseOf(x2) = PhaseOf(x)
          \/ PhaseOf(x) = "gathering" /\ PhaseOf(x2) = "live"
          \/ PhaseOf(x) = "live" /\ PhaseOf(x2) = "finished"
      BY <1>16, <2>2, <2>3, <2>10, <3>2, <3>3 DEF PhaseOf
    <3>5. SeenNext(x2, H)
      BY <1>5, <3>1
    <3>6. UNCHANGED Session!vars \/ Session!Start \/ Session!Finish
      BY <1>5, <2>1, <2>2, <3>1, <3>4, <3>5, StutterFrom, AdvanceFrom
    <3> QED
      BY <3>6 DEF Session!LateNext, Session!Next
  <2>11. CASE w.op = "push"
    <3>1. x.finished /\ x2.finished
      BY <1>9, <2>3, <2>7, <2>11 DEF Lawful
    <3>2. u \in DOMAIN x.likes /\ ~HandsIn(dev[u], store[u])
      BY <1>9, <2>11 DEF MemberOf
    <3>3. x2.likes = SetLikes(x.likes, u, w.liked) /\ x2.result = x.result
      BY <2>3, <2>11
    <3>4. DOMAIN x2.likes = DOMAIN x.likes
      BY <3>2, <3>3 DEF SetLikes
    <3>5. u \notin H /\ H2 = H \cup {u}
      BY <1>8, <1>10, <1>12, <1>13, <2>4, <2>11, <3>2, <3>4
    <3>6. w.liked \in SUBSET Restaurants
      BY WriteParts
    <3>7. SeenNext(x2, H \cup {u})
      BY <1>5, <3>5
    <3>8. Session!HandIn(u, w.liked)
      BY <1>5, <2>1, <2>2, <2>5, <3>1, <3>2, <3>3, <3>5, <3>6, <3>7, HandInFrom
    <3> QED
      BY <3>6, <3>8 DEF Session!LateNext, Session!Next
  <2>12. CASE w.op = "result"
    <3>1. x.finished /\ x2.finished /\ x2.likes = x.likes /\ x2.result = w.sel
      BY <1>9, <2>3, <2>7, <2>12 DEF Lawful
    <3>2. SeenNext(x2, H)
      <4>1. H2 = H
        BY <2>6, <2>12, <3>1
      <4> QED
        BY <1>5, <4>1
    <3>3. H # {} /\ (x2.result = ErrorResult \/ \E p \in H : x2.result \in Restaurants /\ x2.result \in x.likes[p])
      BY <1>1, <1>3, <1>16, <2>12, <3>1, ResultHanded
    <3>4. Session!GiveUp \/ \E r \in Restaurants \cup {ErrorResult} : Session!Decide(r)
      BY <1>5, <2>1, <2>2, <2>5, <3>1, <3>2, <3>3, DecideFrom
    <3> QED
      BY <3>4 DEF Session!LateNext, Session!Next
  <2> QED
    BY <1>9, <1>16, <2>8, <2>9, <2>10, <2>11, <2>12
<1> QED
  BY <1>14, <1>15, <1>16

\* A write to another session changes nothing of this one: only one session exists.
LEMMA ElsewhereImplements ==
    ASSUME OneRound, IInv, RInv, EInv, IInv', RInv', NEW u \in Users,
           NEW i \in DOMAIN dev[u].queue[TRUE], NEW w \in Writes, NEW k, NEW d,
           Performs(u, i, w, k, d), Permitted(u, w), w.code # Code
    PROVE  UNCHANGED Session!vars
<1>1. PICK x : x = server[Code]
  OBVIOUS
<1>2. PICK H : H = Handed(x, dev, store)
  OBVIOUS
<1>3. PICK H2 : H2 = Handed(x, dev', store')
  OBVIOUS
<1>4. server \in [Codes -> Docs \cup {NoDoc}] /\ Code \in Codes /\ w.code \in Codes
  BY CodeAssumption, WriteParts DEF IInv, TypeOK
<1>5. server'[Code] = x
  BY <1>1, <1>4 DEF Performs
<1>6. Seen(x, H) /\ SeenNext(x, H2)
  BY <1>1, <1>2, <1>3, <1>5, SeenNow, SeenThen
<1>7. \A v \in Users : HandsIn(dev'[v], store'[v]) <=> HandsIn(dev[v], store[v]) \/ (v = u /\ w.op = "push")
  BY HandedAfter
<1>8. MembersOf(x) \subseteq Users
  BY <1>1, <1>4 DEF MembersOf, Docs, LikesMaps
<1>9. w.op = "push" => MembersOf(x) = {}
  BY <1>1, <1>4, OneDocument DEF Permitted, MemberOf, MembersOf
<1>10. H2 = H
  BY <1>2, <1>3, <1>7, <1>8, <1>9 DEF Handed
<1> QED
  BY <1>6, <1>10, SeenSame

\* The documents and who has handed in stay: the abstract session stays.
LEMMA StaysImplements ==
    ASSUME IInv, RInv, IInv', RInv', Stays
    PROVE  UNCHANGED Session!vars
<1>1. PICK x : x = server[Code]
  OBVIOUS
<1>2. PICK H : H = Handed(x, dev, store)
  OBVIOUS
<1>3. PICK H2 : H2 = Handed(x, dev', store')
  OBVIOUS
<1>4. server'[Code] = x
  BY <1>1 DEF Stays
<1>5. Seen(x, H) /\ SeenNext(x, H2)
  BY <1>1, <1>2, <1>3, <1>4, SeenNow, SeenThen
<1>6. MembersOf(x) \subseteq Users
  BY <1>1, CodeAssumption DEF MembersOf, Docs, LikesMaps, IInv, TypeOK
<1>7. H2 = H
  BY <1>2, <1>3, <1>6 DEF Handed, Stays
<1> QED
  BY <1>5, <1>7, SeenSame

LEMMA StepImplements ==
    ASSUME OneRound, IInv, MInv, CInv, RInv, EInv, LInv, IInv', RInv', [Next]_vars
    PROVE  [Session!LateNext]_(Session!vars)
<1>1. CASE UNCHANGED vars
  <2>1. Stays
    BY <1>1 DEF vars, Stays
  <2> QED
    BY <2>1, StaysImplements
<1>2. CASE Next
  <2>1. CASE Stays
    BY <2>1, StaysImplements
  <2>2. CASE \E u \in Users, b \in BOOLEAN : Commit(u, b)
    <3>1. PICK u \in Users : Performed(u)
      BY <2>2, CommitPerforms
    <3>2. PICK i \in DOMAIN dev[u].queue[TRUE], w \in Writes, k \in Int, d \in Devices :
            Performs(u, i, w, k, d) /\ Permitted(u, w)
      BY <3>1 DEF Performed
    <3>3. CASE w.code = Code
      BY <3>2, <3>3, ExecutedImplements
    <3>4. CASE w.code # Code
      BY <3>2, <3>4, ElsewhereImplements
    <3> QED
      BY <3>3, <3>4
  <2> QED
    BY <1>2, <2>1, <2>2, StaysOrCommits
<1> QED
  BY <1>1, <1>2

\* Before anybody creates the session.
LEMMA InitImplements == Init => Session!Init
<1> SUFFICES ASSUME Init PROVE Session!Init
  OBVIOUS
<1>1. server[Code] = NoDoc
  BY CodeAssumption DEF Init
<1>2. Phase = "none" /\ Members = {} /\ Decision = NoResult
  BY <1>1 DEF Phase, Members, Decision
<1>3. HandedIn = {}
  BY <1>2 DEF HandedIn
<1>4. Final = Session!NoLikes
  BY <1>3 DEF Final, Session!NoLikes
<1> QED
  BY <1>2, <1>4 DEF Session!Init

\* However late the answers of the server are: a document goes through the phases of an
\* abstract session, a participant's likes reach it once and after the session was
\* finished, and stay as they are, and what is written as the result was handed in by
\* somebody or is "Error" (startSession, endSession, calcResult and pushResults,
\* SessionStore.swift:97-140, and the snapshot handler, 182-197).
THEOREM DecisionsAreTraceable == ASSUME OneRound, OneStart PROVE Spec => ImplementsLate
<1>1. OneRound /\ IInv /\ MInv /\ CInv /\ RInv /\ EInv /\ LInv /\ IInv' /\ RInv' /\ [Next]_vars
        => [Session!LateNext]_(Session!vars)
  BY StepImplements
<1>2. OneRound => Calm
  BY DEF OneRound
<1> QED
  BY <1>1, <1>2, InitImplements, Invariance, MInvariance, CInvariance, RInvariance, EInvariance,
     LInvariance, PTL DEF Spec, ImplementsLate, Session!LateSpec
===============================================================================
