----------------------------- MODULE MirrorProofs -----------------------------
(***************************************************************************)
(* Once everything is delivered, a device shows its session's document:    *)
(* SettledMirrors for every set of users, codes and restaurants and for    *)
(* every bound.                                                            *)
(*                                                                         *)
(* The argument follows a document through the device.  The view that the  *)
(* SDK keeps of a document is the cached document unless a write on it is  *)
(* pending or the server owes a confirmation; the newest snapshot on its   *)
(* way to the app carries that view; and the SessionStore mirrors the view *)
(* unless a snapshot is still to come.                                     *)
(***************************************************************************)
EXTENDS SessionStoreProofs

IsSnap(e, c) == e.kind = "snapshot" /\ e.code = c

\* A snapshot of c waits in the inbox q.
SnapIn(q, c) == \E i \in DOMAIN q : IsSnap(q[i], c)

\* The newest snapshot of c in the inbox q has the data x.
Told(q, c, x) ==
    \A i \in DOMAIN q :
        IsSnap(q[i], c) /\ (\A j \in DOMAIN q : j > i => ~IsSnap(q[j], c)) => q[i].data = x

\* A snapshot of c is still to come.
News(d, c) == d.fresh[c] > 0 \/ SnapIn(d.inbox, c)

\* No write on c is pending.
Quiet(d, c) == \A i \in DOMAIN Pending(d) : Pending(d)[i].code # c

\* The snapshots of c in the inbox were sent to a listener, the newest of them is
\* what is shown, and only listeners whose link is not up wait for their first one.
Tells(d, c) == /\ d.link[c] # "connecting" => d.fresh[c] = 0
               /\ SnapIn(d.inbox, c) => d.listeners[c] > 0
               /\ Told(d.inbox, c, d.shown[c])

\* Without pending writes a document is shown as it is cached, or as it was before
\* an acknowledgement that the server has not confirmed.
Current(d, c) ==
    d.listeners[c] > 0 /\ Quiet(d, c) =>
       \/ d.shown[c] = Visible(d.cache[c])
       \/ d.acked[c] /\ d.shown[c] # NoDoc /\ ~Missing(d.cache[c])

Tracks(d) == \A c \in Codes : Tells(d, c) /\ Current(d, c)

\* What the device d2 shows differs from what d showed, or was not told to the app
\* before, only if a snapshot is to come.
Keeps(d, d2) ==
    \A c \in Codes : \/ News(d2, c)
                     \/ ~News(d, c) /\ d2.shown[c] = d.shown[c]

\* The store s shows the document d.
Mirrors(s, d) == /\ s.numParticipants = d.participants
                 /\ s.sessionLive = d.live
                 /\ d.result # NoResult => s.result = d.result
                 /\ s.finished = d.finished
                 /\ d.restaurantList => s.restaurantList
                 /\ s.likes = d.likes
                 /\ s.time = d.time

\* A store that was only ever told of its own session shows what its device shows,
\* unless a snapshot is to come.
Informed(d, s) ==
    \A c \in Codes :
        s.sessionCode = c /\ (\A o \in Codes \ {c} : d.listeners[o] = 0) =>
           News(d, c) \/ (d.shown[c] # NoDoc /\ Mirrors(s, d.shown[c]))

MInv == \A u \in Users : Tracks(dev[u]) /\ Informed(dev[u], store[u])

------------------------------------------------------------------------------
(* Inboxes *)

\* Where the events of a longer inbox come from.
LEMMA CalledParts ==
    ASSUME NEW q \in Seq(Events), NEW n \in Nat, NEW e \in Events
    PROVE  /\ Len(q) \in Nat /\ DOMAIN q = 1 .. Len(q)
           /\ DOMAIN Called(q, n, e) = 1 .. Len(q) + n
           /\ \A i \in 1 .. Len(q) : Called(q, n, e)[i] = q[i]
           /\ \A i \in Len(q) + 1 .. Len(q) + n : Called(q, n, e)[i] = e
<1> DEFINE r == [i \in 1 .. n |-> e]
<1>1. r \in Seq(Events) /\ Len(r) = n /\ \A i \in 1 .. n : r[i] = e
  OBVIOUS
<1> HIDE DEF r
<1>2. /\ q \o r \in Seq(Events)
      /\ Len(q \o r) = Len(q) + Len(r)
      /\ \A i \in 1 .. Len(q) + Len(r) : (q \o r)[i] = IF i <= Len(q) THEN q[i] ELSE r[i - Len(q)]
  BY <1>1, ConcatProperties
<1>3. Called(q, n, e) = q \o r
  BY Zenon DEF Called, r
<1>4. Len(q) \in Nat /\ DOMAIN q = 1 .. Len(q) /\ DOMAIN (q \o r) = 1 .. Len(q) + n
  BY <1>1, <1>2
<1>5. \A i \in 1 .. Len(q) : i \in 1 .. Len(q) + n /\ i <= Len(q)
  BY <1>4
<1>6. \A i \in 1 .. Len(q) : (q \o r)[i] = q[i]
  BY <1>1, <1>2, <1>5
<1>7. \A i \in Len(q) + 1 .. Len(q) + n :
         i \in 1 .. Len(q) + n /\ ~(i <= Len(q)) /\ i - Len(q) \in 1 .. n
  BY <1>4
<1>8. \A i \in Len(q) + 1 .. Len(q) + n : (q \o r)[i] = e
  BY <1>1, <1>2, <1>7
<1> QED
  BY <1>3, <1>4, <1>6, <1>8

\* An event that is no snapshot of c, and an empty call, leave the snapshots of c.
LEMMA CalledOther ==
    ASSUME NEW q \in Seq(Events), NEW n \in Nat, NEW e \in Events, NEW c,
           n = 0 \/ ~IsSnap(e, c)
    PROVE  /\ SnapIn(Called(q, n, e), c) <=> SnapIn(q, c)
           /\ \A x : Told(q, c, x) => Told(Called(q, n, e), c, x)
<1> DEFINE r == Called(q, n, e)
<1>1. /\ Len(q) \in Nat /\ DOMAIN q = 1 .. Len(q)
      /\ DOMAIN r = 1 .. Len(q) + n
      /\ \A i \in 1 .. Len(q) : r[i] = q[i]
      /\ \A i \in Len(q) + 1 .. Len(q) + n : r[i] = e
  BY CalledParts
<1> HIDE DEF r
<1>2. DOMAIN q \subseteq DOMAIN r
  BY <1>1
<1>3. \A i \in DOMAIN r : IsSnap(r[i], c) => i \in DOMAIN q
  <2> SUFFICES ASSUME NEW i \in DOMAIN r, i \notin DOMAIN q
               PROVE  ~IsSnap(r[i], c)
    OBVIOUS
  <2>1. i \in Len(q) + 1 .. Len(q) + n /\ n # 0
    BY <1>1
  <2> QED
    BY <1>1, <2>1
<1>4. SnapIn(r, c) <=> SnapIn(q, c)
  BY <1>1, <1>2, <1>3 DEF SnapIn
<1>5. ASSUME NEW x, Told(q, c, x)
      PROVE  Told(r, c, x)
  BY <1>1, <1>2, <1>3, <1>5 DEF Told
<1> QED
  BY <1>4, <1>5 DEF r

\* A snapshot of c that is sent at least once is the newest.
LEMMA CalledSnap ==
    ASSUME NEW q \in Seq(Events), NEW n \in Nat, n > 0, NEW e \in Events, NEW c, IsSnap(e, c)
    PROVE  SnapIn(Called(q, n, e), c) /\ Told(Called(q, n, e), c, e.data)
<1> DEFINE r == Called(q, n, e)
<1>1. /\ Len(q) \in Nat /\ DOMAIN q = 1 .. Len(q)
      /\ DOMAIN r = 1 .. Len(q) + n
      /\ \A i \in 1 .. Len(q) : r[i] = q[i]
      /\ \A i \in Len(q) + 1 .. Len(q) + n : r[i] = e
  BY CalledParts
<1> HIDE DEF r
<1>2. /\ Len(q) + n \in DOMAIN r /\ r[Len(q) + n] = e
  BY <1>1
<1>3. ASSUME NEW i \in DOMAIN r, \A j \in DOMAIN r : j > i => ~IsSnap(r[j], c)
      PROVE  r[i] = e
  <2>1. ~(Len(q) + n > i)
    BY <1>2, <1>3
  <2>2. i \in Len(q) + 1 .. Len(q) + n
    BY <1>1, <2>1
  <2> QED
    BY <1>1, <2>2
<1>4. SnapIn(r, c)
  BY <1>2 DEF SnapIn
<1>5. Told(r, c, e.data)
  BY <1>3 DEF Told
<1> QED
  BY <1>4, <1>5 DEF r

\* Handling the oldest event: the snapshots behind it stay, and if none is left it
\* was the newest itself.
LEMMA TailTold ==
    ASSUME NEW q \in Seq(Events), q # <<>>, NEW c
    PROVE  /\ SnapIn(Tail(q), c) => SnapIn(q, c)
           /\ \A x : Told(q, c, x) => Told(Tail(q), c, x)
           /\ SnapIn(q, c) => SnapIn(Tail(q), c) \/ IsSnap(Head(q), c)
           /\ \A x : Told(q, c, x) /\ IsSnap(Head(q), c) => SnapIn(Tail(q), c) \/ Head(q).data = x
<1> DEFINE t == Tail(q)
<1>1. /\ t \in Seq(Events) /\ Len(t) = Len(q) - 1
      /\ \A i \in 1 .. Len(t) : t[i] = q[i + 1]
  BY HeadTailProperties, Zenon
<1>2. /\ Len(q) \in Nat /\ DOMAIN q = 1 .. Len(q) /\ DOMAIN t = 1 .. Len(t)
      /\ Head(q) = q[1] /\ Len(q) > 0
  BY <1>1, EmptySeq
<1> HIDE DEF t
<1>3. \A i \in DOMAIN t : i + 1 \in DOMAIN q /\ t[i] = q[i + 1]
  BY <1>1, <1>2
<1>4. \A i \in DOMAIN q : i # 1 => i - 1 \in DOMAIN t /\ t[i - 1] = q[i]
  <2> SUFFICES ASSUME NEW i \in DOMAIN q, i # 1
               PROVE  i - 1 \in DOMAIN t /\ t[i - 1] = q[i]
    OBVIOUS
  <2>1. i - 1 \in 1 .. Len(t) /\ (i - 1) + 1 = i
    BY <1>1, <1>2
  <2> QED
    BY <1>1, <1>2, <2>1
<1>5. SnapIn(t, c) => SnapIn(q, c)
  BY <1>3 DEF SnapIn
<1>6. SnapIn(q, c) => SnapIn(t, c) \/ IsSnap(Head(q), c)
  BY <1>2, <1>4 DEF SnapIn
<1>7. ASSUME NEW x, Told(q, c, x)
      PROVE  Told(t, c, x)
  <2> SUFFICES ASSUME NEW i \in DOMAIN t, IsSnap(t[i], c),
                      \A j \in DOMAIN t : j > i => ~IsSnap(t[j], c)
               PROVE  t[i].data = x
    BY DEF Told
  <2>1. ASSUME NEW j \in DOMAIN q, j > i + 1
        PROVE  ~IsSnap(q[j], c)
    <3>1. j # 1 /\ j - 1 > i
      BY <1>2, <2>1
    <3> QED
      BY <1>4, <3>1
  <2>2. i + 1 \in DOMAIN q /\ IsSnap(q[i + 1], c) /\ t[i] = q[i + 1]
    BY <1>3
  <2>3. q[i + 1].data = x
    BY <1>7, <2>1, <2>2 DEF Told
  <2> QED
    BY <2>2, <2>3
<1>8. ASSUME NEW x, Told(q, c, x), IsSnap(Head(q), c), ~SnapIn(t, c)
      PROVE  Head(q).data = x
  <2>1. 1 \in DOMAIN q /\ IsSnap(q[1], c)
    BY <1>2, <1>8
  <2>2. \A j \in DOMAIN q : j > 1 => ~IsSnap(q[j], c)
    <3> SUFFICES ASSUME NEW j \in DOMAIN q, j > 1
                 PROVE  ~IsSnap(q[j], c)
      OBVIOUS
    <3>1. j # 1
      BY <1>2
    <3> QED
      BY <1>4, <1>8, <3>1 DEF SnapIn
  <2>3. q[1].data = x
    BY <1>8, <2>1, <2>2 DEF Told
  <2> QED
    BY <1>2, <2>3
<1> QED
  BY <1>5, <1>6, <1>7, <1>8 DEF t

------------------------------------------------------------------------------
(* Devices *)

\* Without pending writes on a document the overlay is the cached document.
LEMMA OverlayNone ==
    ASSUME NEW u \in Users, NEW q \in Seq(Writes), NEW c \in Codes, NEW remote \in CachedDocs,
           \A i \in DOMAIN q : q[i].code # c
    PROVE  Overlay(u, q, c, remote) = remote
<1> DEFINE on == {i \in DOMAIN q : q[i].code = c}
           whole == {i \in on : Replaces(q[i])}
           start == IF whole = {} THEN remote ELSE Apply(u, q[Max(whole)], 0, NoDoc)
           By(f) == {i \in on : f \in Assigns(q[i]) /\ \A j \in whole : j < i}
           Field(f) == IF By(f) = {} THEN start[f]
                       ELSE LET w == q[Max(By(f))] IN Patch(u, w, w.num, start)[f]
<1>1. on = {} /\ whole = {}
  OBVIOUS
<1>2. start = remote
  BY <1>1
<1>3. \A f : By(f) = {}
  BY <1>1
<1>4. \A f : Field(f) = remote[f]
  BY <1>2, <1>3, Zenon
<1>5. Overlay(u, q, c, remote) =
        IF Missing(start) THEN start
        ELSE [participants    |-> Field("participants"),
              live            |-> Field("live"),
              likes           |-> Field("likes"),
              result          |-> Field("result"),
              finished        |-> Field("finished"),
              restaurantList  |-> Field("restaurantList"),
              finishedPushing |-> Field("finishedPushing"),
              time            |-> Field("time"),
              radius          |-> Field("radius")]
  BY Zenon DEF Overlay
<1> HIDE DEF Field, start
<1>6. CASE Missing(remote)
  BY <1>2, <1>5, <1>6
<1>7. CASE ~Missing(remote)
  <2>1. remote \in Docs
    BY <1>7 DEF CachedDocs, Missing
  <2>2. Overlay(u, q, c, remote) =
          [participants |-> remote.participants, live |-> remote.live, likes |-> remote.likes,
           result |-> remote.result, finished |-> remote.finished,
           restaurantList |-> remote.restaurantList,
           finishedPushing |-> remote.finishedPushing, time |-> remote.time,
           radius |-> remote.radius]
    BY <1>2, <1>4, <1>5, <1>7
  <2> QED
    BY <2>1, <2>2 DEF Docs
<1> QED
  BY <1>6, <1>7

\* Calls of the listeners of c with what is shown of c now.
LEMMA ToldStep ==
    ASSUME NEW d \in Devices, NEW d2 \in Devices, NEW c \in Codes, NEW n \in Nat,
           d2.inbox = Called(d.inbox, n, Snapshot(c, d2.shown[c])),
           d2.listeners[c] > 0,
           \A o \in Codes \ {c} : /\ d2.shown[o] = d.shown[o] /\ d2.fresh[o] = d.fresh[o]
                                  /\ d2.link[o] = d.link[o] /\ d2.listeners[o] = d.listeners[o],
           d2.link[c] # "connecting" => d2.fresh[c] = 0,
           n = 0 => d2.fresh[c] > 0 \/ (d.fresh[c] = 0 /\ d2.shown[c] = d.shown[c]),
           n = 0 => d2.shown[c] = d.shown[c] \/ d.listeners[c] = 0,
           \A o \in Codes : Tells(d, o)
    PROVE  (\A o \in Codes : Tells(d2, o)) /\ Keeps(d, d2)
<1>1. d.inbox \in Seq(Events) /\ d2.shown[c] \in Docs \cup {NoDoc}
  BY DeviceParts
<1>2. PICK e \in Events : e = Snapshot(c, d2.shown[c])
  BY <1>1 DEF Snapshot, Events
<1>3. IsSnap(e, c) /\ e.data = d2.shown[c] /\ \A o \in Codes \ {c} : ~IsSnap(e, o)
  BY <1>2 DEF IsSnap, Snapshot
<1>4. d2.inbox = Called(d.inbox, n, e)
  BY <1>2
<1>5. \A o \in Codes \ {c} : /\ SnapIn(d2.inbox, o) <=> SnapIn(d.inbox, o)
                             /\ Told(d.inbox, o, d.shown[o]) => Told(d2.inbox, o, d.shown[o])
  BY <1>1, <1>3, <1>4, CalledOther
<1>6. ASSUME NEW o \in Codes \ {c}
      PROVE  /\ Tells(d2, o)
             /\ News(d2, o) \/ (~News(d, o) /\ d2.shown[o] = d.shown[o])
  BY <1>5 DEF Tells, News
<1>7. CASE n > 0
  <2>1. SnapIn(d2.inbox, c) /\ Told(d2.inbox, c, d2.shown[c])
    BY <1>1, <1>3, <1>4, <1>7, CalledSnap
  <2> QED
    BY <1>6, <2>1 DEF Tells, News, Keeps
<1>8. CASE n = 0
  <2>1. /\ SnapIn(d2.inbox, c) <=> SnapIn(d.inbox, c)
        /\ \A x : Told(d.inbox, c, x) => Told(d2.inbox, c, x)
    <3>1. /\ SnapIn(Called(d.inbox, n, e), c) <=> SnapIn(d.inbox, c)
          /\ \A x : Told(d.inbox, c, x) => Told(Called(d.inbox, n, e), c, x)
      BY <1>1, <1>8, CalledOther
    <3> QED
      BY <1>4, <3>1, Zenon
  <2>2. Told(d2.inbox, c, d2.shown[c])
    <3>1. CASE d2.shown[c] = d.shown[c]
      BY <2>1, <3>1 DEF Tells
    <3>2. CASE d.listeners[c] = 0
      <4>1. ~SnapIn(d2.inbox, c)
        BY <2>1, <3>2 DEF Tells
      <4> QED
        BY <4>1 DEF Told, SnapIn
    <3> QED
      BY <1>8, <3>1, <3>2
  <2>3. Tells(d2, c)
    BY <2>2 DEF Tells
  <2>4. News(d2, c) \/ (~News(d, c) /\ d2.shown[c] = d.shown[c])
    BY <1>8, <2>1 DEF News
  <2> QED
    BY <1>6, <2>3, <2>4 DEF Keeps
<1> QED
  BY <1>7, <1>8

\* The fields that computing a view again leaves alone, and what it shows.
LEMMA RefreshParts ==
    ASSUME NEW u \in Users, NEW d \in Devices, NEW c \in Codes, NEW d2, d2 = Refresh(u, d, c)
    PROVE  /\ d2 \in Devices /\ d2.listeners = d.listeners /\ d2.queue = d.queue
           /\ d2.user = d.user /\ d2.cache = d.cache /\ d2.acked = d.acked /\ d2.link = d.link
           /\ \/ /\ d2 = d
                 /\ \/ d.listeners[c] = 0 \/ Visible(Local(u, d, c)) = d.shown[c]
                    \/ AwaitsServer(u, d, c)
              \/ /\ d.listeners[c] > 0
                 /\ d2.shown = [d.shown EXCEPT ![c] = Visible(Local(u, d, c))]
                 /\ d2.fresh = [d.fresh EXCEPT ![c] = 0]
                 /\ d2.inbox = Called(d.inbox, d.listeners[c], Snapshot(c, Visible(Local(u, d, c))))
<1>1. PICK x \in Docs \cup {NoDoc} : x = Visible(Local(u, d, c))
  BY LocalType
<1>2. PICK v : v = [d.shown EXCEPT ![c] = x]
  OBVIOUS
<1>3. PICK f : f = [d.fresh EXCEPT ![c] = 0]
  OBVIOUS
<1>4. PICK i : i = Called(d.inbox, d.listeners[c], Snapshot(c, x))
  OBVIOUS
<1>5. d2 \in Devices /\ d2.listeners = d.listeners
  BY RefreshType
<1>6. CASE d.listeners[c] = 0 \/ x = d.shown[c] \/ AwaitsServer(u, d, c)
  <2>1. d2 = d
    BY <1>1, <1>6 DEF Refresh
  <2> QED
    BY <1>1, <1>5, <1>6, <2>1
<1>7. CASE ~(d.listeners[c] = 0 \/ x = d.shown[c] \/ AwaitsServer(u, d, c))
  <2>1. d2 = [d EXCEPT !.shown = v, !.fresh = f, !.inbox = i]
    BY <1>1, <1>2, <1>3, <1>4, <1>7 DEF Refresh
  <2>2. d.listeners[c] > 0
    BY <1>7, DeviceParts
  <2>3. /\ d2.queue = d.queue /\ d2.user = d.user /\ d2.cache = d.cache /\ d2.acked = d.acked
        /\ d2.link = d.link /\ d2.shown = v /\ d2.fresh = f /\ d2.inbox = i
    BY <2>1 DEF Devices
  <2> QED
    BY <1>1, <1>2, <1>3, <1>4, <1>5, <2>2, <2>3
<1> QED
  BY <1>6, <1>7

\* The same, document by document.
LEMMA RefreshValues ==
    ASSUME NEW u \in Users, NEW d \in Devices, NEW c \in Codes, NEW d2, d2 = Refresh(u, d, c)
    PROVE  /\ d2 \in Devices /\ d2.listeners = d.listeners /\ d2.queue = d.queue
           /\ d2.user = d.user /\ d2.cache = d.cache /\ d2.acked = d.acked /\ d2.link = d.link
           /\ \A o \in Codes \ {c} : d2.shown[o] = d.shown[o] /\ d2.fresh[o] = d.fresh[o]
           /\ \/ /\ d2 = d
                 /\ \/ d.listeners[c] = 0 \/ Visible(Local(u, d, c)) = d.shown[c]
                    \/ AwaitsServer(u, d, c)
              \/ /\ d.listeners[c] > 0
                 /\ d2.shown[c] = Visible(Local(u, d, c))
                 /\ d2.inbox = Called(d.inbox, d.listeners[c], Snapshot(c, Visible(Local(u, d, c))))
<1>1. d.shown \in [Codes -> Docs \cup {NoDoc}] /\ d.fresh \in [Codes -> Nat]
  BY DeviceParts
<1>2. PICK x \in Docs \cup {NoDoc} : x = Visible(Local(u, d, c))
  BY LocalType
<1>3. /\ d2 \in Devices /\ d2.listeners = d.listeners /\ d2.queue = d.queue
      /\ d2.user = d.user /\ d2.cache = d.cache /\ d2.acked = d.acked /\ d2.link = d.link
      /\ \/ /\ d2 = d
            /\ d.listeners[c] = 0 \/ x = d.shown[c] \/ AwaitsServer(u, d, c)
         \/ /\ d.listeners[c] > 0
            /\ d2.shown = [d.shown EXCEPT ![c] = x]
            /\ d2.fresh = [d.fresh EXCEPT ![c] = 0]
            /\ d2.inbox = Called(d.inbox, d.listeners[c], Snapshot(c, x))
  BY <1>2, RefreshParts
<1> QED
  BY <1>1, <1>2, <1>3

\* Computing the view of c again tells the listeners.
LEMMA RefreshTells ==
    ASSUME NEW u \in Users, NEW d \in Devices, NEW c \in Codes, \A o \in Codes : Tells(d, o)
    PROVE  (\A o \in Codes : Tells(Refresh(u, d, c), o)) /\ Keeps(d, Refresh(u, d, c))
<1>1. PICK d2 : d2 = Refresh(u, d, c)
  OBVIOUS
<1>2. PICK x \in Docs \cup {NoDoc} : x = Visible(Local(u, d, c))
  BY LocalType
<1>3. /\ d2 \in Devices /\ d2.listeners = d.listeners /\ d2.link = d.link
      /\ \/ d2 = d
         \/ /\ d.listeners[c] > 0
            /\ d2.shown = [d.shown EXCEPT ![c] = x]
            /\ d2.fresh = [d.fresh EXCEPT ![c] = 0]
            /\ d2.inbox = Called(d.inbox, d.listeners[c], Snapshot(c, x))
  BY <1>1, <1>2, RefreshParts
<1>4. CASE d2 = d
  BY <1>1, <1>4 DEF Keeps
<1>5. CASE /\ d.listeners[c] > 0
           /\ d2.shown = [d.shown EXCEPT ![c] = x]
           /\ d2.fresh = [d.fresh EXCEPT ![c] = 0]
           /\ d2.inbox = Called(d.inbox, d.listeners[c], Snapshot(c, x))
  <2>1. /\ d.shown \in [Codes -> Docs \cup {NoDoc}] /\ d.fresh \in [Codes -> Nat]
        /\ d.listeners[c] \in Nat
    BY DeviceParts
  <2>2. /\ d2.shown[c] = x /\ d2.fresh[c] = 0
        /\ \A o \in Codes \ {c} : d2.shown[o] = d.shown[o] /\ d2.fresh[o] = d.fresh[o]
    BY <1>5, <2>1
  <2>3. PICK n \in Nat : n = d.listeners[c]
    BY <2>1
  <2>4. d2.inbox = Called(d.inbox, n, Snapshot(c, d2.shown[c]))
    BY <1>5, <2>2, <2>3
  <2>5. n # 0 /\ d2.listeners[c] > 0
    BY <1>3, <1>5, <2>3
  <2> QED
    BY <1>1, <1>3, <2>2, <2>4, <2>5, ToldStep
<1> QED
  BY <1>3, <1>4, <1>5

\* Computing the view of c again makes it current, and keeps the other ones.
LEMMA RefreshCurrent ==
    ASSUME NEW u \in Users, NEW d \in Devices, NEW c \in Codes
    PROVE  /\ Current(Refresh(u, d, c), c)
           /\ \A o \in Codes \ {c} : Current(d, o) => Current(Refresh(u, d, c), o)
<1>1. PICK d2 : d2 = Refresh(u, d, c)
  OBVIOUS
<1>2. PICK x \in Docs \cup {NoDoc} : x = Visible(Local(u, d, c))
  BY LocalType
<1>3. /\ d2 \in Devices /\ d2.listeners = d.listeners /\ d2.queue = d.queue
      /\ d2.user = d.user /\ d2.cache = d.cache /\ d2.acked = d.acked
      /\ \/ /\ d2 = d
            /\ d.listeners[c] = 0 \/ x = d.shown[c] \/ AwaitsServer(u, d, c)
         \/ /\ d.listeners[c] > 0
            /\ d2.shown = [d.shown EXCEPT ![c] = x]
            /\ d2.fresh = [d.fresh EXCEPT ![c] = 0]
            /\ d2.inbox = Called(d.inbox, d.listeners[c], Snapshot(c, x))
  BY <1>1, <1>2, RefreshParts
<1>4. \A o \in Codes : Quiet(d2, o) <=> Quiet(d, o)
  BY <1>3 DEF Quiet, Pending
<1>5. Quiet(d, c) => Local(u, d, c) = d.cache[c]
  <2>1. Pending(d) \in Seq(Writes) /\ d.cache[c] \in CachedDocs
    BY DeviceParts
  <2> QED
    BY <2>1, OverlayNone DEF Quiet, Local
<1>6. CASE /\ d2 = d
           /\ d.listeners[c] = 0 \/ x = d.shown[c] \/ AwaitsServer(u, d, c)
  <2>1. Current(d, c)
    BY <1>2, <1>5, <1>6 DEF Current, AwaitsServer
  <2> QED
    BY <1>1, <1>6, <2>1
<1>7. CASE d2.shown = [d.shown EXCEPT ![c] = x]
  <2>1. d2.shown[c] = x /\ \A o \in Codes \ {c} : d2.shown[o] = d.shown[o]
    BY <1>7, DeviceParts
  <2>2. ASSUME NEW o \in Codes \ {c}, Current(d, o)
        PROVE  Current(d2, o)
    BY <1>3, <1>4, <2>1, <2>2 DEF Current
  <2>3. Current(d2, c)
    BY <1>2, <1>3, <1>4, <1>5, <2>1 DEF Current
  <2> QED
    BY <1>1, <2>2, <2>3
<1> QED
  BY <1>3, <1>6, <1>7

LEMMA RefreshTracks ==
    ASSUME NEW u \in Users, NEW d \in Devices, NEW c \in Codes,
           \A o \in Codes : Tells(d, o), \A o \in Codes \ {c} : Current(d, o)
    PROVE  Tracks(Refresh(u, d, c)) /\ Keeps(d, Refresh(u, d, c))
<1>1. (\A o \in Codes : Tells(Refresh(u, d, c), o)) /\ Keeps(d, Refresh(u, d, c))
  BY RefreshTells
<1>2. /\ Current(Refresh(u, d, c), c)
      /\ \A o \in Codes \ {c} : Current(d, o) => Current(Refresh(u, d, c), o)
  BY RefreshCurrent
<1> QED
  BY <1>1, <1>2 DEF Tracks

\* Two devices that show and tell the same.
SameView(d, d2) ==
    /\ d2.link = d.link /\ d2.fresh = d.fresh /\ d2.listeners = d.listeners
    /\ d2.shown = d.shown /\ d2.inbox = d.inbox

LEMMA SameViewTells ==
    ASSUME NEW d, NEW d2, SameView(d, d2), \A o \in Codes : Tells(d, o)
    PROVE  /\ \A o \in Codes : Tells(d2, o)
           /\ \A d3 : Keeps(d2, d3) => Keeps(d, d3)
  BY DEF SameView, Tells, Keeps, News

LEMMA KeepsTransitive ==
    ASSUME NEW d, NEW d2, NEW d3, Keeps(d, d2), Keeps(d2, d3)
    PROVE  Keeps(d, d3)
  BY DEF Keeps

\* Issuing a write: the views of the other documents stay current.
LEMMA IssueTracks ==
    ASSUME NEW u \in Users, NEW d \in Devices, Tracks(d), NEW w \in Writes
    PROVE  Tracks(Issue(u, d, w)) /\ Keeps(d, Issue(u, d, w))
<1>1. w.code \in Codes
  BY WriteParts
<1>2. PICK n \in Int : n = NumberFor(w, Local(u, d, w.code))
  BY <1>1, LocalType, NumberForType
<1>3. PICK x \in Writes : x = [w EXCEPT !.num = n]
  BY DEF Writes
<1>4. x.code = w.code
  BY <1>3 DEF Writes
<1>5. PICK old \in Seq(Writes) : old = d.queue[d.user]
  BY DeviceParts
<1>6. PICK r : r = Append(old, x)
  OBVIOUS
<1>7. /\ r \in Seq(Writes) /\ Len(r) = Len(old) + 1
      /\ \A i \in 1 .. Len(old) : r[i] = old[i]
  BY <1>6, AppendProperties
<1>8. PICK q : q = [d.queue EXCEPT ![d.user] = r]
  OBVIOUS
<1>9. q \in [BOOLEAN -> Seq(Writes)] /\ q[d.user] = r
  BY <1>7, <1>8, DeviceParts
<1>10. PICK d2 : d2 = [d EXCEPT !.queue = q]
  OBVIOUS
<1>11. /\ d2 \in Devices /\ SameView(d, d2) /\ d2.queue = q /\ d2.user = d.user
       /\ d2.cache = d.cache /\ d2.acked = d.acked
  BY <1>9, <1>10 DEF Devices, SameView
<1>12. Issue(u, d, w) = Refresh(u, d2, w.code)
  BY <1>2, <1>3, <1>5, <1>6, <1>8, <1>10 DEF Issue
<1>13. Pending(d) = old /\ Pending(d2) = r
  BY <1>5, <1>9, <1>11 DEF Pending
<1>14. \A o \in Codes : Quiet(d2, o) => Quiet(d, o)
  <2>1. \A i \in DOMAIN old : i \in DOMAIN r /\ r[i] = old[i]
    BY <1>7
  <2> QED
    BY <1>13, <2>1 DEF Quiet
<1>15. \A o \in Codes : Current(d2, o)
  BY <1>11, <1>14 DEF Tracks, Current, SameView
<1>16. \A o \in Codes : Tells(d, o)
  BY DEF Tracks
<1>17. /\ \A o \in Codes : Tells(d2, o)
       /\ \A d3 : Keeps(d2, d3) => Keeps(d, d3)
  BY <1>11, <1>16, SameViewTells
<1>18. Tracks(Refresh(u, d2, w.code)) /\ Keeps(d2, Refresh(u, d2, w.code))
  BY <1>1, <1>11, <1>15, <1>17, RefreshTracks
<1> QED
  BY <1>12, <1>17, <1>18

\* A new listener of c gets a snapshot or waits for one.
LEMMA WatchTracks ==
    ASSUME NEW u \in Users, NEW d \in Devices, Tracks(d), NEW c \in Codes
    PROVE  /\ Tracks(Watch(u, d, c)) /\ Keeps(d, Watch(u, d, c))
           /\ News(Watch(u, d, c), c)
<1>1. /\ d.listeners \in [Codes -> Nat] /\ d.fresh \in [Codes -> Nat]
      /\ d.shown \in [Codes -> Docs \cup {NoDoc}] /\ d.inbox \in Seq(Events)
      /\ Pending(d) \in Seq(Writes) /\ d.cache[c] \in CachedDocs
  BY DeviceParts
<1>2. PICK x : x = IF d.listeners[c] = 0 THEN Visible(Local(u, d, c)) ELSE d.shown[c]
  OBVIOUS
<1>3. x \in Docs \cup {NoDoc}
  BY <1>1, <1>2, LocalType
<1>4. PICK heard \in BOOLEAN : heard = (x # NoDoc \/ d.link[c] # "connecting")
  OBVIOUS
<1>5. PICK n \in Nat : n = IF heard THEN 1 ELSE 0
  OBVIOUS
<1>6. PICK l : l = [d.listeners EXCEPT ![c] = d.listeners[c] + 1]
  OBVIOUS
<1>7. PICK v : v = [d.shown EXCEPT ![c] = x]
  OBVIOUS
<1>8. PICK f : f = [d.fresh EXCEPT ![c] = IF heard THEN @ ELSE @ + 1]
  OBVIOUS
<1>9. PICK i : i = Called(d.inbox, n, Snapshot(c, x))
  OBVIOUS
<1>10. PICK d2 : d2 = [d EXCEPT !.listeners = l, !.shown = v, !.fresh = f, !.inbox = i]
  OBVIOUS
<1>11. Watch(u, d, c) = d2
  BY <1>2, <1>4, <1>5, <1>6, <1>7, <1>8, <1>9, <1>10 DEF Watch
<1>12. /\ d2.listeners = l /\ d2.shown = v /\ d2.fresh = f /\ d2.inbox = i
       /\ d2.link = d.link /\ d2.queue = d.queue /\ d2.user = d.user
       /\ d2.cache = d.cache /\ d2.acked = d.acked
  BY <1>10 DEF Devices
<1>13. d2 \in Devices
  BY <1>11, WatchType
<1>14. /\ l[c] > 0 /\ v[c] = x /\ (~heard => f[c] > 0) /\ (heard => f[c] = d.fresh[c])
       /\ \A o \in Codes \ {c} : l[o] = d.listeners[o] /\ v[o] = d.shown[o] /\ f[o] = d.fresh[o]
  <2>1. d.listeners[c] \in Nat /\ d.fresh[c] \in Nat
    BY <1>1
  <2> QED
    BY <1>1, <1>6, <1>7, <1>8, <2>1
<1>15. /\ n = 0 => f[c] > 0
       /\ n = 0 => x = d.shown[c] \/ d.listeners[c] = 0
       /\ d.link[c] # "connecting" => heard
  <2>1. n = 0 => ~heard
    BY <1>5
  <2>2. d.link[c] # "connecting" => heard
    BY <1>4
  <2>3. x = d.shown[c] \/ d.listeners[c] = 0
    BY <1>2
  <2> QED
    BY <1>14, <2>1, <2>2, <2>3, Zenon
<1>16. \A o \in Codes : Tells(d, o)
  BY DEF Tracks
<1>17. (\A o \in Codes : Tells(d2, o)) /\ Keeps(d, d2)
  <2>1. d2.inbox = Called(d.inbox, n, Snapshot(c, d2.shown[c]))
    BY <1>9, <1>12, <1>14
  <2>2. d2.link[c] # "connecting" => d2.fresh[c] = 0
    BY <1>12, <1>14, <1>15, <1>16 DEF Tells
  <2> QED
    BY <1>12, <1>13, <1>14, <1>15, <1>16, <2>1, <2>2, ToldStep
<1>18. News(d2, c)
  <2>1. CASE n = 0
    BY <1>12, <1>15, <2>1 DEF News
  <2>2. CASE n > 0
    <3>1. Snapshot(c, x) \in Events /\ IsSnap(Snapshot(c, x), c)
      BY <1>3 DEF Snapshot, Events, IsSnap
    <3>2. SnapIn(Called(d.inbox, n, Snapshot(c, x)), c)
      BY <1>1, <2>2, <3>1, CalledSnap
    <3> QED
      BY <1>9, <1>12, <3>2 DEF News
  <2> QED
    BY <2>1, <2>2
<1>19. \A o \in Codes : Quiet(d2, o) <=> Quiet(d, o)
  BY <1>12 DEF Quiet, Pending
<1>20. ASSUME NEW o \in Codes \ {c}
       PROVE  Current(d2, o)
  <2>1. d2.listeners[o] = d.listeners[o] /\ d2.shown[o] = d.shown[o]
    BY <1>12, <1>14
  <2>2. Current(d, o)
    BY DEF Tracks
  <2> QED
    BY <1>12, <1>19, <2>1, <2>2 DEF Current
<1>21. Current(d2, c)
  <2>1. CASE d.listeners[c] = 0
    <3>1. Quiet(d, c) => Local(u, d, c) = d.cache[c]
      BY <1>1, OverlayNone DEF Quiet, Local
    <3> QED
      BY <1>2, <1>12, <1>14, <1>19, <2>1, <3>1 DEF Current
  <2>2. CASE d.listeners[c] # 0
    <3>1. d.listeners[c] > 0
      BY <1>1, <2>2
    <3> QED
      BY <1>2, <1>12, <1>14, <1>19, <2>2, <3>1 DEF Tracks, Current
  <2> QED
    BY <2>1, <2>2
<1> QED
  BY <1>11, <1>17, <1>18, <1>20, <1>21 DEF Tracks

\* Who waits for a first snapshot of c gets it.
LEMMA ReachTracks ==
    ASSUME NEW d \in Devices, Tracks(d), NEW c \in Codes, d.listeners[c] > 0,
           NEW k \in {"synced", "offline"}
    PROVE  Tracks(Reach(d, c, k)) /\ Keeps(d, Reach(d, c, k))
<1>1. PICK l : l = [d.link EXCEPT ![c] = k]
  OBVIOUS
<1>2. PICK f : f = [d.fresh EXCEPT ![c] = 0]
  OBVIOUS
<1>3. PICK n \in Nat : n = d.fresh[c]
  BY DeviceParts
<1>4. PICK i : i = Called(d.inbox, n, Snapshot(c, d.shown[c]))
  OBVIOUS
<1>5. PICK d2 : d2 = [d EXCEPT !.link = l, !.fresh = f, !.inbox = i]
  OBVIOUS
<1>6. Reach(d, c, k) = d2
  BY <1>1, <1>2, <1>3, <1>4, <1>5 DEF Reach
<1>7. /\ d2.link = l /\ d2.fresh = f /\ d2.inbox = i
      /\ d2.listeners = d.listeners /\ d2.shown = d.shown /\ d2.queue = d.queue
      /\ d2.user = d.user /\ d2.cache = d.cache /\ d2.acked = d.acked
  BY <1>5 DEF Devices
<1>8. d2 \in Devices
  BY <1>6, ReachType DEF Links
<1>9. f[c] = 0 /\ \A o \in Codes \ {c} : l[o] = d.link[o] /\ f[o] = d.fresh[o]
  BY <1>1, <1>2, DeviceParts
<1>10. \A o \in Codes : Tells(d, o)
  BY DEF Tracks
<1>11. (\A o \in Codes : Tells(d2, o)) /\ Keeps(d, d2)
  <2>1. d2.inbox = Called(d.inbox, n, Snapshot(c, d2.shown[c]))
    BY <1>4, <1>7
  <2> QED
    BY <1>3, <1>7, <1>8, <1>9, <1>10, <2>1, ToldStep
<1>12. \A o \in Codes : Current(d2, o)
  BY <1>7 DEF Tracks, Current, Quiet, Pending
<1> QED
  BY <1>6, <1>11, <1>12 DEF Tracks

\* Another user: the views are computed again until they are all current.
LEMMA SwitchedTracks ==
    ASSUME NEW u \in Users, NEW d \in Devices, Tracks(d), NEW b \in BOOLEAN,
           NEW d2 \in Switched(u, d, b)
    PROVE  Tracks(d2) /\ Keeps(d, d2)
<1>0. Keeps(d, d)
  BY DEF Keeps
<1> SUFFICES ASSUME d.user # b
             PROVE  Tracks(d2) /\ Keeps(d, d2)
  BY <1>0 DEF Switched
<1>1. PICK c \in Codes, o \in Codes : d2 = Refresh(u, Refresh(u, [d EXCEPT !.user = b], c), o)
  BY DEF Switched
<1>2. PICK turned : turned = [d EXCEPT !.user = b]
  OBVIOUS
<1>3. turned \in Devices /\ SameView(d, turned)
  BY <1>2 DEF Devices, SameView
<1>4. PICK once \in Devices : once = Refresh(u, turned, c)
  BY <1>3, RefreshType
<1>5. d2 = Refresh(u, once, o)
  BY <1>1, <1>2, <1>4
<1>6. \A x \in Codes : Tells(d, x)
  BY DEF Tracks
<1>7. (\A x \in Codes : Tells(turned, x)) /\ (\A d3 : Keeps(turned, d3) => Keeps(d, d3))
  BY <1>3, <1>6, SameViewTells
<1>8. (\A x \in Codes : Tells(once, x)) /\ Keeps(turned, once)
  BY <1>3, <1>4, <1>7, RefreshTells
<1>9. (\A x \in Codes : Tells(d2, x)) /\ Keeps(once, d2)
  BY <1>5, <1>8, RefreshTells
<1>10. d2 \in Devices
  BY <1>5, RefreshType
<1>11. \A x \in Codes : Refresh(u, d2, x) = d2
  BY DEF Switched
<1>12. ASSUME NEW x \in Codes
       PROVE  Current(d2, x)
  <2>1. Current(Refresh(u, d2, x), x)
    BY <1>10, RefreshCurrent
  <2> QED
    BY <1>11, <2>1
<1> QED
  BY <1>7, <1>8, <1>9, <1>12, KeepsTransitive DEF Tracks

\* A device that was stopped shows nothing.
LEMMA OnDiskTracks ==
    ASSUME NEW d \in Devices, NEW signedIn \in BOOLEAN
    PROVE  Tracks(OnDisk(d, signedIn))
<1>1. PICK q, k, a : OnDisk(d, signedIn) = [NewDevice EXCEPT !.user = signedIn, !.queue = q,
                                                             !.cache = k, !.acked = a]
  BY DEF OnDisk
<1>2. /\ OnDisk(d, signedIn).listeners = [c \in Codes |-> 0] /\ OnDisk(d, signedIn).inbox = <<>>
      /\ OnDisk(d, signedIn).link = [c \in Codes |-> "connecting"]
  BY <1>1 DEF NewDevice
<1>3. \A c \in Codes : Tells(OnDisk(d, signedIn), c)
  BY <1>2 DEF Tells, SnapIn, Told
<1>4. \A c \in Codes : Current(OnDisk(d, signedIn), c)
  BY <1>2 DEF Current
<1> QED
  BY <1>3, <1>4 DEF Tracks

\* Other answers to the same writes change no view.
LEMMA AnsweredTracks ==
    ASSUME NEW d \in Devices, NEW d2 \in Devices, Tracks(d), SameView(d, d2),
           d2.cache = d.cache, d2.acked = d.acked,
           \A o \in Codes : Quiet(d2, o) => Quiet(d, o)
    PROVE  Tracks(d2) /\ Keeps(d, d2)
<1>1. \A o \in Codes : Tells(d, o)
  BY DEF Tracks
<1>2. \A o \in Codes : Tells(d2, o)
  BY <1>1, SameViewTells
<1>3. \A o \in Codes : Current(d2, o)
  BY DEF Tracks, Current, SameView
<1>4. Keeps(d, d2)
  BY DEF Keeps, News, SameView
<1> QED
  BY <1>2, <1>3, <1>4 DEF Tracks

\* Running a callback.
LEMMA HandledTracks ==
    ASSUME NEW d \in Devices, Tracks(d), d.inbox # <<>>
    PROVE  /\ Handled(d) \in Devices /\ Tracks(Handled(d))
           /\ Handled(d).listeners = d.listeners /\ Handled(d).shown = d.shown
           /\ Handled(d).inbox = Tail(d.inbox) /\ Handled(d).fresh = d.fresh
<1>1. d.inbox \in Seq(Events)
  BY DeviceParts
<1>2. PICK i \in Seq(Events) : i = Tail(d.inbox)
  BY <1>1, HeadTailProperties, Zenon
<1>3. PICK d2 : d2 = [d EXCEPT !.inbox = i]
  OBVIOUS
<1>4. Handled(d) = d2
  BY <1>2, <1>3 DEF Handled
<1>5. /\ d2 \in Devices /\ d2.inbox = i
      /\ d2.listeners = d.listeners /\ d2.shown = d.shown /\ d2.fresh = d.fresh
      /\ d2.link = d.link /\ d2.queue = d.queue /\ d2.user = d.user
      /\ d2.cache = d.cache /\ d2.acked = d.acked
  BY <1>3 DEF Devices
<1>6. ASSUME NEW c \in Codes
      PROVE  Tells(d2, c)
  <2>1. Tells(d, c)
    BY DEF Tracks
  <2>2. SnapIn(i, c) => SnapIn(d.inbox, c)
    BY <1>1, <1>2, TailTold
  <2>3. Told(i, c, d.shown[c])
    BY <1>1, <1>2, <2>1, TailTold DEF Tells
  <2> QED
    BY <1>5, <2>1, <2>2, <2>3 DEF Tells
<1>7. \A c \in Codes : Current(d2, c)
  BY <1>5 DEF Tracks, Current, Quiet, Pending
<1> QED
  BY <1>2, <1>4, <1>5, <1>6, <1>7 DEF Tracks

\* An answer from the server: the oldest write leaves its queue, its document is
\* shown again.
LEMMA AcknowledgeTracks ==
    ASSUME NEW u \in Users, NEW d \in Devices, Tracks(d), Pending(d) # <<>>
    PROVE  Tracks(Acknowledge(u, d)) /\ Keeps(d, Acknowledge(u, d))
<1>1. PICK old \in Seq(Writes) : old = d.queue[d.user]
  BY DeviceParts
<1>2. Pending(d) = old /\ old # <<>>
  BY <1>1 DEF Pending
<1>3. /\ Head(old) \in Writes /\ Tail(old) \in Seq(Writes)
      /\ Len(Tail(old)) = Len(old) - 1
      /\ \A i \in 1 .. Len(Tail(old)) : Tail(old)[i] = old[i + 1]
  BY <1>2, HeadTailProperties, Zenon
<1>4. PICK w \in Writes : w = Head(old)
  BY <1>3
<1>5. PICK r \in Seq(Writes) : r = Tail(old)
  BY <1>3
<1>6. PICK c \in Codes : c = w.code
  BY WriteParts
<1>7. PICK new \in BOOLEAN : new = (w.reply = "ok")
  OBVIOUS
<1>8. PICK x : x = IF ~Replaces(w) /\ Missing(d.cache[c]) THEN Unknown
                   ELSE Apply(u, w, w.counter, d.cache[c])
  OBVIOUS
<1>9. x \in CachedDocs
  <2>1. d.cache[c] \in CachedDocs /\ w.counter \in Int
    BY DeviceParts, WriteParts
  <2>2. Apply(u, w, w.counter, d.cache[c]) \in CachedDocs
    BY <2>1, ApplyType
  <2> QED
    BY <1>8, <2>2 DEF CachedDocs
<1>10. PICK q : q = [d.queue EXCEPT ![d.user] = r]
  OBVIOUS
<1>11. PICK k : k = [d.cache EXCEPT ![c] = IF new THEN x ELSE @]
  OBVIOUS
<1>12. PICK a : a = [d.acked EXCEPT ![c] = @ \/ new]
  OBVIOUS
<1>13. q \in [BOOLEAN -> Seq(Writes)] /\ q[d.user] = r
  BY <1>10, DeviceParts
<1>14. k \in [Codes -> CachedDocs] /\ \A o \in Codes \ {c} : k[o] = d.cache[o]
  BY <1>9, <1>11, DeviceParts
<1>15. a \in [Codes -> BOOLEAN] /\ \A o \in Codes \ {c} : a[o] = d.acked[o]
  BY <1>12, DeviceParts
<1>16. PICK i : i = Called(d.inbox, IF Completes(w) THEN 1 ELSE 0, Completion(w))
  OBVIOUS
<1>17. /\ i \in Seq(Events)
       /\ \A o \in Codes : /\ SnapIn(i, o) <=> SnapIn(d.inbox, o)
                           /\ \A y : Told(d.inbox, o, y) => Told(i, o, y)
  <2>1. d.inbox \in Seq(Events)
    BY DeviceParts
  <2>2. CASE Completes(w)
    <3>1. Completion(w) \in Events /\ \A o \in Codes : ~IsSnap(Completion(w), o)
      BY <2>2 DEF Completes, Completion, Events, Writes, IsSnap
    <3>2. i = Called(d.inbox, 1, Completion(w))
      BY <1>16, <2>2
    <3>3. i \in Seq(Events)
      BY <2>1, <3>1, <3>2, CalledType
    <3>4. \A o \in Codes : /\ SnapIn(i, o) <=> SnapIn(d.inbox, o)
                           /\ \A y : Told(d.inbox, o, y) => Told(i, o, y)
      BY <2>1, <3>1, <3>2, CalledOther
    <3> QED
      BY <3>3, <3>4
  <2>3. CASE ~Completes(w)
    <3>1. i = d.inbox \o [j \in 1 .. 0 |-> Completion(w)]
      BY <1>16, <2>3 DEF Called
    <3>2. [j \in 1 .. 0 |-> Completion(w)] = <<>>
      OBVIOUS
    <3>3. i = d.inbox
      BY <2>1, <3>1, <3>2, ConcatEmptySeq
    <3> QED
      BY <2>1, <3>3
  <2> QED
    BY <2>2, <2>3
<1>18. PICK d2 : d2 = [d EXCEPT !.queue = q, !.cache = k, !.acked = a, !.inbox = i]
  OBVIOUS
<1>19. /\ d2 \in Devices /\ d2.queue = q /\ d2.cache = k /\ d2.acked = a /\ d2.inbox = i
       /\ d2.listeners = d.listeners /\ d2.shown = d.shown /\ d2.fresh = d.fresh
       /\ d2.link = d.link /\ d2.user = d.user
  BY <1>13, <1>14, <1>15, <1>17, <1>18 DEF Devices, CachedDocs
<1>20. Acknowledge(u, d) = Refresh(u, d2, c)
  <2>1. w = Head(Pending(d)) /\ r = Tail(d.queue[d.user])
    BY <1>1, <1>2, <1>4, <1>5
  <2> QED
    BY <1>6, <1>7, <1>8, <1>10, <1>11, <1>12, <1>16, <1>18, <2>1 DEF Acknowledge
<1>21. \A o \in Codes : Tells(d2, o)
  BY <1>17, <1>19 DEF Tracks, Tells
<1>22. Keeps(d, d2)
  BY <1>17, <1>19 DEF Keeps, News
<1>23. \A o \in Codes \ {c} : Quiet(d2, o) => Quiet(d, o)
  <2> SUFFICES ASSUME NEW o \in Codes \ {c}, Quiet(d2, o), NEW j \in DOMAIN old
               PROVE  old[j].code # o
    BY <1>2 DEF Quiet
  <2>1. Pending(d2) = r
    BY <1>13, <1>19 DEF Pending
  <2>2. /\ Len(old) \in Nat /\ DOMAIN old = 1 .. Len(old) /\ DOMAIN r = 1 .. Len(r)
        /\ Head(old) = old[1] /\ Len(r) = Len(old) - 1
    BY <1>3, <1>5
  <2>3. CASE j = 1
    BY <1>4, <1>6, <2>2, <2>3
  <2>4. CASE j # 1
    <3>1. j - 1 \in DOMAIN r /\ (j - 1) + 1 = j
      BY <2>2, <2>4
    <3>2. r[j - 1] = old[j]
      BY <1>3, <1>5, <2>2, <3>1
    <3> QED
      BY <2>1, <3>1, <3>2 DEF Quiet
  <2> QED
    BY <2>3, <2>4
<1>24. ASSUME NEW o \in Codes \ {c}
       PROVE  Current(d2, o)
  <2>1. Current(d, o) /\ d2.cache[o] = d.cache[o] /\ d2.acked[o] = d.acked[o]
    BY <1>14, <1>15, <1>19 DEF Tracks
  <2> QED
    BY <1>19, <1>23, <2>1 DEF Current
<1>25. Tracks(Refresh(u, d2, c)) /\ Keeps(d2, Refresh(u, d2, c))
  BY <1>19, <1>21, <1>24, RefreshTracks
<1> QED
  BY <1>20, <1>22, <1>25, KeepsTransitive

\* A document from the server.
LEMMA ReceiveTracks ==
    ASSUME NEW u \in Users, NEW d \in Devices, Tracks(d), NEW c \in Codes,
           d.listeners[c] > 0, NEW remote \in Docs \cup {NoDoc}
    PROVE  Tracks(Receive(u, d, c, remote)) /\ Keeps(d, Receive(u, d, c, remote))
<1> DEFINE Seen(w) == IF w.code = c /\ w.reply = "ok" THEN [w EXCEPT !.reply = "seen"] ELSE w
<1>1. PICK q : q = [b \in BOOLEAN |-> [i \in DOMAIN d.queue[b] |-> Seen(d.queue[b][i])]]
  OBVIOUS
<1>2. \A w \in Writes : Seen(w) \in Writes /\ Seen(w).code = w.code
  BY DEF Writes
<1> HIDE DEF Seen
<1>3. ASSUME NEW b \in BOOLEAN
      PROVE  /\ q[b] \in Seq(Writes) /\ DOMAIN q[b] = DOMAIN d.queue[b]
             /\ \A i \in DOMAIN d.queue[b] : q[b][i].code = d.queue[b][i].code
  <2>1. PICK old \in Seq(Writes) : old = d.queue[b]
    BY DeviceParts
  <2>2. /\ DOMAIN old = 1 .. Len(old) /\ Len(old) \in Nat
        /\ \A i \in 1 .. Len(old) : old[i] \in Writes
    OBVIOUS
  <2>3. [i \in 1 .. Len(old) |-> Seen(old[i])] \in [1 .. Len(old) -> Writes]
    BY <1>2, <2>2
  <2>4. q[b] = [i \in 1 .. Len(old) |-> Seen(old[i])]
    BY <1>1, <2>1, <2>2, Zenon
  <2>5. q[b] \in Seq(Writes) /\ DOMAIN q[b] = 1 .. Len(old)
    BY <2>2, <2>3, <2>4, SeqOf
  <2>6. \A i \in 1 .. Len(old) : q[b][i].code = old[i].code
    BY <1>2, <2>2, <2>4
  <2> QED
    BY <2>1, <2>2, <2>5, <2>6
<1>4. q \in [BOOLEAN -> Seq(Writes)]
  BY <1>1, <1>3
<1>5. PICK k : k = [d.cache EXCEPT ![c] = remote]
  OBVIOUS
<1>6. PICK a : a = [d.acked EXCEPT ![c] = FALSE]
  OBVIOUS
<1>7. /\ k \in [Codes -> CachedDocs] /\ a \in [Codes -> BOOLEAN]
      /\ \A o \in Codes \ {c} : k[o] = d.cache[o] /\ a[o] = d.acked[o]
  BY <1>5, <1>6, DeviceParts DEF CachedDocs
<1>8. PICK known : known = [d EXCEPT !.cache = k, !.acked = a, !.queue = q]
  OBVIOUS
<1>9. /\ known \in Devices /\ SameView(d, known) /\ known.cache = k /\ known.acked = a
      /\ known.queue = q /\ known.user = d.user /\ known.listeners = d.listeners
  BY <1>4, <1>7, <1>8 DEF Devices, CachedDocs, SameView
<1>10. Receive(u, d, c, remote) = Reach(Refresh(u, known, c), c, "synced")
  BY <1>1, <1>5, <1>6, <1>8, Zenon DEF Receive, Seen
<1>11. \A o \in Codes : Tells(d, o)
  BY DEF Tracks
<1>12. /\ \A o \in Codes : Tells(known, o)
       /\ \A d3 : Keeps(known, d3) => Keeps(d, d3)
  BY <1>9, <1>11, SameViewTells
<1>13. \A o \in Codes : Quiet(known, o) => Quiet(d, o)
  <2>1. Pending(d) = d.queue[d.user] /\ Pending(known) = q[d.user] /\ d.user \in BOOLEAN
    BY <1>9, DeviceParts DEF Pending
  <2> QED
    BY <1>3, <2>1 DEF Quiet
<1>14. ASSUME NEW o \in Codes \ {c}
       PROVE  Current(known, o)
  <2>1. Current(d, o) /\ known.cache[o] = d.cache[o] /\ known.acked[o] = d.acked[o]
    BY <1>7, <1>9 DEF Tracks
  <2> QED
    BY <1>9, <1>13, <2>1 DEF Current, SameView
<1>15. PICK d2 \in Devices : d2 = Refresh(u, known, c)
  BY <1>9, RefreshType
<1>16. Tracks(d2) /\ Keeps(known, d2) /\ d2.listeners = d.listeners
  BY <1>9, <1>12, <1>14, <1>15, RefreshTracks, RefreshType
<1>17. Tracks(Reach(d2, c, "synced")) /\ Keeps(d2, Reach(d2, c, "synced"))
  BY <1>16, ReachTracks
<1> QED
  BY <1>10, <1>12, <1>15, <1>16, <1>17, KeepsTransitive

------------------------------------------------------------------------------
(* Devices and stores *)

\* What keeps the device's view keeps the store informed; no listener goes away.
LEMMA KeepsInformed ==
    ASSUME NEW d, NEW d2, NEW s, Informed(d, s), Keeps(d, d2),
           \A c \in Codes : d2.listeners[c] = 0 => d.listeners[c] = 0
    PROVE  Informed(d2, s)
<1> SUFFICES ASSUME NEW c \in Codes, s.sessionCode = c,
                    \A o \in Codes \ {c} : d2.listeners[o] = 0
             PROVE  News(d2, c) \/ (d2.shown[c] # NoDoc /\ Mirrors(s, d2.shown[c]))
  BY DEF Informed
<1>1. News(d, c) \/ (d.shown[c] # NoDoc /\ Mirrors(s, d.shown[c]))
  BY DEF Informed
<1>2. News(d2, c) \/ (~News(d, c) /\ d2.shown[c] = d.shown[c])
  BY DEF Keeps
<1> QED
  BY <1>1, <1>2

LEMMA OutOfSessionInformed ==
    ASSUME NEW d, NEW s, s.sessionCode = NoCode
    PROVE  Informed(d, s)
  BY SessionStoreAssumption DEF Informed

\* Fields of the store that do not come from snapshots.
LEMMA SameStoreInformed ==
    ASSUME NEW d, NEW s, NEW s2, Informed(d, s),
           s2.sessionCode = s.sessionCode, s2.numParticipants = s.numParticipants,
           s2.sessionLive = s.sessionLive, s2.result = s.result, s2.finished = s.finished,
           s2.restaurantList = s.restaurantList, s2.likes = s.likes, s2.time = s.time
    PROVE  Informed(d, s2)
  BY DEF Informed, Mirrors

\* A device and a store as the invariant wants them.
Follows(d, s) == d \in Devices /\ Tracks(d) /\ Informed(d, s)

LEMMA MLocalStep ==
    ASSUME IInv, MInv, NEW u \in Users, NEW d, NEW s, Follows(d, s),
           dev' = [dev EXCEPT ![u] = d], store' = [store EXCEPT ![u] = s]
    PROVE  MInv'
<1> SUFFICES ASSUME NEW v \in Users
             PROVE  Tracks(dev'[v]) /\ Informed(dev'[v], store'[v])
  BY DEF MInv
<1>1. CASE v = u
  <2>1. dev'[v] = d /\ store'[v] = s
    BY <1>1 DEF IInv, TypeOK
  <2> QED
    BY <2>1 DEF Follows
<1>2. CASE v # u
  <2>1. dev'[v] = dev[v] /\ store'[v] = store[v]
    BY <1>2 DEF IInv, TypeOK
  <2> QED
    BY <2>1 DEF MInv
<1> QED
  BY <1>1, <1>2

LEMMA IssueFollows ==
    ASSUME NEW u \in Users, NEW d, NEW s, Follows(d, s), NEW w \in Writes
    PROVE  Follows(Issue(u, d, w), s)
<1>1. /\ Issue(u, d, w) \in Devices /\ Issue(u, d, w).listeners = d.listeners
      /\ Tracks(Issue(u, d, w)) /\ Keeps(d, Issue(u, d, w))
  BY IssueType, IssueTracks DEF Follows
<1>2. Informed(Issue(u, d, w), s)
  BY <1>1, KeepsInformed DEF Follows
<1> QED
  BY <1>1, <1>2 DEF Follows

\* A device that starts listening to the store's session, or once more to it.
LEMMA WatchFollows ==
    ASSUME NEW u \in Users, NEW d \in Devices, Tracks(d), NEW s, NEW c \in Codes,
           s.sessionCode = c
    PROVE  Follows(Watch(u, d, c), s)
<1>1. Watch(u, d, c) \in Devices /\ Tracks(Watch(u, d, c)) /\ News(Watch(u, d, c), c)
  BY WatchType, WatchTracks
<1> QED
  BY <1>1 DEF Follows, Informed

LEMMA TerminateMirrors ==
    ASSUME IInv, MInv, NEW u \in Users, NEW d \in Devices, Terminate(u, d)
    PROVE  MInv'
<1>0. store[u].session \in BOOLEAN
  BY DEF IInv, TypeOK, Stores
<1>1. OnDisk(d, store[u].session) \in Devices /\ Tracks(OnDisk(d, store[u].session))
  BY <1>0, OnDiskType, OnDiskTracks
<1>2. NewStore(store[u].session).sessionCode = NoCode
  BY DEF NewStore
<1>3. Follows(OnDisk(d, store[u].session), NewStore(store[u].session))
  BY <1>1, <1>2, OutOfSessionInformed DEF Follows
<1> QED
  BY <1>3, MLocalStep DEF Terminate

\* Navigation and authentication preserve the invariant.
LEMMA NavigationMirrors ==
    ASSUME IInv, MInv, NEW u \in Users,
           \/ OpenCreate(u) \/ OpenJoin(u) \/ LeaveCreateScreen(u) \/ LeaveJoinScreen(u)
           \/ SignOut(u) \/ HearSignOut(u) \/ SignIn(u) \/ Quit(u) \/ Launch(u)
    PROVE  MInv'
<1>1. TypeOK
  BY DEF IInv
<1>2. /\ dev = [dev EXCEPT ![u] = dev[u]] /\ store = [store EXCEPT ![u] = store[u]]
      /\ dev[u] \in Devices /\ store[u] \in Stores
  BY <1>1 DEF TypeOK
<1>3. Follows(dev[u], store[u])
  BY <1>2 DEF MInv, Follows
<1>4. CASE OpenCreate(u)
  <2>1. PICK s : s = [store[u] EXCEPT !.createdSession = TRUE]
    OBVIOUS
  <2>2. Informed(dev[u], s)
    <3>1. /\ s.sessionCode = store[u].sessionCode /\ s.numParticipants = store[u].numParticipants
          /\ s.sessionLive = store[u].sessionLive /\ s.result = store[u].result
          /\ s.finished = store[u].finished /\ s.restaurantList = store[u].restaurantList
          /\ s.likes = store[u].likes /\ s.time = store[u].time
      BY <1>2, <2>1 DEF Stores
    <3> QED
      BY <1>3, <3>1, SameStoreInformed DEF Follows
  <2>3. dev' = [dev EXCEPT ![u] = dev[u]] /\ store' = [store EXCEPT ![u] = s]
    BY <1>1, <1>2, <1>4, <2>1 DEF OpenCreate
  <2> QED
    BY <1>3, <2>2, <2>3, MLocalStep DEF Follows
<1>5. CASE OpenJoin(u) \/ Launch(u)
  BY <1>2, <1>3, <1>5, MLocalStep DEF OpenJoin, Launch
<1>6. CASE LeaveCreateScreen(u)
  <2>1. PICK d : d = IF ~store[u].sessionLive /\ store[u].sessionCode # NoCode
                     THEN Issue(u, dev[u], Write("delete", store[u].sessionCode))
                     ELSE dev[u]
    OBVIOUS
  <2>2. Follows(d, store[u])
    <3>1. store[u].sessionCode # NoCode => Write("delete", store[u].sessionCode) \in Writes
      BY <1>2, WriteType DEF Stores, Ops
    <3> QED
      BY <1>3, <2>1, <3>1, IssueFollows
  <2>3. dev' = [dev EXCEPT ![u] = d] /\ store' = [store EXCEPT ![u] = store[u]]
    BY <1>2, <1>6, <2>1 DEF LeaveCreateScreen
  <2> QED
    BY <2>2, <2>3, MLocalStep
<1>7. CASE LeaveJoinScreen(u)
  <2>1. CASE Terminate(u, dev[u])
    BY <1>2, <2>1, TerminateMirrors
  <2>2. CASE ~Terminate(u, dev[u])
    <3>1. PICK d : d = IF store[u].sessionCode # NoCode
                       THEN Issue(u, dev[u], Write("leave", store[u].sessionCode))
                       ELSE dev[u]
      OBVIOUS
    <3>2. Follows(d, store[u])
      <4>1. store[u].sessionCode # NoCode => Write("leave", store[u].sessionCode) \in Writes
        BY <1>2, WriteType DEF Stores, Ops
      <4> QED
        BY <1>3, <3>1, <4>1, IssueFollows
    <3>3. dev' = [dev EXCEPT ![u] = d] /\ store' = [store EXCEPT ![u] = store[u]]
      BY <1>2, <1>7, <2>2, <3>1 DEF LeaveJoinScreen
    <3> QED
      BY <3>2, <3>3, MLocalStep
  <2> QED
    BY <2>1, <2>2
<1>8. ASSUME NEW b \in BOOLEAN, NEW cs \in BOOLEAN, NEW d \in Switched(u, dev[u], b), NEW s,
             s = [store[u] EXCEPT !.session = b, !.createdSession = cs]
      PROVE  Follows(d, s)
  <2>1. d \in Devices /\ d.listeners = dev[u].listeners /\ Tracks(d) /\ Keeps(dev[u], d)
    BY <1>2, <1>3, SwitchedType, SwitchedTracks DEF Follows
  <2>2. Informed(d, store[u])
    BY <1>3, <2>1, KeepsInformed DEF Follows
  <2>3. /\ s.sessionCode = store[u].sessionCode /\ s.numParticipants = store[u].numParticipants
        /\ s.sessionLive = store[u].sessionLive /\ s.result = store[u].result
        /\ s.finished = store[u].finished /\ s.restaurantList = store[u].restaurantList
        /\ s.likes = store[u].likes /\ s.time = store[u].time
    BY <1>2, <1>8 DEF Stores
  <2> QED
    BY <2>1, <2>2, <2>3, SameStoreInformed DEF Follows
<1>9. CASE SignOut(u)
  <2>1. PICK s : s = [store[u] EXCEPT !.session = FALSE]
    OBVIOUS
  <2>2. Informed(dev[u], s)
    <3>1. /\ s.sessionCode = store[u].sessionCode /\ s.numParticipants = store[u].numParticipants
          /\ s.sessionLive = store[u].sessionLive /\ s.result = store[u].result
          /\ s.finished = store[u].finished /\ s.restaurantList = store[u].restaurantList
          /\ s.likes = store[u].likes /\ s.time = store[u].time
      BY <1>2, <2>1 DEF Stores
    <3> QED
      BY <1>3, <3>1, SameStoreInformed DEF Follows
  <2>3. dev' = [dev EXCEPT ![u] = dev[u]] /\ store' = [store EXCEPT ![u] = s]
    BY <1>1, <1>2, <1>9, <2>1 DEF SignOut
  <2> QED
    BY <1>3, <2>2, <2>3, MLocalStep DEF Follows
<1>12. CASE HearSignOut(u)
  <2>1. PICK b \in BOOLEAN : b = FALSE
    OBVIOUS
  <2>2. PICK d \in Switched(u, dev[u], b) : dev' = [dev EXCEPT ![u] = d]
    BY <1>12, <2>1 DEF HearSignOut
  <2>3. d \in Devices /\ d.listeners = dev[u].listeners /\ Tracks(d) /\ Keeps(dev[u], d)
    BY <1>2, <1>3, SwitchedType, SwitchedTracks DEF Follows
  <2>4. Follows(d, store[u])
    BY <1>3, <2>3, KeepsInformed DEF Follows
  <2>5. store' = [store EXCEPT ![u] = store[u]]
    BY <1>2, <1>12 DEF HearSignOut
  <2> QED
    BY <2>2, <2>4, <2>5, MLocalStep
<1>10. CASE SignIn(u)
  <2>1. PICK b \in BOOLEAN : b = TRUE
    OBVIOUS
  <2>2. PICK cs \in BOOLEAN : cs = FALSE
    OBVIOUS
  <2>3. PICK s : s = [store[u] EXCEPT !.session = b, !.createdSession = cs]
    OBVIOUS
  <2>4. s = [store[u] EXCEPT !.session = TRUE, !.createdSession = FALSE]
    BY <2>1, <2>2, <2>3
  <2>5. PICK d \in Switched(u, dev[u], TRUE) :
            dev' = [dev EXCEPT ![u] = d] /\ store' = [store EXCEPT ![u] = s]
    BY <1>10, <2>4 DEF SignIn, Do
  <2>6. d \in Switched(u, dev[u], b)
    BY <2>1
  <2>7. Follows(d, s)
    BY <1>8, <2>3, <2>6
  <2> QED
    BY <2>5, <2>7, MLocalStep
<1>11. CASE Quit(u)
  BY <1>2, <1>11, TerminateMirrors DEF Quit
<1> QED
  BY <1>4, <1>5, <1>6, <1>7, <1>9, <1>10, <1>11, <1>12

\* The operations of a session preserve the invariant.
LEMMA OperationMirrors ==
    ASSUME IInv, MInv, NEW u \in Users,
           \/ \E c \in Codes : CreateSession(u, c)
           \/ \E c \in Codes : JoinSession(u, c)
           \/ \E t \in TimeLimits, r \in Radii : Start(u, t, r)
           \/ ReceiveRestaurants(u) \/ FetchFails(u)
           \/ \E r \in Restaurants : LikeRestaurant(u, r)
           \/ EndSession(u)
    PROVE  MInv'
<1>1. TypeOK
  BY DEF IInv
<1>2. /\ dev = [dev EXCEPT ![u] = dev[u]] /\ store = [store EXCEPT ![u] = store[u]]
      /\ dev[u] \in Devices /\ store[u] \in Stores
  BY <1>1 DEF TypeOK
<1>3. Follows(dev[u], store[u])
  BY <1>2 DEF MInv, Follows
<1>4. store[u].sessionCode # NoCode => store[u].sessionCode \in Codes
  BY <1>2 DEF Stores
<1>5. ASSUME NEW c \in Codes, CreateSession(u, c) PROVE MInv'
  <2>1. PICK d : d = Issue(u, dev[u], Write("create", c))
    OBVIOUS
  <2>2. Follows(d, store[u])
    BY <1>3, <2>1, IssueFollows, WriteType DEF Ops
  <2>3. PICK s : s = [store[u] EXCEPT !.sessionCode = c]
    OBVIOUS
  <2>4. s.sessionCode = c
    BY <1>2, <2>3 DEF Stores
  <2>5. Follows(Watch(u, d, c), s)
    BY <2>2, <2>4, WatchFollows DEF Follows
  <2>6. dev' = [dev EXCEPT ![u] = Watch(u, d, c)] /\ store' = [store EXCEPT ![u] = s]
    BY <1>5, <2>1, <2>3 DEF CreateSession, Do
  <2> QED
    BY <2>5, <2>6, MLocalStep
<1>6. ASSUME NEW c \in Codes, JoinSession(u, c) PROVE MInv'
  <2>1. PICK d : d = Issue(u, dev[u], Write("join", c))
    OBVIOUS
  <2>2. Follows(d, store[u])
    BY <1>3, <2>1, IssueFollows, WriteType DEF Ops
  <2>3. dev' = [dev EXCEPT ![u] = d] /\ store' = [store EXCEPT ![u] = store[u]]
    BY <1>2, <1>6, <2>1 DEF JoinSession
  <2> QED
    BY <2>2, <2>3, MLocalStep
<1>7. ASSUME NEW t \in TimeLimits, NEW r \in Radii, Start(u, t, r) PROVE MInv'
  <2>1. PICK c \in Codes : c = store[u].sessionCode
    BY <1>4, <1>7 DEF Start
  <2>2. t \in Int /\ r \in Int
    BY FirestoreAssumption
  <2>3. /\ [Write("time", c) EXCEPT !.num = t] \in Writes
        /\ [Write("radius", c) EXCEPT !.num = r] \in Writes
        /\ Write("start", c) \in Writes
    BY <2>2, WriteType DEF Ops
  <2>4. PICK d1 : d1 = Issue(u, dev[u], [Write("time", c) EXCEPT !.num = t])
    OBVIOUS
  <2>5. PICK d2 : d2 = Issue(u, d1, [Write("radius", c) EXCEPT !.num = r])
    OBVIOUS
  <2>6. PICK d3 : d3 = Issue(u, d2, Write("start", c))
    OBVIOUS
  <2>7. Follows(d1, store[u])
    BY <1>3, <2>3, <2>4, IssueFollows
  <2>8. Follows(d2, store[u])
    BY <2>3, <2>5, <2>7, IssueFollows
  <2>9. Follows(d3, store[u])
    BY <2>3, <2>6, <2>8, IssueFollows
  <2>10. Follows(Watch(u, d3, c), store[u])
    BY <2>1, <2>9, WatchFollows DEF Follows
  <2>11. /\ dev' = [dev EXCEPT ![u] = Watch(u, d3, c)]
         /\ store' = [store EXCEPT ![u] = store[u]]
    BY <1>2, <1>7, <2>1, <2>4, <2>5, <2>6 DEF Start
  <2> QED
    BY <2>10, <2>11, MLocalStep
<1>8. CASE ReceiveRestaurants(u)
  <2>1. CASE store[u].sessionCode = NoCode
    BY <1>2, <1>8, <2>1, TerminateMirrors DEF ReceiveRestaurants
  <2>2. CASE store[u].sessionCode # NoCode
    <3>1. PICK d : d = Issue(u, dev[u], Write("list", store[u].sessionCode))
      OBVIOUS
    <3>2. Follows(d, store[u])
      BY <1>3, <1>4, <2>2, <3>1, IssueFollows, WriteType DEF Ops
    <3>3. dev' = [dev EXCEPT ![u] = d] /\ store' = [store EXCEPT ![u] = store[u]]
      BY <1>2, <1>8, <2>2, <3>1 DEF ReceiveRestaurants
    <3> QED
      BY <3>2, <3>3, MLocalStep
  <2> QED
    BY <2>1, <2>2
<1>9. CASE FetchFails(u)
  BY <1>2, <1>3, <1>9, MLocalStep DEF FetchFails
<1>10. ASSUME NEW r \in Restaurants, LikeRestaurant(u, r) PROVE MInv'
  <2>1. PICK l \in SUBSET Restaurants : l = store[u].likedRestaurants \cup {r}
    BY <1>2 DEF Stores
  <2>2. PICK s : s = [store[u] EXCEPT !.likedRestaurants = l]
    OBVIOUS
  <2>3. Follows(dev[u], s)
    <3>1. /\ s.sessionCode = store[u].sessionCode /\ s.numParticipants = store[u].numParticipants
          /\ s.sessionLive = store[u].sessionLive /\ s.result = store[u].result
          /\ s.finished = store[u].finished /\ s.restaurantList = store[u].restaurantList
          /\ s.likes = store[u].likes /\ s.time = store[u].time
      BY <1>2, <2>2 DEF Stores
    <3> QED
      BY <1>3, <3>1, SameStoreInformed DEF Follows
  <2>4. dev' = [dev EXCEPT ![u] = dev[u]] /\ store' = [store EXCEPT ![u] = s]
    BY <1>1, <1>2, <1>10, <2>1, <2>2 DEF LikeRestaurant
  <2> QED
    BY <2>3, <2>4, MLocalStep
<1>11. CASE EndSession(u)
  <2>1. CASE store[u].sessionCode = NoCode
    BY <1>2, <1>11, <2>1, TerminateMirrors DEF EndSession
  <2>2. CASE store[u].sessionCode # NoCode
    <3>1. PICK d : d = Issue(u, dev[u], Write("end", store[u].sessionCode))
      OBVIOUS
    <3>2. Follows(d, store[u])
      BY <1>3, <1>4, <2>2, <3>1, IssueFollows, WriteType DEF Ops
    <3>3. dev' = [dev EXCEPT ![u] = d] /\ store' = [store EXCEPT ![u] = store[u]]
      BY <1>2, <1>11, <2>2, <3>1 DEF EndSession
    <3> QED
      BY <3>2, <3>3, MLocalStep
  <2> QED
    BY <2>1, <2>2
<1> QED
  BY <1>5, <1>6, <1>7, <1>8, <1>9, <1>10, <1>11

\* The network's steps preserve the invariant.
LEMMA NetworkMirrors ==
    ASSUME IInv, MInv, NEW u \in Users,
           \/ \E b \in BOOLEAN : Commit(u, b)
           \/ Ack(u)
           \/ \E c \in Codes : Sync(u, c) \/ GoOffline(u, c)
    PROVE  MInv'
<1>1. TypeOK
  BY DEF IInv
<1>2. /\ store = [store EXCEPT ![u] = store[u]]
      /\ dev[u] \in Devices /\ store[u] \in Stores
  BY <1>1 DEF TypeOK
<1>3. Follows(dev[u], store[u])
  BY <1>2 DEF MInv, Follows
<1>4. ASSUME NEW d \in Devices, Tracks(d), Keeps(dev[u], d), d.listeners = dev[u].listeners,
             dev' = [dev EXCEPT ![u] = d], UNCHANGED store
      PROVE  MInv'
  <2>1. Follows(d, store[u])
    BY <1>3, <1>4, KeepsInformed DEF Follows
  <2> QED
    BY <1>2, <1>4, <2>1, MLocalStep
<1>5. ASSUME NEW b \in BOOLEAN, Commit(u, b) PROVE MInv'
  <2>0. PICK i \in DOMAIN dev[u].queue[b] :
          LET w == dev[u].queue[b][i]
              d == server[w.code]
          IN  dev' = [dev EXCEPT ![u].queue[b][i] =
                        [w EXCEPT !.counter = NumberFor(w, d),
                                  !.reply = IF Replaces(w) \/ d # NoDoc THEN "ok"
                                            ELSE "failed"]]
    BY <1>5, Zenon DEF Commit
  <2>1. PICK n, a : dev' = [dev EXCEPT ![u].queue[b][i] =
                              [dev[u].queue[b][i] EXCEPT !.counter = n, !.reply = a]]
    BY <2>0, Zenon
  <2>2. PICK q \in Seq(Writes) : q = dev[u].queue[b]
    BY <1>2, DeviceParts
  <2>3. PICK x : x = [q[i] EXCEPT !.counter = n, !.reply = a]
    OBVIOUS
  <2>4. q[i] \in Writes
    BY <2>2
  <2>5. x.code = q[i].code
    BY <2>3, <2>4 DEF Writes
  <2>6. PICK r : r = [q EXCEPT ![i] = x]
    OBVIOUS
  <2>7. DOMAIN r = DOMAIN q /\ \A j \in DOMAIN q : r[j].code = q[j].code
    BY <2>2, <2>5, <2>6
  <2>8. PICK qs : qs = [dev[u].queue EXCEPT ![b] = r]
    OBVIOUS
  <2>9. PICK d : d = [dev[u] EXCEPT !.queue = qs]
    OBVIOUS
  <2>10. dev' = [dev EXCEPT ![u] = d]
    BY <2>1, <2>2, <2>3, <2>6, <2>8, <2>9
  <2>11. d \in Devices
    <3>1. IInv'
      BY <1>5, NetworkStep
    <3>2. dev'[u] = d
      BY <1>1, <2>10 DEF TypeOK
    <3> QED
      BY <3>1, <3>2 DEF IInv, TypeOK
  <2>12. /\ SameView(dev[u], d) /\ d.cache = dev[u].cache /\ d.acked = dev[u].acked
         /\ d.user = dev[u].user /\ d.queue = qs /\ d.listeners = dev[u].listeners
    BY <1>2, <2>9 DEF Devices, SameView
  <2>13. ASSUME NEW o \in Codes, Quiet(d, o)
         PROVE  Quiet(dev[u], o)
    <3>1. Pending(d) = qs[dev[u].user] /\ Pending(dev[u]) = dev[u].queue[dev[u].user]
      BY <2>12 DEF Pending
    <3>2. dev[u].user \in BOOLEAN /\ dev[u].queue \in [BOOLEAN -> Seq(Writes)]
      BY <1>2, DeviceParts
    <3>3. CASE dev[u].user = b
      BY <2>2, <2>7, <2>8, <2>13, <3>1, <3>2, <3>3 DEF Quiet
    <3>4. CASE dev[u].user # b
      BY <2>8, <2>13, <3>1, <3>2, <3>4 DEF Quiet
    <3> QED
      BY <3>3, <3>4
  <2>14. Tracks(d) /\ Keeps(dev[u], d)
    BY <1>2, <1>3, <2>11, <2>12, <2>13, AnsweredTracks DEF Follows
  <2>15. UNCHANGED store
    BY <1>5 DEF Commit
  <2> QED
    BY <1>4, <2>10, <2>11, <2>12, <2>14, <2>15
<1>6. CASE Ack(u)
  <2>1. PICK d : d = Acknowledge(u, dev[u])
    OBVIOUS
  <2>2. Pending(dev[u]) # <<>>
    BY <1>6 DEF Ack, AckDue
  <2>3. /\ d \in Devices /\ d.listeners = dev[u].listeners
        /\ Tracks(d) /\ Keeps(dev[u], d)
    BY <1>2, <1>3, <2>1, <2>2, AcknowledgeType, AcknowledgeTracks DEF Follows
  <2>4. dev' = [dev EXCEPT ![u] = d] /\ UNCHANGED store
    BY <1>6, <2>1 DEF Ack
  <2> QED
    BY <1>4, <2>3, <2>4
<1>7. ASSUME NEW c \in Codes, Sync(u, c) PROVE MInv'
  <2>1. server[c] \in Docs \cup {NoDoc} /\ dev[u].listeners[c] > 0
    BY <1>1, <1>7 DEF TypeOK, Sync, SyncDue
  <2>2. PICK d : d = Receive(u, dev[u], c, server[c])
    OBVIOUS
  <2>3. /\ d \in Devices /\ d.listeners = dev[u].listeners
        /\ Tracks(d) /\ Keeps(dev[u], d)
    BY <1>2, <1>3, <2>1, <2>2, ReceiveType, ReceiveTracks DEF Follows
  <2>4. dev' = [dev EXCEPT ![u] = d] /\ UNCHANGED store
    BY <1>7, <2>2 DEF Sync
  <2> QED
    BY <1>4, <2>3, <2>4
<1>8. ASSUME NEW c \in Codes, GoOffline(u, c) PROVE MInv'
  <2>1. PICK d : d = Reach(dev[u], c, "offline")
    OBVIOUS
  <2>2. dev[u].listeners[c] > 0
    BY <1>8 DEF GoOffline
  <2>3. /\ d \in Devices /\ d.listeners = dev[u].listeners
        /\ Tracks(d) /\ Keeps(dev[u], d)
    BY <1>2, <1>3, <2>1, <2>2, ReachType, ReachTracks DEF Follows, Links
  <2>4. dev' = [dev EXCEPT ![u] = d] /\ UNCHANGED store
    BY <1>8, <2>1 DEF GoOffline
  <2> QED
    BY <1>4, <2>3, <2>4
<1> QED
  BY <1>5, <1>6, <1>7, <1>8

\* A callback other than a snapshot's leaves the snapshots that are to come.
LEMMA HandledFollows ==
    ASSUME NEW d, NEW s, Follows(d, s), d.inbox # <<>>, Head(d.inbox).kind # "snapshot"
    PROVE  Follows(Handled(d), s)
<1>1. /\ Handled(d) \in Devices /\ Tracks(Handled(d))
      /\ Handled(d).listeners = d.listeners /\ Handled(d).shown = d.shown
      /\ Handled(d).inbox = Tail(d.inbox) /\ Handled(d).fresh = d.fresh
  BY HandledTracks DEF Follows
<1>2. d.inbox \in Seq(Events)
  BY DeviceParts DEF Follows
<1>3. \A c \in Codes : News(d, c) => News(Handled(d), c)
  BY <1>1, <1>2, TailTold DEF News, IsSnap
<1>4. Informed(Handled(d), s)
  BY <1>1, <1>3 DEF Follows, Informed
<1> QED
  BY <1>1, <1>4 DEF Follows

\* A store that takes over a snapshot shows what its device shows, unless a newer
\* snapshot waits behind it.
LEMMA AbsorbedFollows ==
    ASSUME NEW d, NEW s, NEW new, Follows(d, s), d.inbox # <<>>,
           Head(d.inbox).kind = "snapshot", Head(d.inbox).data # NoDoc,
           Mirrors(new, Head(d.inbox).data)
    PROVE  Follows(Handled(d), new)
<1>1. /\ Handled(d) \in Devices /\ Tracks(Handled(d))
      /\ Handled(d).listeners = d.listeners /\ Handled(d).shown = d.shown
      /\ Handled(d).inbox = Tail(d.inbox) /\ Handled(d).fresh = d.fresh
  BY HandledTracks DEF Follows
<1>2. d.inbox \in Seq(Events)
  BY DeviceParts DEF Follows
<1>3. PICK e \in Events : e = Head(d.inbox)
  BY <1>2, HeadTailProperties, Zenon
<1>4. e.code \in Codes /\ IsSnap(e, e.code)
  BY <1>3 DEF Events, IsSnap
<1>5. 1 \in DOMAIN d.inbox /\ d.inbox[1] = e
  BY <1>2, <1>3, EmptySeq
<1>6. d.listeners[e.code] > 0
  BY <1>4, <1>5 DEF Follows, Tracks, Tells, SnapIn
<1> SUFFICES ASSUME NEW c \in Codes, \A o \in Codes \ {c} : d.listeners[o] = 0
             PROVE  \/ News(Handled(d), c)
                    \/ Handled(d).shown[c] # NoDoc /\ Mirrors(new, Handled(d).shown[c])
  BY <1>1 DEF Follows, Informed
<1>7. e.code = c
  BY <1>4, <1>6
<1>8. Told(d.inbox, c, d.shown[c])
  BY DEF Follows, Tracks, Tells
<1>9. SnapIn(Tail(d.inbox), c) \/ e.data = d.shown[c]
  BY <1>2, <1>3, <1>4, <1>7, <1>8, TailTold
<1> QED
  BY <1>1, <1>3, <1>9 DEF News

\* What a snapshot with data does preserves the invariant, whether or not it
\* pushes, computes the result or traps.
LEMMA SnapshotDataMirrors ==
    ASSUME IInv, MInv, NEW u \in Users, SnapshotData(u)
    PROVE  MInv'
<1>1. TypeOK
  BY DEF IInv
<1>2. dev[u] \in Devices /\ store[u] \in Stores
  BY <1>1 DEF TypeOK
<1>3. Follows(dev[u], store[u])
  BY <1>2 DEF MInv, Follows
<1>4. /\ dev[u].inbox # <<>> /\ Head(dev[u].inbox).data # NoDoc
      /\ Head(dev[u].inbox).kind = "snapshot"
  BY DEF SnapshotData, Arrived, CallbackDue
<1>5. PICK popped : popped = Handled(dev[u])
  OBVIOUS
<1>6. popped \in Devices /\ Head(dev[u].inbox) \in Events
  BY <1>2, <1>4, <1>5, HandledFits DEF IInv, Fits
<1>7. PICK d \in Docs : d = Head(dev[u].inbox).data
  BY <1>4, <1>6 DEF Events
<1>8. PICK push \in BOOLEAN : push = MustPush(store[u], d)
  BY DEF MustPush
<1>9. PICK after : after = IF push THEN PushResults(u, popped) ELSE popped
  OBVIOUS
<1>10. PICK new : new = [Absorb(store[u], d) EXCEPT !.pushed = @ \/ push]
  OBVIOUS
<1>11. PICK pt \in BOOLEAN : pt = (push /\ (store[u].sessionCode = NoCode \/ ~store[u].session))
  OBVIOUS
<1>12. PICK ct \in BOOLEAN :
         ct = (MustCalc(store[u], d) /\ (store[u].sessionCode = NoCode \/ DOMAIN d.likes = {}))
  OBVIOUS
<1>13. \/ pt /\ Terminate(u, popped)
       \/ ~pt /\ ct /\ (Terminate(u, popped) \/ Terminate(u, after))
       \/ ~pt /\ Do(u, after, new)
       \/ /\ ~pt /\ ~ct /\ MustCalc(store[u], d)
          /\ \E sel \in Selections(d.likes) : Do(u, CalcResult(u, after, sel), new)
  BY <1>5, <1>7, <1>8, <1>9, <1>10, <1>11, <1>12 DEF SnapshotData
<1>14. Mirrors(new, d)
  <2>1. PICK b \in BOOLEAN : b = (Absorb(store[u], d).pushed \/ push)
    OBVIOUS
  <2>2. new = [Absorb(store[u], d) EXCEPT !.pushed = b]
    BY <1>10, <2>1
  <2> QED
    BY <1>2, <2>2 DEF Absorb, Mirrors, Stores
<1>15. Follows(popped, new)
  BY <1>3, <1>4, <1>5, <1>7, <1>14, AbsorbedFollows
<1>16. ~pt => Follows(after, new)
  <2>1. CASE push /\ ~pt
    <3>1. PICK c \in Codes : c = store[u].sessionCode
      BY <1>2, <1>11, <2>1 DEF Stores
    <3>2. PICK l \in SUBSET Restaurants : l = store[u].likedRestaurants
      BY <1>2 DEF Stores
    <3>3. [Write("push", c) EXCEPT !.liked = l] \in Writes
      BY WriteType DEF Ops
    <3>4. after = Issue(u, popped, [Write("push", c) EXCEPT !.liked = l])
      BY <1>9, <2>1, <3>1, <3>2 DEF PushResults
    <3> QED
      BY <1>15, <3>3, <3>4, IssueFollows
  <2>2. CASE ~push
    BY <1>9, <1>15, <2>2
  <2> QED
    BY <2>1, <2>2
<1>17. CASE Terminate(u, popped) \/ (~pt /\ Terminate(u, after))
  <2>1. CASE Terminate(u, popped)
    BY <1>6, <2>1, TerminateMirrors
  <2>2. CASE ~pt /\ Terminate(u, after)
    BY <1>16, <2>2, TerminateMirrors DEF Follows
  <2> QED
    BY <1>17, <2>1, <2>2
<1>18. CASE ~pt /\ Do(u, after, new)
  BY <1>16, <1>18, MLocalStep DEF Do
<1>19. CASE /\ ~pt /\ ~ct /\ MustCalc(store[u], d)
            /\ \E sel \in Selections(d.likes) : Do(u, CalcResult(u, after, sel), new)
  <2>1. PICK sel \in Selections(d.likes) : Do(u, CalcResult(u, after, sel), new)
    BY <1>19
  <2>2. sel \in Results
    BY DEF Selections, Consensus, Results
  <2>3. PICK c \in Codes : c = store[u].sessionCode
    BY <1>2, <1>12, <1>19 DEF Stores
  <2>4. [Write("result", c) EXCEPT !.sel = sel] \in Writes
    BY <2>2, WriteType DEF Ops
  <2>5. PICK dd : dd = Issue(u, after, [Write("result", c) EXCEPT !.sel = sel])
    OBVIOUS
  <2>6. dd = CalcResult(u, after, sel)
    BY <2>3, <2>5 DEF CalcResult
  <2>7. Follows(dd, new)
    BY <1>16, <1>19, <2>4, <2>5, IssueFollows
  <2> QED
    BY <2>1, <2>6, <2>7, MLocalStep DEF Do
<1> QED
  BY <1>13, <1>17, <1>18, <1>19

\* The callbacks preserve the invariant.
LEMMA CallbackMirrors ==
    ASSUME IInv, MInv, NEW u \in Users, Callback(u)
    PROVE  MInv'
<1>1. TypeOK
  BY DEF IInv
<1>2. dev[u] \in Devices /\ store[u] \in Stores
  BY <1>1 DEF TypeOK
<1>3. dev[u].inbox # <<>>
  BY DEF Callback, Joined, Left, Deleted, SnapshotGone, SnapshotData, Arrived, CallbackDue
<1>4. PICK d : d = Handled(dev[u])
  OBVIOUS
<1>5. PICK e \in Events : e = Head(dev[u].inbox)
  BY <1>3, HandledFits DEF IInv
<1>6. d \in Devices /\ Tracks(d) /\ e.code \in Codes
  BY <1>2, <1>3, <1>4, HandledTracks DEF MInv, Events
<1>7. e.kind # "snapshot" => Follows(d, store[u])
  BY <1>2, <1>3, <1>4, <1>5, HandledFollows DEF MInv, Follows
<1>8. ASSUME NEW s, s.sessionCode = NoCode
      PROVE  Follows(d, s)
  BY <1>6, <1>8, OutOfSessionInformed DEF Follows
<1>9. ASSUME NEW x \in {"none", "join", "leave", "deleted"}, NEW s, e.kind # "snapshot",
             s = [store[u] EXCEPT !.sessionError = x]
      PROVE  Follows(d, s)
  <2>1. /\ s.sessionCode = store[u].sessionCode /\ s.numParticipants = store[u].numParticipants
        /\ s.sessionLive = store[u].sessionLive /\ s.result = store[u].result
        /\ s.finished = store[u].finished /\ s.restaurantList = store[u].restaurantList
        /\ s.likes = store[u].likes /\ s.time = store[u].time
    BY <1>2, <1>9 DEF Stores
  <2> QED
    BY <1>7, <1>9, <2>1, SameStoreInformed DEF Follows
<1>10. CASE Joined(u)
  <2>1. e.kind # "snapshot"
    BY <1>5, <1>10 DEF Joined, Arrived
  <2>2. CASE e.ok
    <3>1. PICK s : s = [store[u] EXCEPT !.sessionCode = e.code]
      OBVIOUS
    <3>2. s.sessionCode = e.code
      BY <1>2, <3>1 DEF Stores
    <3>3. Follows(Watch(u, d, e.code), s)
      BY <1>6, <3>2, WatchFollows
    <3>4. dev' = [dev EXCEPT ![u] = Watch(u, d, e.code)] /\ store' = [store EXCEPT ![u] = s]
      BY <1>4, <1>5, <1>10, <2>2, <3>1 DEF Joined, Do
    <3> QED
      BY <3>3, <3>4, MLocalStep
  <2>3. CASE ~e.ok
    <3>1. PICK s : s = [store[u] EXCEPT !.sessionError = "join"]
      OBVIOUS
    <3>2. Follows(d, s)
      BY <1>9, <2>1, <3>1
    <3>3. dev' = [dev EXCEPT ![u] = d] /\ store' = [store EXCEPT ![u] = s]
      BY <1>4, <1>5, <1>10, <2>3, <3>1 DEF Joined, Do
    <3> QED
      BY <3>2, <3>3, MLocalStep
  <2> QED
    BY <2>2, <2>3
<1>11. CASE Left(u)
  <2>1. e.kind # "snapshot"
    BY <1>5, <1>11 DEF Left, Arrived
  <2>2. PICK s : s = IF e.ok THEN Cleared(store[u])
                     ELSE [store[u] EXCEPT !.sessionError = "leave"]
    OBVIOUS
  <2>3. Follows(d, s)
    <3>1. CASE e.ok
      BY <1>2, <1>8, <2>2, <3>1, ClearedType
    <3>2. CASE ~e.ok
      BY <1>9, <2>1, <2>2, <3>2
    <3> QED
      BY <3>1, <3>2
  <2>4. dev' = [dev EXCEPT ![u] = d] /\ store' = [store EXCEPT ![u] = s]
    BY <1>4, <1>5, <1>11, <2>2 DEF Left, Do
  <2> QED
    BY <2>3, <2>4, MLocalStep
<1>12. CASE Deleted(u)
  <2>1. Follows(d, Cleared(store[u]))
    BY <1>2, <1>8, ClearedType
  <2>2. dev' = [dev EXCEPT ![u] = d] /\ store' = [store EXCEPT ![u] = Cleared(store[u])]
    BY <1>4, <1>12 DEF Deleted, Do
  <2> QED
    BY <2>1, <2>2, MLocalStep
<1>13. CASE SnapshotGone(u)
  <2>1. PICK s : s = [store[u] EXCEPT !.sessionCode = NoCode, !.numParticipants = 0,
                                      !.result = NoResult, !.sessionError = "deleted",
                                      !.sessionDeleted = TRUE]
    OBVIOUS
  <2>2. Follows(d, s)
    <3>1. s.sessionCode = NoCode
      BY <1>2, <2>1 DEF Stores
    <3> QED
      BY <1>8, <3>1
  <2>3. dev' = [dev EXCEPT ![u] = d] /\ store' = [store EXCEPT ![u] = s]
    BY <1>4, <1>13, <2>1 DEF SnapshotGone, Do
  <2> QED
    BY <2>2, <2>3, MLocalStep
<1>14. CASE SnapshotData(u)
  BY <1>14, SnapshotDataMirrors
<1> QED
  BY <1>10, <1>11, <1>12, <1>13, <1>14 DEF Callback

------------------------------------------------------------------------------

\* The inductive invariant is an invariant of the specification.
LEMMA MInvariance == Spec => []MInv
<1>1. Init => MInv
  <2> SUFFICES ASSUME Init, NEW u \in Users
               PROVE  Tracks(dev[u]) /\ Informed(dev[u], store[u])
    BY DEF MInv
  <2>1. dev[u] = NewDevice /\ store[u].sessionCode = NoCode
    BY DEF Init, NewStore
  <2>2. /\ \A c \in Codes : dev[u].listeners[c] = 0 /\ dev[u].fresh[c] = 0
        /\ dev[u].inbox = <<>>
    BY <2>1 DEF NewDevice
  <2>3. Tracks(dev[u])
    BY <2>2 DEF Tracks, Tells, Current, SnapIn, Told
  <2> QED
    BY <2>1, <2>3, OutOfSessionInformed
<1>2. IInv /\ MInv /\ [Next]_vars => MInv'
  <2> SUFFICES ASSUME IInv, MInv, [Next]_vars PROVE MInv'
    OBVIOUS
  <2>1. CASE UNCHANGED vars
    BY <2>1 DEF vars, MInv
  <2>2. CASE Next
    <3>1. PICK u \in Users :
            \/ OpenCreate(u) \/ OpenJoin(u)
            \/ LeaveCreateScreen(u) \/ LeaveJoinScreen(u)
            \/ SignOut(u) \/ HearSignOut(u) \/ SignIn(u) \/ Quit(u) \/ Launch(u)
            \/ \E c \in Codes : CreateSession(u, c)
            \/ \E c \in Codes : JoinSession(u, c)
            \/ \E t \in TimeLimits, r \in Radii : Start(u, t, r)
            \/ ReceiveRestaurants(u) \/ FetchFails(u)
            \/ \E r \in Restaurants : LikeRestaurant(u, r)
            \/ EndSession(u)
            \/ Callback(u)
            \/ \E b \in BOOLEAN : Commit(u, b)
            \/ Ack(u)
            \/ \E c \in Codes : Sync(u, c) \/ GoOffline(u, c)
      BY <2>2, Zenon DEF Next, Callback
    <3> QED
      BY <3>1, NavigationMirrors, OperationMirrors, CallbackMirrors, NetworkMirrors, Zenon
  <2> QED
    BY <2>1, <2>2
<1> QED
  BY <1>1, <1>2, Invariance, PTL DEF Spec

\* Once everything is delivered, a device that has only ever watched its own session
\* shows that session's document, whatever was created, joined, left, deleted,
\* restarted or delayed before (the snapshot handler, SessionStore.swift:144-203).
THEOREM MirrorsWhenSettled == Spec => []SettledMirrors
<1>1. IInv /\ MInv => SettledMirrors
  <2> SUFFICES ASSUME IInv, MInv, NEW u \in Users, NEW c \in Codes,
                      Settled(u), store[u].sessionCode = c,
                      \A o \in Codes \ {c} : dev[u].listeners[o] = 0
               PROVE  server[c] # NoDoc /\ Mirrors(store[u], server[c])
    BY DEF SettledMirrors, Mirrors
  <2>1. /\ dev[u] \in Devices /\ server[c] \in Docs \cup {NoDoc}
        /\ dev[u].listeners[c] > 0
    BY SessionStoreAssumption DEF IInv, TypeOK, Fits
  <2>2. /\ dev[u].link[c] = "synced" /\ dev[u].cache[c] = server[c] /\ ~dev[u].acked[c]
        /\ dev[u].inbox = <<>>
    BY <2>1 DEF Settled
  <2>3. Pending(dev[u]) = <<>>
    BY <2>1, DeviceParts DEF Settled, Pending
  <2>4. Tells(dev[u], c) /\ Current(dev[u], c) /\ Informed(dev[u], store[u])
    BY DEF MInv, Tracks
  <2>5. ~News(dev[u], c)
    BY <2>2, <2>4 DEF News, Tells, SnapIn
  <2>6. dev[u].shown[c] # NoDoc /\ Mirrors(store[u], dev[u].shown[c])
    BY <2>4, <2>5 DEF Informed
  <2>7. dev[u].shown[c] = Visible(server[c])
    BY <2>1, <2>2, <2>3, <2>4 DEF Current, Quiet
  <2> QED
    BY <2>6, <2>7 DEF Visible, Missing
<1> QED
  BY <1>1, Invariance, MInvariance, PTL
==============================================================================
