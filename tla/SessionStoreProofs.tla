-------------------------- MODULE SessionStoreProofs --------------------------
(***************************************************************************)
(* Proofs about the session protocol, for every set of users, codes and    *)
(* restaurants and for every bound: type correctness, and that a device    *)
(* that is in a session listens to it.                                     *)
(*                                                                         *)
(* The first part is about the operators of Firestore.tla: each of them    *)
(* maps a device of the right type to a device of the right type, and none *)
(* of them takes a listener away.                                          *)
(***************************************************************************)
EXTENDS SessionProperties, SequenceTheorems, WellFoundedInduction, TLAPS

------------------------------------------------------------------------------
(* The operators of Firestore.tla. *)

CachedDocs == Docs \cup {NoDoc, Unknown}

\* The largest of some positions in a sequence exists: the one with the smallest
\* gap to the end.
LEMMA MaxType ==
    ASSUME NEW n \in Nat, NEW S \in SUBSET (1 .. n), S # {}
    PROVE  Max(S) \in S /\ \A y \in S : Max(S) >= y
  <1>. DEFINE Less == OpToRel(<, Nat)
              Gaps == {n - i : i \in S}
  <1>1. IsWellFoundedOn(Less, Nat)
    BY NatLessThanWellFounded, Zenon
  <1>2. Gaps \subseteq Nat /\ Gaps # {}
    <2>1. \A i \in S : n - i \in Nat
      OBVIOUS
    <2>2. PICK i \in S : TRUE
      OBVIOUS
    <2>3. n - i \in Gaps
      OBVIOUS
    <2>. QED
      BY <2>1, <2>3
  <1>3. \E x \in Gaps : \A y \in Gaps : ~(<<y, x>> \in Less)
    <2>. HIDE DEF Less, Gaps
    <2>. QED
      BY <1>1, <1>2, WFMin, Zenon
  <1>4. PICK x \in Gaps : \A y \in Gaps : ~(<<y, x>> \in Less)
    BY <1>3, Zenon
  <1>5. \A y \in Gaps : ~(y < x)
    <2>. SUFFICES ASSUME NEW y \in Gaps, y < x PROVE FALSE
      OBVIOUS
    <2>1. y \in Nat /\ x \in Nat
      BY <1>2
    <2>2. <<y, x>> \in Less
      BY <2>1 DEF OpToRel
    <2>. QED
      BY <1>4, <2>2
  <1>6. PICK m \in S : x = n - m
    OBVIOUS
  <1>7. \A y \in S : m >= y
    <2>. SUFFICES ASSUME NEW y \in S PROVE m >= y
      OBVIOUS
    <2>1. n - y \in Gaps
      OBVIOUS
    <2>2. ~(n - y < n - m)
      BY <1>5, <1>6, <2>1
    <2>. QED
      BY <2>2
  <1>. QED
    BY <1>7 DEF Max

\* Setting and dropping a user's likes gives a likes map again.
LEMMA LikesType ==
    ASSUME NEW m \in LikesMaps, NEW u \in Users, NEW liked \in SUBSET Restaurants
    PROVE  /\ SetLikes(m, u, liked) \in LikesMaps
           /\ DropLikes(m, u) \in LikesMaps
           /\ NoLikes \in LikesMaps
           /\ DOMAIN m \subseteq Users
           /\ \A v \in DOMAIN m : m[v] \in SUBSET Restaurants
  <1>1. PICK S \in SUBSET Users : m \in [S -> SUBSET Restaurants]
    BY DEF LikesMaps
  <1>2. SetLikes(m, u, liked) \in [S \cup {u} -> SUBSET Restaurants]
    BY <1>1 DEF SetLikes
  <1>3. DropLikes(m, u) \in [S \ {u} -> SUBSET Restaurants]
    BY <1>1 DEF DropLikes
  <1>4. NoLikes \in [{} -> SUBSET Restaurants]
    BY DEF NoLikes
  <1>5. S \cup {u} \in SUBSET Users /\ S \ {u} \in SUBSET Users /\ {} \in SUBSET Users
    BY <1>1
  <1>. QED
    BY <1>1, <1>2, <1>3, <1>4, <1>5 DEF LikesMaps

\* A new session document has the type of a document.
LEMMA NewDocType == ASSUME NEW u \in Users PROVE NewDoc(u) \in Docs
  <1>1. NoLikes \in LikesMaps
    <2>1. NoLikes \in [{} -> SUBSET Restaurants]
      BY DEF NoLikes
    <2>. QED
      BY <2>1 DEF LikesMaps
  <1>2. SetLikes(NoLikes, u, {}) \in LikesMaps
    BY <1>1, LikesType
  <1>. QED
    BY <1>2 DEF NewDoc, Docs, Results, DefaultTime, DefaultRadius

\* The parts of a write.
LEMMA WriteParts ==
    ASSUME NEW w \in Writes
    PROVE  /\ w.op \in Ops /\ w.code \in Codes /\ w.liked \in SUBSET Restaurants
           /\ w.sel \in Results /\ w.num \in Int /\ w.handler \in BOOLEAN
           /\ w.reply \in {"none", "ok", "seen", "failed"} /\ w.counter \in Int
  BY DEF Writes

\* The number that a write stores is an integer.
LEMMA NumberForType ==
    ASSUME NEW w \in Writes, NEW d \in CachedDocs
    PROVE  NumberFor(w, d) \in Int
  <1>1. w.num \in Int
    BY WriteParts
  <1>2. ~Missing(d) => d.finishedPushing \in Int /\ d.participants \in Int
    BY DEF CachedDocs, Missing, Docs
  <1>3. Incremented(w, d) \in Int
    <2>1. PICK i \in Int : i = IF Missing(d) THEN 0
                               ELSE IF w.op = "push" THEN d.finishedPushing ELSE d.participants
      BY <1>2
    <2>2. PICK j \in Int : j = IF w.op = "leave" THEN -1 ELSE 1
      OBVIOUS
    <2>. QED
      BY <2>1, <2>2 DEF Incremented
  <1>. QED
    BY <1>1, <1>3 DEF NumberFor

\* A patch maps documents to documents.
LEMMA PatchType ==
    ASSUME NEW u \in Users, NEW w \in Writes, NEW n \in Int, NEW d \in Docs, ~Replaces(w)
    PROVE  Patch(u, w, n, d) \in Docs
  <1>1. /\ w.liked \in SUBSET Restaurants /\ {} \in SUBSET Restaurants
        /\ w.sel \in Results /\ w.op \in Ops
    BY WriteParts
  <1>2. d.likes \in LikesMaps
    BY DEF Docs
  <1>3. /\ SetLikes(d.likes, u, {}) \in LikesMaps
        /\ SetLikes(d.likes, u, w.liked) \in LikesMaps
        /\ DropLikes(d.likes, u) \in LikesMaps
    BY <1>1, <1>2, LikesType
  <1>4. w.op \in {"join", "leave", "push", "end", "result", "start", "list", "time", "radius"}
    BY <1>1 DEF Ops, Replaces
  <1>5. CASE w.op = "join"
    <2>1. PICK m \in LikesMaps : m = SetLikes(d.likes, u, {})
      BY <1>3
    <2>2. Patch(u, w, n, d) = [d EXCEPT !.participants = n, !.likes = m]
      BY <1>5, <2>1 DEF Patch
    <2>. QED
      BY <2>2 DEF Docs
  <1>6. CASE w.op = "leave"
    <2>1. PICK m \in LikesMaps : m = DropLikes(d.likes, u)
      BY <1>3
    <2>2. Patch(u, w, n, d) = [d EXCEPT !.participants = n, !.likes = m]
      BY <1>6, <2>1 DEF Patch
    <2>. QED
      BY <2>2 DEF Docs
  <1>7. CASE w.op = "push"
    <2>1. PICK m \in LikesMaps : m = SetLikes(d.likes, u, w.liked)
      BY <1>3
    <2>2. Patch(u, w, n, d) = [d EXCEPT !.finishedPushing = n, !.likes = m]
      BY <1>7, <2>1 DEF Patch
    <2>. QED
      BY <2>2 DEF Docs
  <1>8. CASE w.op \in {"end", "start", "list"}
    BY <1>8 DEF Patch, Docs
  <1>9. CASE w.op \in {"result", "time", "radius"}
    BY <1>9, <1>1 DEF Patch, Docs
  <1>. QED
    BY <1>4, <1>5, <1>6, <1>7, <1>8, <1>9

\* What a write makes of a document, or of the lack of one: it stays unknown
\* only if it was, and the write changed nothing.
LEMMA ApplyType ==
    ASSUME NEW u \in Users, NEW w \in Writes, NEW n \in Int, NEW d \in CachedDocs
    PROVE  /\ Apply(u, w, n, d) \in Docs \cup {NoDoc} \/ Apply(u, w, n, d) = d
           /\ Apply(u, w, n, d) \in CachedDocs
  <1>1. CASE w.op = "create"
    BY <1>1, NewDocType DEF Apply, CachedDocs
  <1>2. CASE w.op = "delete"
    BY <1>2 DEF Apply, CachedDocs
  <1>3. CASE ~Replaces(w) /\ Missing(d)
    BY <1>3 DEF Apply, CachedDocs, Replaces
  <1>4. CASE ~Replaces(w) /\ ~Missing(d)
    <2>1. Patch(u, w, n, d) \in Docs
      BY <1>4, PatchType DEF Missing, CachedDocs
    <2>2. Apply(u, w, n, d) = Patch(u, w, n, d)
      BY <1>4 DEF Apply, Replaces
    <2>. QED
      BY <2>1, <2>2 DEF CachedDocs
  <1>. QED
    BY <1>1, <1>2, <1>3, <1>4 DEF Replaces

\* A document with pending writes applied to it is a document: each of its
\* fields is that of a document.
LEMMA OverlayType ==
    ASSUME NEW u \in Users, NEW q \in Seq(Writes), NEW c \in Codes, NEW remote \in CachedDocs
    PROVE  /\ Overlay(u, q, c, remote) \in CachedDocs
           /\ (\A i \in DOMAIN q : q[i].op # "delete") =>
                \/ Overlay(u, q, c, remote) \in Docs
                \/ /\ Missing(remote) /\ Overlay(u, q, c, remote) = remote
                   /\ \A i \in DOMAIN q : q[i].code = c => ~Replaces(q[i])
  <1>. DEFINE on == {i \in DOMAIN q : q[i].code = c}
              whole == {i \in on : Replaces(q[i])}
              start == IF whole = {} THEN remote ELSE Apply(u, q[Max(whole)], 0, NoDoc)
              By(f) == {i \in on : f \in Assigns(q[i]) /\ \A j \in whole : j < i}
              Field(f) == IF By(f) = {} THEN start[f]
                          ELSE LET w == q[Max(By(f))] IN Patch(u, w, w.num, start)[f]
  <1>1. DOMAIN q = 1 .. Len(q) /\ Len(q) \in Nat /\ \A i \in 1 .. Len(q) : q[i] \in Writes
    OBVIOUS
  <1>2. /\ start \in CachedDocs
        /\ (\A i \in DOMAIN q : q[i].op # "delete") => start \in Docs \/ whole = {}
    <2>1. CASE whole = {}
      BY <2>1
    <2>2. CASE whole # {}
      <3>1. whole \in SUBSET (1 .. Len(q))
        BY <1>1
      <3>2. Max(whole) \in whole
        <4>. HIDE DEF whole
        <4>. QED
          BY <1>1, <2>2, <3>1, MaxType
      <3>3. q[Max(whole)] \in Writes
        BY <1>1, <3>1, <3>2
      <3>4. NoDoc \in CachedDocs /\ 0 \in Int
        BY DEF CachedDocs
      <3>5. Apply(u, q[Max(whole)], 0, NoDoc) \in CachedDocs
        BY <3>3, <3>4, ApplyType
      <3>6. ASSUME \A i \in DOMAIN q : q[i].op # "delete"
            PROVE  start \in Docs
        <4>1. q[Max(whole)].op = "create"
          BY <3>2, <3>6 DEF Replaces
        <4>. QED
          BY <2>2, <4>1, NewDocType DEF Apply, Replaces
      <3>. QED
        BY <2>2, <3>5, <3>6
    <2>. QED
      BY <2>1, <2>2
  <1>3. Overlay(u, q, c, remote) =
          IF Missing(start) THEN start
          ELSE [participants    |-> Field("participants"),
                live            |-> Field("live"),
                likes           |-> Field("likes"),
                result          |-> Field("result"),
                finished        |-> Field("finished"),
                restaurantList  |-> Field("restaurantList"),
                finishedPushing |-> Field("finishedPushing"),
                time            |-> Field("time"),
                radius          |-> Field("radius")]
    BY Zenon DEF Overlay
  <1>4. CASE Missing(start)
    <2>1. Overlay(u, q, c, remote) = start
      BY <1>3, <1>4
    <2>2. whole = {} => start = remote /\ \A i \in DOMAIN q : q[i].code = c => ~Replaces(q[i])
      OBVIOUS
    <2>. HIDE DEF start, whole
    <2>. QED
      BY <1>2, <1>4, <2>1, <2>2
  <1>5. CASE ~Missing(start)
    <2>1. start \in Docs
      BY <1>2, <1>5 DEF Missing, CachedDocs
    <2>2. ASSUME NEW f PROVE \E d \in Docs : Field(f) = d[f]
      <3>1. CASE By(f) = {}
        BY <2>1, <3>1
      <3>2. CASE By(f) # {}
        <4>1. By(f) \in SUBSET (1 .. Len(q))
          BY <1>1
        <4>2. PICK k : k = Max(By(f))
          OBVIOUS
        <4>3. k \in By(f)
          <5>. HIDE DEF By
          <5>. QED
            BY <1>1, <3>2, <4>1, <4>2, MaxType
        <4>4. q[k] \in Writes /\ f \in Assigns(q[k])
          BY <1>1, <4>1, <4>3
        <4>5. ~Replaces(q[k])
          BY <4>4 DEF Assigns, Replaces
        <4>6. Patch(u, q[k], q[k].num, start) \in Docs
          BY <2>1, <4>4, <4>5, PatchType, WriteParts
        <4>7. Field(f) = Patch(u, q[k], q[k].num, start)[f]
          BY <3>2, <4>2, Zenon
        <4>. HIDE DEF Field
        <4>. QED
          BY <4>6, <4>7
      <3>. QED
        BY <3>1, <3>2
    <2>. HIDE DEF Field
    <2>3. /\ Field("participants") \in Int /\ Field("live") \in BOOLEAN
          /\ Field("likes") \in LikesMaps /\ Field("result") \in Results
          /\ Field("finished") \in BOOLEAN /\ Field("restaurantList") \in BOOLEAN
      BY <2>2 DEF Docs
    <2>4. /\ Field("finishedPushing") \in Int /\ Field("time") \in Int
          /\ Field("radius") \in Int
      BY <2>2 DEF Docs
    <2>. HIDE DEF start
    <2>. QED
      BY <1>3, <1>5, <2>3, <2>4 DEF Docs, CachedDocs
  <1>. QED
    BY <1>4, <1>5

------------------------------------------------------------------------------

Links == {"connecting", "synced", "offline"}

\* The parts of a device.
LEMMA DeviceParts ==
    ASSUME NEW sdk \in Devices
    PROVE  /\ sdk.user \in BOOLEAN
           /\ sdk.queue \in [BOOLEAN -> Seq(Writes)]
           /\ sdk.cache \in [Codes -> CachedDocs]
           /\ sdk.acked \in [Codes -> BOOLEAN]
           /\ sdk.listeners \in [Codes -> Nat]
           /\ sdk.fresh \in [Codes -> Nat]
           /\ sdk.link \in [Codes -> Links]
           /\ sdk.shown \in [Codes -> Docs \cup {NoDoc}]
           /\ sdk.inbox \in Seq(Events)
           /\ Pending(sdk) \in Seq(Writes)
  BY DEF Devices, CachedDocs, Links, Pending

\* A function of the right domain and range is a sequence.
LEMMA SeqOf ==
    ASSUME NEW S, NEW n \in Nat, NEW f \in [1 .. n -> S]
    PROVE  f \in Seq(S)
  OBVIOUS

\* A new device is a device.
LEMMA NewDeviceType == NewDevice \in Devices
  <1>1. /\ [c \in Codes |-> 0] \in [Codes -> Nat] /\ <<>> \in Seq(Events)
        /\ [b \in BOOLEAN |-> <<>>] \in [BOOLEAN -> Seq(Writes)]
    OBVIOUS
  <1>2. /\ [c \in Codes |-> Unknown] \in [Codes -> Docs \cup {NoDoc, Unknown}]
        /\ [c \in Codes |-> NoDoc] \in [Codes -> Docs \cup {NoDoc}]
        /\ [c \in Codes |-> FALSE] \in [Codes -> BOOLEAN]
    OBVIOUS
  <1>3. [c \in Codes |-> "connecting"] \in [Codes -> {"connecting", "synced", "offline"}]
    OBVIOUS
  <1>. QED
    BY <1>1, <1>2, <1>3 DEF NewDevice, Devices

\* A device that was stopped is a device, without listeners and callbacks.
LEMMA OnDiskType ==
    ASSUME NEW sdk \in Devices, NEW signedIn \in BOOLEAN
    PROVE  OnDisk(sdk, signedIn) \in Devices
  <1>1. PICK q : q = [b \in BOOLEAN |-> [i \in DOMAIN sdk.queue[b] |->
                                           [sdk.queue[b][i] EXCEPT !.handler = FALSE]]]
    OBVIOUS
  <1>2. q \in [BOOLEAN -> Seq(Writes)]
    <2>1. ASSUME NEW b \in BOOLEAN PROVE q[b] \in Seq(Writes)
      <3>1. PICK old \in Seq(Writes) : old = sdk.queue[b]
        BY DeviceParts
      <3>2. ASSUME NEW i \in 1 .. Len(old)
            PROVE  [old[i] EXCEPT !.handler = FALSE] \in Writes
        <4>1. PICK w \in Writes : w = old[i]
          OBVIOUS
        <4>2. [w EXCEPT !.handler = FALSE] \in Writes
          BY DEF Writes
        <4>. QED
          BY <4>1, <4>2
      <3>3. [i \in 1 .. Len(old) |-> [old[i] EXCEPT !.handler = FALSE]]
                \in [1 .. Len(old) -> Writes]
        BY <3>2
      <3>4. DOMAIN old = 1 .. Len(old) /\ Len(old) \in Nat
        OBVIOUS
      <3>5. q[b] = [i \in 1 .. Len(old) |-> [old[i] EXCEPT !.handler = FALSE]]
        BY <1>1, <3>1, <3>4, Zenon
      <3>. QED
        BY <3>3, <3>4, <3>5, SeqOf
    <2>. QED
      BY <1>1, <2>1
  <1>3. PICK new \in Devices : new = [NewDevice EXCEPT !.user = signedIn]
    BY NewDeviceType, DeviceParts DEF Devices
  <1>4. OnDisk(sdk, signedIn) = [new EXCEPT !.queue = q, !.cache = sdk.cache, !.acked = sdk.acked]
    BY <1>1, <1>3 DEF OnDisk
  <1>. QED
    BY <1>2, <1>4, DeviceParts DEF Devices, CachedDocs

\* An inbox with more events is an inbox.
LEMMA CalledType ==
    ASSUME NEW inbox \in Seq(Events), NEW n \in Nat, NEW e, n > 0 => e \in Events
    PROVE  Called(inbox, n, e) \in Seq(Events)
  <1>1. [i \in 1 .. n |-> e] \in Seq(Events)
    OBVIOUS
  <1>. QED
    BY <1>1, ConcatProperties, Zenon DEF Called

\* What a device shows of a document is known.
LEMMA LocalType ==
    ASSUME NEW u \in Users, NEW sdk \in Devices, NEW c \in Codes
    PROVE  Local(u, sdk, c) \in CachedDocs /\ Visible(Local(u, sdk, c)) \in Docs \cup {NoDoc}
  <1>1. Local(u, sdk, c) \in CachedDocs
    BY DeviceParts, OverlayType DEF Local
  <1>. QED
    BY <1>1 DEF Visible, Missing, CachedDocs

\* Computing a view again keeps the queues and the listeners.
LEMMA RefreshType ==
    ASSUME NEW u \in Users, NEW sdk \in Devices, NEW c \in Codes
    PROVE  /\ Refresh(u, sdk, c) \in Devices
           /\ Refresh(u, sdk, c).listeners = sdk.listeners
  <1>1. PICK d \in Docs \cup {NoDoc} : d = Visible(Local(u, sdk, c))
    BY LocalType
  <1>2. PICK v \in [Codes -> Docs \cup {NoDoc}] : v = [sdk.shown EXCEPT ![c] = d]
    BY DeviceParts
  <1>3. PICK f \in [Codes -> Nat] : f = [sdk.fresh EXCEPT ![c] = 0]
    BY DeviceParts
  <1>4. PICK i \in Seq(Events) : i = Called(sdk.inbox, sdk.listeners[c], Snapshot(c, d))
    <2>1. Snapshot(c, d) \in Events
      BY DEF Snapshot, Events
    <2>2. sdk.listeners[c] \in Nat
      BY DeviceParts
    <2>. QED
      BY <2>1, <2>2, DeviceParts, CalledType
  <1>5. PICK new \in Devices : new = [sdk EXCEPT !.shown = v, !.fresh = f, !.inbox = i]
    BY DEF Devices
  <1>6. new.listeners = sdk.listeners
    BY <1>5 DEF Devices
  <1>7. Refresh(u, sdk, c) = sdk \/ Refresh(u, sdk, c) = new
    BY <1>1, <1>2, <1>3, <1>4, <1>5 DEF Refresh
  <1>. QED
    BY <1>6, <1>7

\* Another user signed in or out: the device keeps its listeners.
LEMMA SwitchedType ==
    ASSUME NEW u \in Users, NEW sdk \in Devices, NEW b \in BOOLEAN,
           NEW d \in Switched(u, sdk, b)
    PROVE  d \in Devices /\ d.listeners = sdk.listeners
  <1>. SUFFICES ASSUME sdk.user # b
                PROVE  d \in Devices /\ d.listeners = sdk.listeners
    BY DEF Switched
  <1>1. PICK c \in Codes, o \in Codes :
            d = Refresh(u, Refresh(u, [sdk EXCEPT !.user = b], c), o)
    BY DEF Switched
  <1>2. PICK turned : turned = [sdk EXCEPT !.user = b]
    OBVIOUS
  <1>3. turned \in Devices /\ turned.listeners = sdk.listeners
    BY <1>2 DEF Devices
  <1>4. PICK once \in Devices : once = Refresh(u, turned, c)
    BY <1>3, RefreshType
  <1>5. once.listeners = sdk.listeners
    BY <1>3, <1>4, RefreshType
  <1>6. d = Refresh(u, once, o)
    BY <1>1, <1>2, <1>4
  <1>. QED
    BY <1>5, <1>6, RefreshType

\* Issuing a write keeps the listeners.
LEMMA IssueType ==
    ASSUME NEW u \in Users, NEW sdk \in Devices, NEW w \in Writes
    PROVE  /\ Issue(u, sdk, w) \in Devices
           /\ Issue(u, sdk, w).listeners = sdk.listeners
  <1>1. w.code \in Codes
    BY WriteParts
  <1>2. PICK n \in Int : n = NumberFor(w, Local(u, sdk, w.code))
    BY <1>1, LocalType, NumberForType
  <1>3. PICK x \in Writes : x = [w EXCEPT !.num = n]
    BY DEF Writes
  <1>4. PICK r \in Seq(Writes) : r = Append(sdk.queue[sdk.user], x)
    <2>1. sdk.queue[sdk.user] \in Seq(Writes)
      BY DeviceParts
    <2>. QED
      BY <2>1, AppendProperties, Zenon
  <1>5. PICK q : q = [sdk.queue EXCEPT ![sdk.user] = r]
    OBVIOUS
  <1>6. q \in [BOOLEAN -> Seq(Writes)]
    BY <1>5, DeviceParts
  <1>7. PICK queued : queued = [sdk EXCEPT !.queue = q]
    OBVIOUS
  <1>8. queued \in Devices /\ queued.listeners = sdk.listeners
    BY <1>6, <1>7 DEF Devices
  <1>9. Issue(u, sdk, w) = Refresh(u, queued, w.code)
    BY <1>2, <1>3, <1>4, <1>5, <1>7 DEF Issue
  <1>. QED
    BY <1>1, <1>8, <1>9, RefreshType

\* Adding a listener adds one, and takes none away.
LEMMA WatchType ==
    ASSUME NEW u \in Users, NEW sdk \in Devices, NEW c \in Codes
    PROVE  /\ Watch(u, sdk, c) \in Devices
           /\ Watch(u, sdk, c).listeners[c] > 0
           /\ \A o \in Codes : Watch(u, sdk, c).listeners[o] >= sdk.listeners[o]
  <1>1. sdk.listeners[c] + 1 \in Nat /\ sdk.fresh[c] + 1 \in Nat /\ sdk.fresh[c] \in Nat
    BY DeviceParts
  <1>2. PICK l : l = [sdk.listeners EXCEPT ![c] = sdk.listeners[c] + 1]
    OBVIOUS
  <1>3. l \in [Codes -> Nat] /\ l[c] > 0 /\ \A o \in Codes : l[o] >= sdk.listeners[o]
    BY <1>1, <1>2, DeviceParts
  <1>4. PICK d : d = IF sdk.listeners[c] = 0 THEN Visible(Local(u, sdk, c)) ELSE sdk.shown[c]
    OBVIOUS
  <1>5. d \in Docs \cup {NoDoc}
    BY <1>4, LocalType, DeviceParts
  <1>6. PICK heard \in BOOLEAN : heard = (d # NoDoc \/ sdk.link[c] # "connecting")
    OBVIOUS
  <1>7. PICK v : v = [sdk.shown EXCEPT ![c] = d]
    OBVIOUS
  <1>8. v \in [Codes -> Docs \cup {NoDoc}]
    BY <1>5, <1>7, DeviceParts
  <1>9. PICK f : f = [sdk.fresh EXCEPT ![c] = IF heard THEN @ ELSE @ + 1]
    OBVIOUS
  <1>10. f \in [Codes -> Nat]
    BY <1>1, <1>9, DeviceParts
  <1>11. PICK i : i = Called(sdk.inbox, IF heard THEN 1 ELSE 0, Snapshot(c, d))
    OBVIOUS
  <1>12. i \in Seq(Events)
    <2>1. Snapshot(c, d) \in Events /\ sdk.inbox \in Seq(Events)
      BY <1>5, DeviceParts DEF Snapshot, Events
    <2>2. CASE heard
      BY <1>11, <2>1, <2>2, CalledType
    <2>3. CASE ~heard
      BY <1>11, <2>1, <2>3, CalledType
    <2>. QED
      BY <2>2, <2>3
  <1>13. Watch(u, sdk, c) = [sdk EXCEPT !.listeners = l, !.shown = v, !.fresh = f, !.inbox = i]
    BY <1>2, <1>4, <1>6, <1>7, <1>9, <1>11 DEF Watch
  <1>14. Watch(u, sdk, c) \in Devices /\ Watch(u, sdk, c).listeners = l
    BY <1>3, <1>8, <1>10, <1>12, <1>13 DEF Devices
  <1>. QED
    BY <1>3, <1>14

\* Getting further with a document keeps the listeners.
LEMMA ReachType ==
    ASSUME NEW sdk \in Devices, NEW c \in Codes, NEW n \in Links
    PROVE  /\ Reach(sdk, c, n) \in Devices
           /\ Reach(sdk, c, n).listeners = sdk.listeners
  <1>1. PICK k : k = [sdk.link EXCEPT ![c] = n]
    OBVIOUS
  <1>2. PICK f : f = [sdk.fresh EXCEPT ![c] = 0]
    OBVIOUS
  <1>3. k \in [Codes -> Links] /\ f \in [Codes -> Nat]
    BY <1>1, <1>2, DeviceParts
  <1>4. PICK i : i = Called(sdk.inbox, sdk.fresh[c], Snapshot(c, sdk.shown[c]))
    OBVIOUS
  <1>5. i \in Seq(Events)
    <2>1. sdk.shown[c] \in Docs \cup {NoDoc} /\ sdk.fresh[c] \in Nat /\ sdk.inbox \in Seq(Events)
      BY DeviceParts
    <2>2. Snapshot(c, sdk.shown[c]) \in Events
      BY <2>1 DEF Snapshot, Events
    <2>. QED
      BY <1>4, <2>1, <2>2, CalledType
  <1>6. Reach(sdk, c, n) = [sdk EXCEPT !.link = k, !.fresh = f, !.inbox = i]
    BY <1>1, <1>2, <1>4 DEF Reach
  <1>. QED
    BY <1>3, <1>5, <1>6 DEF Devices, Links

\* A document from the server keeps the listeners.
LEMMA ReceiveType ==
    ASSUME NEW u \in Users, NEW sdk \in Devices, NEW c \in Codes,
           NEW remote \in Docs \cup {NoDoc}
    PROVE  /\ Receive(u, sdk, c, remote) \in Devices
           /\ Receive(u, sdk, c, remote).listeners = sdk.listeners
  <1>. DEFINE Seen(w) == IF w.code = c /\ w.reply = "ok" THEN [w EXCEPT !.reply = "seen"] ELSE w
  <1>1. PICK q : q = [b \in BOOLEAN |-> [i \in DOMAIN sdk.queue[b] |-> Seen(sdk.queue[b][i])]]
    OBVIOUS
  <1>2. \A w \in Writes : Seen(w) \in Writes
    BY DEF Writes
  <1>3. q \in [BOOLEAN -> Seq(Writes)]
    <2>. HIDE DEF Seen
    <2>1. ASSUME NEW b \in BOOLEAN PROVE q[b] \in Seq(Writes)
      <3>1. PICK old \in Seq(Writes) : old = sdk.queue[b]
        BY DeviceParts
      <3>2. DOMAIN old = 1 .. Len(old) /\ Len(old) \in Nat
            /\ \A i \in 1 .. Len(old) : old[i] \in Writes
        OBVIOUS
      <3>3. [i \in 1 .. Len(old) |-> Seen(old[i])] \in [1 .. Len(old) -> Writes]
        BY <1>2, <3>2
      <3>4. q[b] = [i \in 1 .. Len(old) |-> Seen(old[i])]
        BY <1>1, <3>1, <3>2, Zenon
      <3>. QED
        BY <3>2, <3>3, <3>4, SeqOf
    <2>. QED
      BY <1>1, <2>1
  <1>4. PICK k : k = [sdk.cache EXCEPT ![c] = remote]
    OBVIOUS
  <1>5. PICK a : a = [sdk.acked EXCEPT ![c] = FALSE]
    OBVIOUS
  <1>6. k \in [Codes -> CachedDocs] /\ a \in [Codes -> BOOLEAN]
    BY <1>4, <1>5, DeviceParts DEF CachedDocs
  <1>7. PICK known : known = [sdk EXCEPT !.cache = k, !.acked = a, !.queue = q]
    OBVIOUS
  <1>8. known \in Devices /\ known.listeners = sdk.listeners
    BY <1>3, <1>6, <1>7 DEF Devices, CachedDocs
  <1>9. Receive(u, sdk, c, remote) = Reach(Refresh(u, known, c), c, "synced")
    BY <1>1, <1>4, <1>5, <1>7, Zenon DEF Receive
  <1>10. "synced" \in Links
    BY DEF Links
  <1>11. PICK fresh \in Devices : fresh = Refresh(u, known, c)
    BY <1>8, RefreshType
  <1>12. fresh.listeners = sdk.listeners
    BY <1>8, <1>11, RefreshType
  <1>. QED
    BY <1>9, <1>10, <1>11, <1>12, ReachType

\* An acknowledgement takes the oldest pending write off its queue and keeps the
\* listeners.
LEMMA AcknowledgeType ==
    ASSUME NEW u \in Users, NEW sdk \in Devices, Pending(sdk) # <<>>
    PROVE  /\ Acknowledge(u, sdk) \in Devices
           /\ Acknowledge(u, sdk).listeners = sdk.listeners
  <1>1. PICK w \in Writes : w = Head(Pending(sdk))
    BY DeviceParts, HeadTailProperties, Zenon
  <1>2. PICK r \in Seq(Writes) : r = Tail(sdk.queue[sdk.user])
    <2>1. Pending(sdk) \in Seq(Writes) /\ Pending(sdk) = sdk.queue[sdk.user]
      BY DeviceParts DEF Pending
    <2>. QED
      BY <2>1, HeadTailProperties, Zenon
  <1>3. PICK q : q = [sdk.queue EXCEPT ![sdk.user] = r]
    OBVIOUS
  <1>4. q \in [BOOLEAN -> Seq(Writes)]
    BY <1>3, DeviceParts
  <1>5. PICK c \in Codes : c = w.code
    BY WriteParts
  <1>6. PICK new \in BOOLEAN : new = (w.reply = "ok")
    OBVIOUS
  <1>7. PICK d : d = IF ~Replaces(w) /\ Missing(sdk.cache[c]) THEN Unknown
                     ELSE Apply(u, w, w.counter, sdk.cache[c])
    OBVIOUS
  <1>8. d \in CachedDocs
    <2>1. sdk.cache[c] \in CachedDocs /\ w.counter \in Int
      BY DeviceParts, WriteParts
    <2>2. Apply(u, w, w.counter, sdk.cache[c]) \in CachedDocs
      BY <2>1, ApplyType
    <2>. QED
      BY <1>7, <2>2 DEF CachedDocs
  <1>9. PICK k : k = [sdk.cache EXCEPT ![c] = IF new THEN d ELSE @]
    OBVIOUS
  <1>10. PICK a : a = [sdk.acked EXCEPT ![c] = @ \/ new]
    OBVIOUS
  <1>11. k \in [Codes -> CachedDocs]
    BY <1>8, <1>9, DeviceParts
  <1>12. a \in [Codes -> BOOLEAN]
    BY <1>10, DeviceParts
  <1>13. PICK i : i = Called(sdk.inbox, IF Completes(w) THEN 1 ELSE 0, Completion(w))
    OBVIOUS
  <1>14. i \in Seq(Events)
    <2>1. CASE Completes(w)
      <3>1. Completion(w) \in Events
        BY <2>1 DEF Completes, Completion, Events, Writes
      <3>. QED
        BY <1>13, <2>1, <3>1, DeviceParts, CalledType
    <2>2. CASE ~Completes(w)
      BY <1>13, <2>2, DeviceParts, CalledType
    <2>. QED
      BY <2>1, <2>2
  <1>15. PICK rest : rest = [sdk EXCEPT !.queue = q, !.cache = k, !.acked = a, !.inbox = i]
    OBVIOUS
  <1>16. rest \in Devices /\ rest.listeners = sdk.listeners
    BY <1>4, <1>11, <1>12, <1>14, <1>15 DEF Devices, CachedDocs
  <1>17. Acknowledge(u, sdk) = Refresh(u, rest, c)
    BY <1>1, <1>2, <1>3, <1>5, <1>6, <1>7, <1>9, <1>10, <1>13, <1>15 DEF Acknowledge
  <1>. QED
    BY <1>16, <1>17, RefreshType

------------------------------------------------------------------------------
(* The operators and the invariant of SessionStore.tla. *)

\* A new SessionStore has the type of a store.
LEMMA NewStoreType == ASSUME NEW b \in BOOLEAN PROVE NewStore(b) \in Stores
  <1>1. NoLikes \in [{} -> SUBSET Restaurants]
    BY DEF NoLikes
  <1>2. NoLikes \in LikesMaps
    BY <1>1 DEF LikesMaps
  <1>. QED
    BY <1>2 DEF NewStore, Stores, Results, DefaultTime

\* Clearing a store keeps its type.
LEMMA ClearedType == ASSUME NEW s \in Stores
                     PROVE  Cleared(s) \in Stores /\ Cleared(s).sessionCode = NoCode
  <1>1. NoResult \in Results
    BY DEF Results
  <1>2. Cleared(s) \in Stores
    <2>1. PICK c \in Codes \cup {NoCode} : c = NoCode
      OBVIOUS
    <2>2. PICK n \in Int : n = 0
      OBVIOUS
    <2>3. [s EXCEPT !.sessionCode = c, !.numParticipants = n,
                    !.sessionLive = FALSE, !.result = NoResult] \in Stores
      BY <1>1 DEF Stores
    <2>. QED
      BY <2>1, <2>2, <2>3 DEF Cleared
  <1>3. Cleared(s).sessionCode = NoCode
    BY DEF Cleared, Stores
  <1>. QED
    BY <1>2, <1>3

\* A snapshot's data gives a store again, of the same session.
LEMMA AbsorbType ==
    ASSUME NEW s \in Stores, NEW d \in Docs, NEW b \in BOOLEAN
    PROVE  /\ Absorb(s, d) \in Stores
           /\ [Absorb(s, d) EXCEPT !.pushed = b] \in Stores
           /\ [Absorb(s, d) EXCEPT !.pushed = b].sessionCode = s.sessionCode
  <1>1. PICK r \in Results : r = IF d.result # NoResult THEN d.result ELSE s.result
    BY DEF Docs, Stores
  <1>2. PICK l \in BOOLEAN : l = (d.restaurantList \/ s.restaurantList)
    OBVIOUS
  <1>3. Absorb(s, d) = [s EXCEPT !.sessionLive = d.live, !.numParticipants = d.participants,
                                 !.result = r, !.restaurantList = l, !.finished = d.finished,
                                 !.likes = d.likes, !.time = d.time]
    BY <1>1, <1>2 DEF Absorb, Stores
  <1>4. /\ d.live \in BOOLEAN /\ d.participants \in Int /\ d.finished \in BOOLEAN
        /\ d.likes \in LikesMaps /\ d.time \in Int
    BY DEF Docs
  <1>5. Absorb(s, d) \in Stores
    <2>1. PICK s1 \in Stores : s1 = [s EXCEPT !.sessionLive = d.live,
                                             !.numParticipants = d.participants, !.result = r]
      BY <1>4 DEF Stores
    <2>2. [s1 EXCEPT !.restaurantList = l, !.finished = d.finished,
                     !.likes = d.likes, !.time = d.time] \in Stores
      BY <1>4 DEF Stores
    <2>. QED
      BY <1>3, <2>1, <2>2
  <1>6. Absorb(s, d).sessionCode = s.sessionCode
    BY <1>3 DEF Stores
  <1>. QED
    BY <1>5, <1>6 DEF Stores

\* The writes that the actions issue.
LEMMA WriteType ==
    ASSUME NEW op \in Ops, NEW c \in Codes
    PROVE  /\ Write(op, c) \in Writes
           /\ \A n \in Int : [Write(op, c) EXCEPT !.num = n] \in Writes
           /\ \A l \in SUBSET Restaurants : [Write(op, c) EXCEPT !.liked = l] \in Writes
           /\ \A r \in Results : [Write(op, c) EXCEPT !.sel = r] \in Writes
  <1>1. Write(op, c) \in Writes
    BY DEF Write, Writes, Results
  <1>. QED
    BY <1>1 DEF Writes

------------------------------------------------------------------------------
(* The inductive invariant: types, and listening also while the app is not  *)
(* running, when a store has no session code.                               *)

\* A device d and a store s that fit together.
Fits(d, s) == /\ d \in Devices
              /\ s \in Stores
              /\ s.sessionCode # NoCode => d.listeners[s.sessionCode] > 0

IInv == TypeOK /\ \A u \in Users : Fits(dev[u], store[u])

\* A step of one user is good if the user's new device and store fit together.
LEMMA LocalStep ==
    ASSUME IInv, NEW u \in Users, NEW d, NEW s, Fits(d, s),
           dev' = [dev EXCEPT ![u] = d], store' = [store EXCEPT ![u] = s],
           server' \in [Codes -> Docs \cup {NoDoc}],
           screen' \in [Users -> {"home", "create", "join"}],
           fetching' \in [Users -> BOOLEAN], running' \in [Users -> BOOLEAN],
           used' \in [Users -> [Kinds -> Nat]]
    PROVE  IInv'
  <1>1. dev' \in [Users -> Devices] /\ store' \in [Users -> Stores]
    BY DEF IInv, TypeOK, Fits
  <1>2. ASSUME NEW v \in Users PROVE Fits(dev'[v], store'[v])
    <2>1. CASE v = u
      <3>1. dev'[v] = d /\ store'[v] = s
        BY <2>1 DEF IInv, TypeOK
      <3>. QED
        BY <3>1
    <2>2. CASE v # u
      <3>1. dev'[v] = dev[v] /\ store'[v] = store[v]
        BY <2>2 DEF IInv, TypeOK
      <3>2. Fits(dev[v], store[v])
        BY DEF IInv
      <3>. QED
        BY <3>1, <3>2
    <2>. QED
      BY <2>1, <2>2
  <1>3. TypeOK'
    BY <1>1 DEF TypeOK
  <1>. QED
    BY <1>2, <1>3 DEF IInv

\* Issuing a write, running a callback and adding a listener keep the fit.
LEMMA IssueFits ==
    ASSUME NEW u \in Users, NEW d, NEW s, Fits(d, s), NEW w \in Writes
    PROVE  Fits(Issue(u, d, w), s)
  BY IssueType DEF Fits

LEMMA HandledFits ==
    ASSUME NEW d, NEW s, Fits(d, s), d.inbox # <<>>
    PROVE  /\ Fits(Handled(d), s)
           /\ Head(d.inbox) \in Events
  <1>1. d.inbox \in Seq(Events)
    BY DEF Fits, Devices
  <1>2. PICK i \in Seq(Events) : i = Tail(d.inbox)
    BY <1>1, HeadTailProperties, Zenon
  <1>3. Handled(d) = [d EXCEPT !.inbox = i]
    BY <1>2 DEF Handled
  <1>4. Handled(d) \in Devices /\ Handled(d).listeners = d.listeners
    BY <1>3 DEF Fits, Devices
  <1>5. Head(d.inbox) \in Events
    BY <1>1, HeadTailProperties, Zenon
  <1>. QED
    BY <1>4, <1>5 DEF Fits

LEMMA WatchFits ==
    ASSUME NEW u \in Users, NEW d \in Devices, NEW s \in Stores, NEW c \in Codes,
           s.sessionCode = c \/ Fits(d, s)
    PROVE  Fits(Watch(u, d, c), s)
  <1>1. /\ Watch(u, d, c) \in Devices
        /\ Watch(u, d, c).listeners[c] > 0
        /\ \A o \in Codes : Watch(u, d, c).listeners[o] >= d.listeners[o]
    BY WatchType
  <1>2. CASE s.sessionCode = c
    BY <1>1, <1>2 DEF Fits
  <1>3. CASE Fits(d, s)
    <2>1. ASSUME s.sessionCode # NoCode
          PROVE  Watch(u, d, c).listeners[s.sessionCode] > 0
      <3>1. s.sessionCode \in Codes
        BY <2>1 DEF Stores
      <3>2. /\ d.listeners[s.sessionCode] \in Nat
            /\ Watch(u, d, c).listeners[s.sessionCode] \in Nat
        BY <1>1, <3>1 DEF Devices
      <3>3. d.listeners[s.sessionCode] > 0
        BY <1>3, <2>1 DEF Fits
      <3>. QED
        BY <1>1, <3>1, <3>2, <3>3
    <2>. QED
      BY <1>1, <2>1 DEF Fits
  <1>. QED
    BY <1>2, <1>3

\* A store without a session code fits every device.
LEMMA OutOfSessionFits ==
    ASSUME NEW d \in Devices, NEW s \in Stores, s.sessionCode = NoCode
    PROVE  Fits(d, s)
  BY DEF Fits

\* The end of a process preserves the invariant.
LEMMA TerminateStep ==
    ASSUME IInv, NEW u \in Users, NEW d \in Devices, Terminate(u, d), UNCHANGED server,
           used' \in [Users -> [Kinds -> Nat]]
    PROVE  IInv'
  <1>1. store[u].session \in BOOLEAN
    BY DEF IInv, TypeOK, Stores
  <1>2. OnDisk(d, store[u].session) \in Devices
    BY <1>1, OnDiskType
  <1>3. NewStore(store[u].session) \in Stores /\ NewStore(store[u].session).sessionCode = NoCode
    BY <1>1, NewStoreType DEF NewStore
  <1>4. Fits(OnDisk(d, store[u].session), NewStore(store[u].session))
    BY <1>2, <1>3, OutOfSessionFits
  <1>5. /\ server' \in [Codes -> Docs \cup {NoDoc}]
        /\ screen' \in [Users -> {"home", "create", "join"}]
        /\ fetching' \in [Users -> BOOLEAN] /\ running' \in [Users -> BOOLEAN]
    BY DEF IInv, TypeOK, Terminate
  <1>. QED
    BY <1>4, <1>5, LocalStep DEF Terminate

\* Initially no device is in a session.
LEMMA IInvInit == Init => IInv
  <1>. SUFFICES ASSUME Init PROVE IInv
    OBVIOUS
  <1>1. NewDevice \in Devices
    BY NewDeviceType
  <1>2. NewStore(TRUE) \in Stores /\ NewStore(TRUE).sessionCode = NoCode
    BY NewStoreType DEF NewStore
  <1>3. Fits(NewDevice, NewStore(TRUE))
    BY <1>1, <1>2, OutOfSessionFits
  <1>4. TypeOK
    BY <1>1, <1>2 DEF Init, TypeOK
  <1>. QED
    BY <1>3, <1>4 DEF Init, IInv

\* Doing a bounded thing once more keeps the type of the counters.
LEMMA CountType ==
    ASSUME TypeOK, NEW u \in Users, NEW k \in Kinds, Count(u, k)
    PROVE  used' \in [Users -> [Kinds -> Nat]]
  <1>1. used[u] \in [Kinds -> Nat] /\ used[u][k] + 1 \in Nat
    BY DEF TypeOK
  <1>2. [used[u] EXCEPT ![k] = @ + 1] \in [Kinds -> Nat]
    BY <1>1
  <1>. QED
    BY <1>2 DEF TypeOK, Count

\* The screen on top goes away: the screens and the counters keep their types.
LEMMA ScreenGoneType ==
    ASSUME TypeOK, NEW u \in Users, ScreenGone(u)
    PROVE  /\ screen' \in [Users -> {"home", "create", "join"}]
           /\ used' \in [Users -> [Kinds -> Nat]]
  <1>1. "back" \in Kinds
    BY DEF Kinds
  <1>2. CASE Count(u, "back")
    BY <1>1, <1>2, CountType DEF ScreenGone, TypeOK
  <1>3. CASE UNCHANGED used
    BY <1>3 DEF ScreenGone, TypeOK
  <1>. QED
    BY <1>2, <1>3 DEF ScreenGone

\* Navigation and authentication preserve the invariant.
LEMMA NavigationStep ==
    ASSUME IInv, NEW u \in Users,
           \/ OpenCreate(u) \/ OpenJoin(u) \/ LeaveCreateScreen(u) \/ LeaveJoinScreen(u)
           \/ SignOut(u) \/ HearSignOut(u) \/ SignIn(u) \/ Quit(u) \/ Launch(u)
    PROVE  IInv'
  <1>. USE DEF Kinds
  <1>1. TypeOK /\ Fits(dev[u], store[u])
    BY DEF IInv
  <1>2. /\ dev = [dev EXCEPT ![u] = dev[u]] /\ store = [store EXCEPT ![u] = store[u]]
        /\ dev[u] \in Devices /\ store[u] \in Stores
    BY <1>1 DEF TypeOK
  <1>3. CASE OpenCreate(u)
    <2>1. PICK s : s = [store[u] EXCEPT !.createdSession = TRUE]
      OBVIOUS
    <2>2. Fits(dev[u], s)
      BY <1>1, <2>1 DEF Fits, Stores
    <2>3. store' = [store EXCEPT ![u] = s]
      BY <1>1, <1>3, <2>1 DEF OpenCreate
    <2>. QED
      BY <1>1, <1>2, <1>3, <2>2, <2>3, LocalStep DEF OpenCreate, TypeOK
  <1>4. CASE OpenJoin(u)
    BY <1>1, <1>2, <1>4, LocalStep DEF OpenJoin, TypeOK
  <1>5. CASE LeaveCreateScreen(u)
    <2>1. PICK d : d = IF ~store[u].sessionLive /\ store[u].sessionCode # NoCode
                       THEN Issue(u, dev[u], Write("delete", store[u].sessionCode))
                       ELSE dev[u]
      OBVIOUS
    <2>2. Fits(d, store[u])
      <3>1. store[u].sessionCode # NoCode => Write("delete", store[u].sessionCode) \in Writes
        BY <1>2, WriteType DEF Stores, Ops
      <3>. QED
        BY <1>1, <2>1, <3>1, IssueFits
    <2>3. dev' = [dev EXCEPT ![u] = d]
      BY <1>2, <1>5, <2>1 DEF LeaveCreateScreen
    <2>4. ScreenGone(u)
      BY <1>5 DEF LeaveCreateScreen
    <2>. QED
      BY <1>1, <1>2, <1>5, <2>2, <2>3, <2>4, ScreenGoneType, LocalStep
         DEF LeaveCreateScreen, TypeOK
  <1>6. CASE LeaveJoinScreen(u)
    <2>1. CASE Terminate(u, dev[u]) /\ UNCHANGED used
      BY <1>1, <1>2, <1>6, <2>1, TerminateStep DEF LeaveJoinScreen, TypeOK
    <2>2. CASE ~(Terminate(u, dev[u]) /\ UNCHANGED used)
      <3>1. PICK d : d = IF store[u].sessionCode # NoCode
                         THEN Issue(u, dev[u], Write("leave", store[u].sessionCode))
                         ELSE dev[u]
        OBVIOUS
      <3>2. Fits(d, store[u])
        <4>1. store[u].sessionCode # NoCode => Write("leave", store[u].sessionCode) \in Writes
          BY <1>2, WriteType DEF Stores, Ops
        <4>. QED
          BY <1>1, <3>1, <4>1, IssueFits
      <3>3. /\ ScreenGone(u) /\ UNCHANGED <<server, store, fetching, running>>
            /\ dev' = [dev EXCEPT ![u] = d]
        BY <1>2, <1>6, <2>2, <3>1 DEF LeaveJoinScreen
      <3>. QED
        BY <1>1, <1>2, <3>2, <3>3, ScreenGoneType, LocalStep DEF TypeOK
    <2>. QED
      BY <2>1, <2>2
  <1>7. CASE SignOut(u)
    <2>1. PICK s : s = [store[u] EXCEPT !.session = FALSE]
      OBVIOUS
    <2>2. Fits(dev[u], s)
      BY <1>1, <2>1 DEF Fits, Stores
    <2>3. store' = [store EXCEPT ![u] = s]
      BY <1>1, <1>7, <2>1 DEF SignOut
    <2>4. used' \in [Users -> [Kinds -> Nat]]
      BY <1>1, <1>7, CountType DEF SignOut
    <2>. QED
      BY <1>1, <1>2, <1>7, <2>2, <2>3, <2>4, LocalStep DEF SignOut, TypeOK
  <1>11. CASE HearSignOut(u)
    <2>1. PICK d \in Switched(u, dev[u], FALSE) : dev' = [dev EXCEPT ![u] = d]
      BY <1>11 DEF HearSignOut
    <2>2. Fits(d, store[u])
      <3>1. PICK b \in BOOLEAN : b = FALSE
        OBVIOUS
      <3>2. PICK now \in Devices : now = dev[u]
        BY <1>2
      <3>3. d \in Switched(u, now, b)
        BY <3>1, <3>2
      <3>4. d \in Devices /\ d.listeners = now.listeners
        BY <3>3, SwitchedType
      <3>. QED
        BY <1>1, <3>2, <3>4 DEF Fits
    <2>. QED
      BY <1>1, <1>2, <1>11, <2>1, <2>2, LocalStep DEF HearSignOut, TypeOK
  <1>8. CASE SignIn(u)
    <2>1. PICK s : s = [store[u] EXCEPT !.session = TRUE, !.createdSession = FALSE]
      OBVIOUS
    <2>2. PICK d \in Switched(u, dev[u], TRUE) :
              dev' = [dev EXCEPT ![u] = d] /\ store' = [store EXCEPT ![u] = s]
      BY <1>8, <2>1 DEF SignIn, Do
    <2>3. Fits(d, s)
      <3>1. PICK b \in BOOLEAN : b = TRUE
        OBVIOUS
      <3>2. PICK now \in Devices : now = dev[u]
        BY <1>2
      <3>3. d \in Switched(u, now, b)
        BY <3>1, <3>2
      <3>4. d \in Devices /\ d.listeners = now.listeners
        BY <3>3, SwitchedType
      <3>. QED
        BY <1>1, <2>1, <3>2, <3>4 DEF Fits, Stores
    <2>. QED
      BY <1>1, <1>8, <2>2, <2>3, LocalStep DEF SignIn, TypeOK
  <1>9. CASE Quit(u)
    <2>1. used' \in [Users -> [Kinds -> Nat]]
      BY <1>1, <1>9, CountType DEF Quit
    <2>. QED
      BY <1>2, <1>9, <2>1, TerminateStep DEF Quit
  <1>10. CASE Launch(u)
    BY <1>1, <1>2, <1>10, LocalStep DEF Launch, TypeOK
  <1>. QED
    BY <1>3, <1>4, <1>5, <1>6, <1>7, <1>8, <1>9, <1>10, <1>11

\* The operations of a session preserve the invariant.
LEMMA OperationStep ==
    ASSUME IInv, NEW u \in Users,
           \/ \E c \in Codes : CreateSession(u, c)
           \/ \E c \in Codes : JoinSession(u, c)
           \/ \E t \in TimeLimits, r \in Radii : Start(u, t, r)
           \/ ReceiveRestaurants(u) \/ FetchFails(u)
           \/ \E r \in Restaurants : LikeRestaurant(u, r)
           \/ EndSession(u)
    PROVE  IInv'
  <1>. USE DEF Kinds
  <1>1. TypeOK /\ Fits(dev[u], store[u])
    BY DEF IInv
  <1>2. /\ dev = [dev EXCEPT ![u] = dev[u]] /\ store = [store EXCEPT ![u] = store[u]]
        /\ dev[u] \in Devices /\ store[u] \in Stores
    BY <1>1 DEF TypeOK
  <1>3. store[u].sessionCode # NoCode => store[u].sessionCode \in Codes
    BY <1>2 DEF Stores
  <1>4. ASSUME NEW c \in Codes, CreateSession(u, c) PROVE IInv'
    <2>1. PICK d : d = Issue(u, dev[u], Write("create", c))
      OBVIOUS
    <2>2. d \in Devices
      BY <1>2, <2>1, IssueType, WriteType DEF Ops
    <2>3. PICK s : s = [store[u] EXCEPT !.sessionCode = c]
      OBVIOUS
    <2>4. s \in Stores /\ s.sessionCode = c
      BY <1>2, <2>3 DEF Stores
    <2>5. Fits(Watch(u, d, c), s)
      BY <2>2, <2>4, WatchFits
    <2>6. dev' = [dev EXCEPT ![u] = Watch(u, d, c)] /\ store' = [store EXCEPT ![u] = s]
      BY <1>4, <2>1, <2>3 DEF CreateSession, Do
    <2>7. used' \in [Users -> [Kinds -> Nat]]
      BY <1>1, <1>4, CountType DEF CreateSession
    <2>. QED
      BY <1>1, <1>4, <2>5, <2>6, <2>7, LocalStep DEF CreateSession, TypeOK
  <1>5. ASSUME NEW c \in Codes, JoinSession(u, c) PROVE IInv'
    <2>1. PICK d : d = Issue(u, dev[u], Write("join", c))
      OBVIOUS
    <2>2. Fits(d, store[u])
      BY <1>1, <2>1, IssueFits, WriteType DEF Ops
    <2>3. dev' = [dev EXCEPT ![u] = d]
      BY <1>5, <2>1 DEF JoinSession
    <2>4. used' \in [Users -> [Kinds -> Nat]]
      BY <1>1, <1>5, CountType DEF JoinSession
    <2>. QED
      BY <1>1, <1>2, <1>5, <2>2, <2>3, <2>4, LocalStep DEF JoinSession, TypeOK
  <1>6. ASSUME NEW t \in TimeLimits, NEW r \in Radii, Start(u, t, r) PROVE IInv'
    <2>1. PICK c \in Codes : c = store[u].sessionCode
      BY <1>3, <1>6 DEF Start
    <2>2. t \in Int /\ r \in Int
      BY FirestoreAssumption
    <2>3. /\ [Write("time", c) EXCEPT !.num = t] \in Writes
          /\ [Write("radius", c) EXCEPT !.num = r] \in Writes
          /\ Write("start", c) \in Writes
      BY <2>2, WriteType DEF Ops
    <2>4. PICK d1 : d1 = Issue(u, dev[u], [Write("time", c) EXCEPT !.num = t])
      OBVIOUS
    <2>5. PICK d2 : d2 = Issue(u, d1, [Write("radius", c) EXCEPT !.num = r])
      OBVIOUS
    <2>6. PICK d3 : d3 = Issue(u, d2, Write("start", c))
      OBVIOUS
    <2>7. Fits(d3, store[u])
      <3>1. Fits(d1, store[u])
        BY <1>1, <2>3, <2>4, IssueFits
      <3>2. Fits(d2, store[u])
        BY <3>1, <2>3, <2>5, IssueFits
      <3>. QED
        BY <3>2, <2>3, <2>6, IssueFits
    <2>8. Fits(Watch(u, d3, c), store[u])
      BY <1>2, <2>7, WatchFits DEF Fits
    <2>9. dev' = [dev EXCEPT ![u] = Watch(u, d3, c)]
      BY <1>6, <2>1, <2>4, <2>5, <2>6 DEF Start
    <2>10. used' \in [Users -> [Kinds -> Nat]]
      BY <1>1, <1>6, CountType DEF Start
    <2>11. PICK d4 : d4 = Watch(u, d3, c)
      OBVIOUS
    <2>12. /\ Fits(d4, store[u]) /\ dev' = [dev EXCEPT ![u] = d4]
           /\ store' = [store EXCEPT ![u] = store[u]]
      BY <1>1, <1>6, <2>8, <2>9, <2>11 DEF Start, TypeOK
    <2>13. /\ server' \in [Codes -> Docs \cup {NoDoc}]
           /\ screen' \in [Users -> {"home", "create", "join"}]
           /\ fetching' \in [Users -> BOOLEAN] /\ running' \in [Users -> BOOLEAN]
      BY <1>1, <1>6 DEF Start, TypeOK
    <2>. QED
      BY <2>10, <2>12, <2>13, LocalStep
  <1>7. CASE ReceiveRestaurants(u)
    <2>1. CASE store[u].sessionCode = NoCode
      BY <1>1, <1>2, <1>7, <2>1, TerminateStep DEF ReceiveRestaurants, TypeOK
    <2>2. CASE store[u].sessionCode # NoCode
      <3>1. PICK d : d = Issue(u, dev[u], Write("list", store[u].sessionCode))
        OBVIOUS
      <3>2. Fits(d, store[u])
        BY <1>1, <1>3, <2>2, <3>1, IssueFits, WriteType DEF Ops
      <3>3. dev' = [dev EXCEPT ![u] = d]
        BY <1>7, <2>2, <3>1 DEF ReceiveRestaurants
      <3>4. /\ UNCHANGED <<server, store, screen, running, used>>
            /\ fetching' = [fetching EXCEPT ![u] = FALSE]
        BY <1>7, <2>2 DEF ReceiveRestaurants
      <3>. QED
        BY <1>1, <1>2, <3>2, <3>3, <3>4, LocalStep DEF TypeOK
    <2>. QED
      BY <2>1, <2>2
  <1>8. CASE FetchFails(u)
    BY <1>1, <1>2, <1>8, LocalStep DEF FetchFails, TypeOK
  <1>9. ASSUME NEW r \in Restaurants, LikeRestaurant(u, r) PROVE IInv'
    <2>1. PICK l \in SUBSET Restaurants : l = store[u].likedRestaurants \cup {r}
      BY <1>2 DEF Stores
    <2>2. PICK s : s = [store[u] EXCEPT !.likedRestaurants = l]
      OBVIOUS
    <2>3. Fits(dev[u], s)
      BY <1>1, <2>2 DEF Fits, Stores
    <2>4. store' = [store EXCEPT ![u] = s]
      BY <1>1, <1>9, <2>1, <2>2 DEF LikeRestaurant
    <2>. QED
      BY <1>1, <1>2, <1>9, <2>3, <2>4, LocalStep DEF LikeRestaurant, TypeOK
  <1>10. CASE EndSession(u)
    <2>1. used' \in [Users -> [Kinds -> Nat]]
      BY <1>1, <1>10, CountType DEF EndSession
    <2>2. CASE store[u].sessionCode = NoCode
      BY <1>2, <1>10, <2>1, <2>2, TerminateStep DEF EndSession
    <2>3. CASE store[u].sessionCode # NoCode
      <3>1. PICK d : d = Issue(u, dev[u], Write("end", store[u].sessionCode))
        OBVIOUS
      <3>2. Fits(d, store[u])
        BY <1>1, <1>3, <2>3, <3>1, IssueFits, WriteType DEF Ops
      <3>3. dev' = [dev EXCEPT ![u] = d]
        BY <1>10, <2>3, <3>1 DEF EndSession
      <3>4. UNCHANGED <<server, store, screen, fetching, running>>
        BY <1>10, <2>3 DEF EndSession
      <3>. QED
        BY <1>1, <1>2, <2>1, <3>2, <3>3, <3>4, LocalStep DEF TypeOK
    <2>. QED
      BY <2>2, <2>3
  <1>. QED
    BY <1>4, <1>5, <1>6, <1>7, <1>8, <1>9, <1>10

\* What a snapshot with data does preserves the invariant, whether or not it
\* pushes, computes the result or traps.
LEMMA SnapshotDataStep ==
    ASSUME IInv, NEW u \in Users, SnapshotData(u)
    PROVE  IInv'
  <1>1. TypeOK /\ Fits(dev[u], store[u])
    BY DEF IInv
  <1>2. dev[u] \in Devices /\ store[u] \in Stores
    BY <1>1 DEF TypeOK
  <1>3. dev[u].inbox # <<>> /\ Head(dev[u].inbox).data # NoDoc
    BY DEF SnapshotData, Arrived, CallbackDue
  <1>4. PICK popped : popped = Handled(dev[u])
    OBVIOUS
  <1>5. Fits(popped, store[u]) /\ Head(dev[u].inbox) \in Events
    BY <1>1, <1>3, <1>4, HandledFits
  <1>6. PICK d \in Docs : d = Head(dev[u].inbox).data
    BY <1>3, <1>5 DEF Events
  <1>7. PICK push \in BOOLEAN : push = MustPush(store[u], d)
    BY DEF MustPush
  <1>8. PICK calc \in BOOLEAN : calc = MustCalc(store[u], d)
    BY DEF MustCalc
  <1>9. PICK after : after = IF push THEN PushResults(u, popped) ELSE popped
    OBVIOUS
  <1>10. PICK new : new = [Absorb(store[u], d) EXCEPT !.pushed = @ \/ push]
    OBVIOUS
  <1>11. PICK pt \in BOOLEAN : pt = (push /\ (store[u].sessionCode = NoCode \/ ~store[u].session))
    OBVIOUS
  <1>12. PICK ct \in BOOLEAN : ct = (calc /\ (store[u].sessionCode = NoCode \/ DOMAIN d.likes = {}))
    OBVIOUS
  <1>13. /\ UNCHANGED <<server, used>>
         /\ \/ pt /\ Terminate(u, popped)
            \/ ~pt /\ ct /\ (Terminate(u, popped) \/ Terminate(u, after))
            \/ /\ ~pt /\ ~ct /\ ~calc /\ Do(u, after, new)
               /\ UNCHANGED <<screen, fetching, running>>
            \/ /\ ~pt /\ ~ct /\ calc
               /\ \E sel \in Selections(d.likes) : Do(u, CalcResult(u, after, sel), new)
               /\ UNCHANGED <<screen, fetching, running>>
    BY <1>4, <1>6, <1>7, <1>8, <1>9, <1>10, <1>11, <1>12 DEF SnapshotData
  <1>14. ~pt => Fits(after, store[u])
    <2>1. CASE push /\ ~pt
      <3>1. PICK c \in Codes : c = store[u].sessionCode
        BY <1>2, <1>11, <2>1 DEF Stores
      <3>2. PICK l \in SUBSET Restaurants : l = store[u].likedRestaurants
        BY <1>2 DEF Stores
      <3>3. [Write("push", c) EXCEPT !.liked = l] \in Writes
        BY WriteType DEF Ops
      <3>4. after = Issue(u, popped, [Write("push", c) EXCEPT !.liked = l])
        BY <1>9, <2>1, <3>1, <3>2 DEF PushResults
      <3>. QED
        BY <1>5, <3>3, <3>4, IssueFits
    <2>2. CASE ~push
      BY <1>5, <1>9, <2>2
    <2>. QED
      BY <2>1, <2>2
  <1>15. new \in Stores /\ new.sessionCode = store[u].sessionCode
    <2>1. PICK b \in BOOLEAN : b = (Absorb(store[u], d).pushed \/ push)
      OBVIOUS
    <2>2. new = [Absorb(store[u], d) EXCEPT !.pushed = b]
      BY <1>10, <2>1
    <2>. QED
      BY <1>2, <2>2, AbsorbType
  <1>16. CASE \/ pt /\ Terminate(u, popped)
              \/ ~pt /\ ct /\ (Terminate(u, popped) \/ Terminate(u, after))
    <2>1. used' \in [Users -> [Kinds -> Nat]] /\ UNCHANGED server
      BY <1>1, <1>13 DEF TypeOK
    <2>2. CASE Terminate(u, popped)
      BY <1>5, <2>1, <2>2, TerminateStep DEF Fits
    <2>3. CASE ~pt /\ Terminate(u, after)
      BY <1>14, <2>1, <2>3, TerminateStep DEF Fits
    <2>. QED
      BY <1>16, <2>2, <2>3
  <1>17. CASE /\ ~pt /\ ~ct /\ ~calc /\ Do(u, after, new)
              /\ UNCHANGED <<screen, fetching, running>>
    <2>1. Fits(after, new)
      BY <1>14, <1>15, <1>17 DEF Fits
    <2>. QED
      BY <1>1, <1>13, <1>17, <2>1, LocalStep DEF Do, TypeOK
  <1>18. CASE /\ ~pt /\ ~ct /\ calc
              /\ \E sel \in Selections(d.likes) : Do(u, CalcResult(u, after, sel), new)
              /\ UNCHANGED <<screen, fetching, running>>
    <2>1. PICK sel \in Selections(d.likes) : Do(u, CalcResult(u, after, sel), new)
      BY <1>18
    <2>2. sel \in Results
      BY DEF Selections, Consensus, Results
    <2>3. PICK c \in Codes : c = store[u].sessionCode
      BY <1>2, <1>12, <1>18 DEF Stores
    <2>4. [Write("result", c) EXCEPT !.sel = sel] \in Writes
      BY <2>2, WriteType DEF Ops
    <2>5. PICK dd : dd = Issue(u, after, [Write("result", c) EXCEPT !.sel = sel])
      OBVIOUS
    <2>6. dd = CalcResult(u, after, sel)
      BY <2>3, <2>5 DEF CalcResult
    <2>7. Fits(after, new)
      BY <1>14, <1>15, <1>18 DEF Fits
    <2>8. Fits(dd, new)
      BY <2>4, <2>5, <2>7, IssueFits
    <2>. QED
      BY <1>1, <1>13, <1>18, <2>1, <2>6, <2>8, LocalStep DEF Do, TypeOK
  <1>. QED
    BY <1>13, <1>16, <1>17, <1>18

\* The callbacks preserve the invariant.
LEMMA CallbackStep ==
    ASSUME IInv, NEW u \in Users, Callback(u)
    PROVE  IInv'
  <1>1. TypeOK /\ Fits(dev[u], store[u])
    BY DEF IInv
  <1>2. dev[u] \in Devices /\ store[u] \in Stores
    BY <1>1 DEF TypeOK
  <1>3. dev[u].inbox # <<>>
    BY DEF Callback, Joined, Left, Deleted, SnapshotGone, SnapshotData, Arrived, CallbackDue
  <1>4. PICK d : d = Handled(dev[u])
    OBVIOUS
  <1>5. PICK e \in Events : e = Head(dev[u].inbox)
    BY <1>1, <1>3, HandledFits
  <1>6. Fits(d, store[u])
    BY <1>1, <1>3, <1>4, HandledFits
  <1>7. d \in Devices /\ e.code \in Codes /\ e.data \in Docs \cup {NoDoc}
    BY <1>6 DEF Fits, Events
  <1>8. CASE Joined(u)
    <2>1. UNCHANGED <<server, screen, fetching, running, used>>
      BY <1>8 DEF Joined
    <2>2. CASE e.ok
      <3>1. PICK s : s = [store[u] EXCEPT !.sessionCode = e.code]
        OBVIOUS
      <3>2. s \in Stores /\ s.sessionCode = e.code
        BY <1>2, <1>7, <3>1 DEF Stores
      <3>3. Fits(Watch(u, d, e.code), s)
        BY <1>7, <3>2, WatchFits
      <3>4. dev' = [dev EXCEPT ![u] = Watch(u, d, e.code)] /\ store' = [store EXCEPT ![u] = s]
        BY <1>4, <1>5, <1>8, <2>2, <3>1 DEF Joined, Do
      <3>. QED
        BY <1>1, <2>1, <3>3, <3>4, LocalStep DEF TypeOK
    <2>3. CASE ~e.ok
      <3>1. PICK s : s = [store[u] EXCEPT !.sessionError = "join"]
        OBVIOUS
      <3>2. Fits(d, s)
        BY <1>6, <3>1 DEF Fits, Stores
      <3>3. dev' = [dev EXCEPT ![u] = d] /\ store' = [store EXCEPT ![u] = s]
        BY <1>4, <1>5, <1>8, <2>3, <3>1 DEF Joined, Do
      <3>. QED
        BY <1>1, <2>1, <3>2, <3>3, LocalStep DEF TypeOK
    <2>. QED
      BY <2>2, <2>3
  <1>9. CASE Left(u)
    <2>1. UNCHANGED <<server, screen, fetching, running, used>>
      BY <1>9 DEF Left
    <2>2. PICK s : s = IF e.ok THEN Cleared(store[u])
                       ELSE [store[u] EXCEPT !.sessionError = "leave"]
      OBVIOUS
    <2>3. Fits(d, s)
      <3>1. CASE e.ok
        BY <1>2, <1>7, <2>2, <3>1, ClearedType, OutOfSessionFits
      <3>2. CASE ~e.ok
        BY <1>6, <2>2, <3>2 DEF Fits, Stores
      <3>. QED
        BY <3>1, <3>2
    <2>4. dev' = [dev EXCEPT ![u] = d] /\ store' = [store EXCEPT ![u] = s]
      BY <1>4, <1>5, <1>9, <2>2 DEF Left, Do
    <2>. QED
      BY <1>1, <2>1, <2>3, <2>4, LocalStep DEF TypeOK
  <1>10. CASE Deleted(u)
    <2>1. Fits(d, Cleared(store[u]))
      BY <1>2, <1>7, ClearedType, OutOfSessionFits
    <2>2. /\ dev' = [dev EXCEPT ![u] = d] /\ store' = [store EXCEPT ![u] = Cleared(store[u])]
          /\ UNCHANGED <<server, screen, fetching, running, used>>
      BY <1>4, <1>10 DEF Deleted, Do
    <2>. QED
      BY <1>1, <2>1, <2>2, LocalStep DEF TypeOK
  <1>11. CASE SnapshotGone(u)
    <2>1. PICK s1 : s1 = [store[u] EXCEPT !.sessionCode = NoCode, !.numParticipants = 0,
                                          !.result = NoResult]
      OBVIOUS
    <2>2. s1 \in Stores /\ s1.sessionCode = NoCode
      <3>1. NoResult \in Results
        BY DEF Results
      <3>2. PICK c \in Codes \cup {NoCode} : c = NoCode
        OBVIOUS
      <3>3. PICK n \in Int : n = 0
        OBVIOUS
      <3>4. [store[u] EXCEPT !.sessionCode = c, !.numParticipants = n,
                             !.result = NoResult] \in Stores
        BY <1>2, <3>1 DEF Stores
      <3>. QED
        BY <1>2, <2>1, <3>2, <3>3, <3>4 DEF Stores
    <2>3. PICK s : s = [s1 EXCEPT !.sessionError = "deleted", !.sessionDeleted = TRUE]
      OBVIOUS
    <2>4. s \in Stores /\ s.sessionCode = NoCode
      BY <2>2, <2>3 DEF Stores
    <2>5. Fits(d, s)
      BY <1>7, <2>4, OutOfSessionFits
    <2>6. /\ dev' = [dev EXCEPT ![u] = d] /\ store' = [store EXCEPT ![u] = s]
          /\ UNCHANGED <<server, screen, fetching, running, used>>
      BY <1>4, <1>11, <2>1, <2>3 DEF SnapshotGone, Do
    <2>. QED
      BY <1>1, <2>5, <2>6, LocalStep DEF TypeOK
  <1>12. CASE SnapshotData(u)
    BY <1>12, SnapshotDataStep
  <1>. QED
    BY <1>8, <1>9, <1>10, <1>11, <1>12 DEF Callback

\* The network's steps preserve the invariant.
LEMMA NetworkStep ==
    ASSUME IInv, NEW u \in Users,
           \/ \E b \in BOOLEAN : Commit(u, b)
           \/ Ack(u)
           \/ \E c \in Codes : Sync(u, c) \/ GoOffline(u, c)
    PROVE  IInv'
  <1>1. TypeOK /\ Fits(dev[u], store[u])
    BY DEF IInv
  <1>2. /\ store = [store EXCEPT ![u] = store[u]]
        /\ dev[u] \in Devices /\ store[u] \in Stores
    BY <1>1 DEF TypeOK
  <1>3. ASSUME NEW b \in BOOLEAN, Commit(u, b) PROVE IInv'
    <2>1. PICK i \in DOMAIN dev[u].queue[b] :
            LET w == dev[u].queue[b][i]
                d == server[w.code]
                n == NumberFor(w, d)
            IN  /\ server' = [server EXCEPT ![w.code] = Apply(u, w, n, d)]
                /\ dev' = [dev EXCEPT ![u].queue[b][i] =
                             [w EXCEPT !.counter = n,
                                       !.reply = IF Replaces(w) \/ d # NoDoc THEN "ok"
                                                 ELSE "failed"]]
      BY <1>3, Zenon DEF Commit
    <2>2. PICK q \in Seq(Writes) : q = dev[u].queue[b]
      BY <1>2, DeviceParts
    <2>3. PICK w \in Writes : w = dev[u].queue[b][i]
      BY <2>2
    <2>4. w.code \in Codes /\ server[w.code] \in Docs \cup {NoDoc}
      BY <1>1, WriteParts DEF TypeOK
    <2>5. PICK n \in Int : n = NumberFor(w, server[w.code])
      BY <2>4, NumberForType DEF CachedDocs
    <2>6. PICK remote : remote = Apply(u, w, n, server[w.code])
      OBVIOUS
    <2>7. remote \in Docs \cup {NoDoc}
      BY <2>4, <2>6, ApplyType DEF CachedDocs
    <2>8. PICK a \in {"ok", "failed"} :
            a = IF Replaces(w) \/ server[w.code] # NoDoc THEN "ok" ELSE "failed"
      OBVIOUS
    <2>9. PICK x \in Writes : x = [w EXCEPT !.counter = n, !.reply = a]
      BY DEF Writes
    <2>10. PICK r \in Seq(Writes) : r = [q EXCEPT ![i] = x]
      <3>1. i \in 1 .. Len(q) /\ Len(q) \in Nat /\ q \in [1 .. Len(q) -> Writes]
        BY <2>2
      <3>2. [q EXCEPT ![i] = x] \in [1 .. Len(q) -> Writes]
        BY <3>1
      <3>. QED
        BY <3>1, <3>2, SeqOf
    <2>11. PICK qs : qs = [dev[u].queue EXCEPT ![b] = r]
      OBVIOUS
    <2>12. qs \in [BOOLEAN -> Seq(Writes)]
      BY <1>2, <2>11, DeviceParts
    <2>13. PICK d : d = [dev[u] EXCEPT !.queue = qs]
      OBVIOUS
    <2>14. d \in Devices /\ d.listeners = dev[u].listeners
      BY <1>2, <2>12, <2>13 DEF Devices
    <2>15. Fits(d, store[u])
      BY <1>1, <2>14 DEF Fits
    <2>16. dev' = [dev EXCEPT ![u] = d]
      <3>1. dev' = [dev EXCEPT ![u].queue[b][i] = x]
        BY <2>1, <2>3, <2>5, <2>8, <2>9
      <3>. QED
        BY <2>2, <2>10, <2>11, <2>13, <3>1
    <2>17. /\ server' = [server EXCEPT ![w.code] = remote]
           /\ UNCHANGED <<store, screen, fetching, running, used>>
      BY <1>3, <2>1, <2>3, <2>5, <2>6 DEF Commit
    <2>18. server' \in [Codes -> Docs \cup {NoDoc}]
      BY <1>1, <2>7, <2>17 DEF TypeOK
    <2>. QED
      BY <1>1, <1>2, <2>15, <2>16, <2>17, <2>18, LocalStep DEF TypeOK
  <1>4. CASE Ack(u)
    <2>1. PICK d : d = Acknowledge(u, dev[u])
      OBVIOUS
    <2>2. Pending(dev[u]) # <<>>
      BY <1>4 DEF Ack, AckDue
    <2>3. Fits(d, store[u])
      BY <1>1, <1>2, <2>1, <2>2, AcknowledgeType DEF Fits
    <2>4. /\ dev' = [dev EXCEPT ![u] = d]
          /\ UNCHANGED <<server, store, screen, fetching, running, used>>
      BY <1>4, <2>1 DEF Ack
    <2>. QED
      BY <1>1, <1>2, <2>3, <2>4, LocalStep DEF TypeOK
  <1>5. ASSUME NEW c \in Codes, Sync(u, c) PROVE IInv'
    <2>1. server[c] \in Docs \cup {NoDoc}
      BY <1>1 DEF TypeOK
    <2>2. PICK d : d = Receive(u, dev[u], c, server[c])
      OBVIOUS
    <2>3. Fits(d, store[u])
      BY <1>1, <1>2, <2>1, <2>2, ReceiveType DEF Fits
    <2>4. /\ dev' = [dev EXCEPT ![u] = d]
          /\ UNCHANGED <<server, store, screen, fetching, running, used>>
      BY <1>5, <2>2 DEF Sync
    <2>. QED
      BY <1>1, <1>2, <2>3, <2>4, LocalStep DEF TypeOK
  <1>6. ASSUME NEW c \in Codes, GoOffline(u, c) PROVE IInv'
    <2>1. PICK d : d = Reach(dev[u], c, "offline")
      OBVIOUS
    <2>2. Fits(d, store[u])
      BY <1>1, <1>2, <2>1, ReachType DEF Fits, Links
    <2>3. /\ dev' = [dev EXCEPT ![u] = d]
          /\ UNCHANGED <<server, store, screen, fetching, running>>
      BY <1>6, <2>1 DEF GoOffline
    <2>4. used' \in [Users -> [Kinds -> Nat]]
      BY <1>1, <1>6, CountType DEF GoOffline, Kinds
    <2>. QED
      BY <1>1, <1>2, <2>2, <2>3, <2>4, LocalStep DEF TypeOK
  <1>. QED
    BY <1>3, <1>4, <1>5, <1>6

------------------------------------------------------------------------------

\* The inductive invariant is an invariant of the specification.
LEMMA Invariance == Spec => []IInv
  <1>1. IInv /\ [Next]_vars => IInv'
    <2>. SUFFICES ASSUME IInv, [Next]_vars PROVE IInv'
      OBVIOUS
    <2>1. CASE UNCHANGED vars
      BY <2>1 DEF vars, IInv, TypeOK
    <2>2. CASE Next
      <3>1. PICK u \in Users :
              \/ OpenCreate(u) \/ OpenJoin(u)
              \/ LeaveCreateScreen(u) \/ LeaveJoinScreen(u)
              \/ SignOut(u) \/ HearSignOut(u) \/ SignIn(u) \/ Quit(u) \/ Launch(u)
              \/ \E c \in Codes : CreateSession(u, c)
              \/ \E c \in Codes : JoinSession(u, c)
              \/ \E t \in TimeLimits, r \in Radii : Start(u, t, r)
              \/ ReceiveRestaurants(u) \/ FetchFails(u)
              \/ \E r \in Restaurants : LikeRestaurant(u, r)
              \/ EndSession(u)
              \/ Callback(u)
              \/ \E b \in BOOLEAN : Commit(u, b)
              \/ Ack(u)
              \/ \E c \in Codes : Sync(u, c) \/ GoOffline(u, c)
        BY <2>2, Zenon DEF Next, Callback
      <3>. QED
        BY <3>1, NavigationStep, OperationStep, CallbackStep, NetworkStep, Zenon
    <2>. QED
      BY <2>1, <2>2
  <1>. QED
    BY <1>1, IInvInit, PTL DEF Spec

\* Every operation of the SessionStore, every callback and every step of the
\* network keeps the types of the state, traps and restarts included.
THEOREM TypeCorrect == Spec => []TypeOK
  <1>1. IInv => TypeOK
    BY DEF IInv
  <1>. QED
    BY <1>1, Invariance, PTL

\* A device that is in a session is listening to it, however sessions are
\* created, joined, left, deleted and restarted (SessionStore.swift:54, 128, 246).
THEOREM ListensToItsSession == Spec => []WatchesItsSession
  <1>1. IInv => WatchesItsSession
    BY DEF IInv, Fits, WatchesItsSession
  <1>. QED
    BY <1>1, Invariance, PTL
==============================================================================
