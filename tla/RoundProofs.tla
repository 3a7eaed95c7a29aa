------------------------------ MODULE RoundProofs ------------------------------
(***************************************************************************)
(* Rounds of the app in which nobody goes away.                            *)
(*                                                                         *)
(* While nobody goes back to the home screen, signs out or loses the       *)
(* connection for too long, no device traps: NoTrap for every set of users,*)
(* codes and restaurants, however many hosts and guests there are, whoever *)
(* closes the app, and whichever sessions share a code.  The argument:     *)
(* nothing leaves or deletes a session, so a document that the server has  *)
(* stays, with at least one member; a device that listens to a document    *)
(* whose creation is not pending listens to one that the server has; so no *)
(* device is told that its document is gone, and a session code once set   *)
(* stays set while the process runs.                                       *)
(*                                                                         *)
(* With one host, any number of guests who each tap Join at most once, and *)
(* nobody closing the app either, the counters of a session's document     *)
(* count what they are compared for: CountersAgree.  The argument: there   *)
(* is one document, and it is created once; a user who is waiting to join  *)
(* is not a member, so a join adds one member; a device has at most one    *)
(* push that the server has not executed, only members push, so a push     *)
(* adds one member to those who have handed in their likes.                *)
(***************************************************************************)
EXTENDS MirrorProofs, FiniteSetTheorems

\* Nobody goes back, signs out or is offline for too long.
Calm == \A u \in Users : \A k \in {"back", "sign", "offline"} : Limit[u][k] = 0

\* The sessions that the server has.
Existing == {c \in Codes : server[c] # NoDoc}

\* The document d, if it is one, has a member.
Peopled(d) == ~Missing(d) => DOMAIN d.likes # {}

\* A pending or answered write: it takes nobody away, and the server has its
\* document if it was executed.
Harmless(w, E) == /\ w.op \notin {"leave", "delete"}
                  /\ w.reply \in {"ok", "seen"} => w.code \in E
                  /\ w.op = "create" => w.reply # "failed"

\* A callback on its way brings a document with a member or the good news that a
\* session was joined.
Welcome(e, E) == \/ /\ e.kind = "snapshot" /\ e.data # NoDoc /\ DOMAIN e.data.likes # {}
                 \/ /\ e.kind = "join" /\ (e.ok => e.code \in E)

Creates(d, c) == \E i \in DOMAIN Pending(d) : Pending(d)[i].op = "create" /\ Pending(d)[i].code = c

\* The device has document c, or has a pending write that creates it.
Holds(d, c) == ~Missing(d.cache[c]) \/ Creates(d, c)

SoundQueue(d, E) ==
    \A b \in BOOLEAN : \A i \in DOMAIN d.queue[b] :
        LET w == d.queue[b][i]
        IN  /\ Harmless(w, E)
            /\ w.op = "create" /\ w.reply = "seen" => ~Missing(d.cache[w.code])

SoundView(d, c, E) ==
    /\ Peopled(d.cache[c])
    /\ ~Missing(d.cache[c]) => c \in E
    /\ d.shown[c] # NoDoc => DOMAIN d.shown[c].likes # {} /\ Holds(d, c)
    /\ d.listeners[c] > 0 => c \in E \/ Creates(d, c)
    /\ d.link[c] # "connecting" => d.listeners[c] > 0 /\ d.shown[c] # NoDoc

SoundInbox(d, E) == \A i \in DOMAIN d.inbox : Welcome(d.inbox[i], E)

Sound(d, E) == /\ SoundQueue(d, E)
               /\ \A c \in Codes : SoundView(d, c, E)
               /\ SoundInbox(d, E)

\* A store whose user is signed in, and in a session if the device listens to one.
InSession(d, s, f) == /\ s.session
                      /\ f \/ s.sessionLive \/ (\E c \in Codes : d.listeners[c] > 0)
                            => s.sessionCode # NoCode

CInv == /\ \A c \in Codes : Peopled(server[c])
        /\ \A u \in Users : /\ Sound(dev[u], Existing)
                            /\ InSession(dev[u], store[u], fetching[u])
                            /\ used[u]["quit"] = 0 => running[u]

------------------------------------------------------------------------------
(* Documents *)

\* A new session has a member.
LEMMA NewDocPeopled == ASSUME NEW u \in Users PROVE DOMAIN NewDoc(u).likes # {}
  BY DEF NewDoc, SetLikes

\* Nothing but a leave takes a member away.
LEMMA PatchPeopled ==
    ASSUME NEW u \in Users, NEW w \in Writes, NEW n \in Int, NEW d \in Docs, ~Replaces(w),
           w.op # "leave", DOMAIN d.likes # {}
    PROVE  DOMAIN Patch(u, w, n, d).likes # {}
<1>1. w.op \in {"join", "push", "end", "result", "start", "list", "time", "radius"}
  BY WriteParts DEF Ops, Replaces
<1>2. CASE w.op = "join"
  <2>1. Patch(u, w, n, d).likes = SetLikes(d.likes, u, {})
    BY <1>2 DEF Patch, Docs
  <2> QED
    BY <2>1 DEF SetLikes
<1>3. CASE w.op = "push"
  <2>1. Patch(u, w, n, d).likes = SetLikes(d.likes, u, w.liked)
    BY <1>3 DEF Patch, Docs
  <2> QED
    BY <2>1 DEF SetLikes
<1>4. CASE w.op \in {"end", "start", "list"}
  BY <1>4 DEF Patch, Docs
<1>5. CASE w.op \in {"result", "time", "radius"}
  BY <1>5 DEF Patch, Docs
<1> QED
  BY <1>1, <1>2, <1>3, <1>4, <1>5

\* What a write that takes nobody away makes of a document.
LEMMA ApplyPeopled ==
    ASSUME NEW u \in Users, NEW w \in Writes, NEW n \in Int, NEW d \in CachedDocs, Peopled(d),
           w.op \notin {"leave", "delete"}
    PROVE  /\ Peopled(Apply(u, w, n, d))
           /\ Missing(Apply(u, w, n, d)) <=> Missing(d) /\ w.op # "create"
<1>1. CASE w.op = "create"
  <2>1. Apply(u, w, n, d) = NewDoc(u)
    BY <1>1 DEF Apply, Replaces
  <2> QED
    BY <1>1, <2>1, NewDocType, NewDocPeopled, MissingAssumption DEF Peopled, Missing
<1>2. CASE ~Replaces(w) /\ Missing(d)
  BY <1>2 DEF Apply, Replaces, Peopled
<1>3. CASE ~Replaces(w) /\ ~Missing(d)
  <2>1. d \in Docs
    BY <1>3 DEF Missing, CachedDocs
  <2>2. Apply(u, w, n, d) = Patch(u, w, n, d)
    BY <1>3 DEF Apply, Replaces
  <2>3. Patch(u, w, n, d) \in Docs /\ DOMAIN Patch(u, w, n, d).likes # {}
    BY <1>3, <2>1, PatchType, PatchPeopled DEF Peopled
  <2> QED
    BY <1>3, <2>2, <2>3, MissingAssumption DEF Peopled, Missing
<1> QED
  BY <1>1, <1>2, <1>3 DEF Replaces

\* A document with pending writes exists if it is cached or its creation is pending.
LEMMA OverlayPeopled ==
    ASSUME NEW u \in Users, NEW q \in Seq(Writes), NEW c \in Codes, NEW remote \in CachedDocs,
           Peopled(remote), \A i \in DOMAIN q : q[i].op \notin {"leave", "delete"}
    PROVE  /\ Peopled(Overlay(u, q, c, remote))
           /\ Missing(Overlay(u, q, c, remote)) <=>
                Missing(remote) /\ ~\E i \in DOMAIN q : q[i].op = "create" /\ q[i].code = c
<1> DEFINE on == {i \in DOMAIN q : q[i].code = c}
           whole == {i \in on : Replaces(q[i])}
           start == IF whole = {} THEN remote ELSE Apply(u, q[Max(whole)], 0, NoDoc)
           By(f) == {i \in on : f \in Assigns(q[i]) /\ \A j \in whole : j < i}
           Field(f) == IF By(f) = {} THEN start[f]
                       ELSE LET w == q[Max(By(f))] IN Patch(u, w, w.num, start)[f]
           creations == {i \in DOMAIN q : q[i].op = "create" /\ q[i].code = c}
<1>1. DOMAIN q = 1 .. Len(q) /\ Len(q) \in Nat /\ \A i \in 1 .. Len(q) : q[i] \in Writes
  OBVIOUS
<1>2. /\ start \in CachedDocs /\ Peopled(start)
      /\ Missing(start) <=> Missing(remote) /\ creations = {}
  <2>1. whole = creations
    BY DEF Replaces
  <2>2. CASE whole = {}
    BY <2>1, <2>2
  <2>3. CASE whole # {}
    <3>1. whole \in SUBSET (1 .. Len(q))
      BY <1>1
    <3>2. PICK m : m = Max(whole)
      OBVIOUS
    <3>3. m \in whole
      <4> HIDE DEF whole
      <4> QED
        BY <1>1, <2>3, <3>1, <3>2, MaxType
    <3>4. q[m] \in Writes /\ q[m].op = "create"
      BY <1>1, <2>1, <3>1, <3>3
    <3>5. start = NewDoc(u)
      BY <2>3, <3>2, <3>4 DEF Apply, Replaces
    <3> HIDE DEF start, whole, creations
    <3> QED
      BY <2>1, <2>3, <3>5, NewDocType, NewDocPeopled, MissingAssumption
         DEF CachedDocs, Peopled, Missing
  <2> QED
    BY <2>2, <2>3
<1>3. Overlay(u, q, c, remote) =
        IF Missing(start) THEN start
        ELSE [participants    |-> Field("participants"),
              live            |-> Field("live"),
              likes           |-> Field("likes"),
              result          |-> Field("result"),
              finished        |-> Field("finished"),
              restaurantList  |-> Field("restaurantList"),
              finishedPushing |-> Field("finishedPushing"),
              time            |-> Field("time"),
              radius          |-> Field("radius")]
  BY Zenon DEF Overlay
<1>4. CASE Missing(start)
  BY <1>2, <1>3, <1>4
<1>5. CASE ~Missing(start)
  <2>1. start \in Docs /\ DOMAIN start.likes # {}
    BY <1>2, <1>5 DEF Missing, CachedDocs, Peopled
  <2>2. DOMAIN Field("likes") # {}
    <3>1. CASE By("likes") = {}
      BY <2>1, <3>1
    <3>2. CASE By("likes") # {}
      <4>1. By("likes") \in SUBSET (1 .. Len(q))
        BY <1>1
      <4>2. PICK k : k = Max(By("likes"))
        OBVIOUS
      <4>3. k \in By("likes")
        <5> HIDE DEF By
        <5> QED
          BY <1>1, <3>2, <4>1, <4>2, MaxType
      <4>4. q[k] \in Writes /\ "likes" \in Assigns(q[k]) /\ q[k].op # "leave"
        BY <1>1, <4>1, <4>3
      <4>5. ~Replaces(q[k])
        BY <4>4 DEF Assigns, Replaces
      <4>6. DOMAIN Patch(u, q[k], q[k].num, start).likes # {}
        BY <2>1, <4>4, <4>5, PatchPeopled, WriteParts
      <4>7. Field("likes") = Patch(u, q[k], q[k].num, start)["likes"]
        BY <3>2, <4>2, Zenon
      <4> HIDE DEF Field
      <4> QED
        BY <4>6, <4>7
    <3> QED
      BY <3>1, <3>2
  <2>3. Overlay(u, q, c, remote) \in Docs
    <3>1. \/ Overlay(u, q, c, remote) \in Docs
          \/ Missing(remote) /\ \A i \in DOMAIN q : q[i].code = c => ~Replaces(q[i])
      BY OverlayType
    <3>2. ~(Missing(remote) /\ creations = {})
      BY <1>2, <1>5
    <3> QED
      BY <3>1, <3>2 DEF Replaces
  <2> HIDE DEF Field, start
  <2>4. Overlay(u, q, c, remote).likes = Field("likes")
    BY <1>3, <1>5
  <2>5. ~Missing(Overlay(u, q, c, remote))
    BY <2>3, MissingAssumption DEF Missing
  <2> QED
    BY <1>2, <1>5, <2>2, <2>4, <2>5 DEF Peopled
<1> QED
  BY <1>4, <1>5

------------------------------------------------------------------------------
(* Devices *)

\* The server gets more documents.
LEMMA SoundGrows ==
    ASSUME NEW d, NEW E, NEW F, E \subseteq F, Sound(d, E)
    PROVE  Sound(d, F)
<1>1. SoundQueue(d, F)
  BY DEF Sound, SoundQueue, Harmless
<1>2. \A c \in Codes : SoundView(d, c, F)
  BY DEF Sound, SoundView
<1>3. SoundInbox(d, F)
  BY DEF Sound, SoundInbox, Welcome
<1> QED
  BY <1>1, <1>2, <1>3 DEF Sound

\* A document that a device has or creates is visible, and has a member.
LEMMA LocalSound ==
    ASSUME NEW u \in Users, NEW d \in Devices, NEW E, SoundQueue(d, E), NEW c \in Codes,
           Peopled(d.cache[c])
    PROVE  /\ Peopled(Local(u, d, c))
           /\ Missing(Local(u, d, c)) <=> ~Holds(d, c)
           /\ Visible(Local(u, d, c)) # NoDoc <=> Holds(d, c)
           /\ Visible(Local(u, d, c)) # NoDoc => DOMAIN Visible(Local(u, d, c)).likes # {}
<1>1. PICK q \in Seq(Writes) : q = Pending(d)
  BY DeviceParts
<1>2. \A i \in DOMAIN q : q[i].op \notin {"leave", "delete"}
  <2>1. d.user \in BOOLEAN
    BY DeviceParts
  <2> QED
    BY <1>1, <2>1 DEF SoundQueue, Harmless, Pending
<1>3. d.cache[c] \in CachedDocs
  BY DeviceParts
<1>4. Local(u, d, c) = Overlay(u, q, c, d.cache[c])
  BY <1>1 DEF Local
<1>5. /\ Peopled(Local(u, d, c))
      /\ Missing(Local(u, d, c)) <=> ~Holds(d, c)
  BY <1>1, <1>2, <1>3, <1>4, OverlayPeopled DEF Holds, Creates
<1> QED
  BY <1>5 DEF Visible, Peopled, Missing

\* More calls with a welcome event.
LEMMA CalledWelcome ==
    ASSUME NEW q \in Seq(Events), NEW n \in Nat, NEW e \in Events, NEW E,
           n > 0 => Welcome(e, E), \A i \in DOMAIN q : Welcome(q[i], E)
    PROVE  \A i \in DOMAIN Called(q, n, e) : Welcome(Called(q, n, e)[i], E)
<1> DEFINE r == Called(q, n, e)
<1>1. /\ Len(q) \in Nat /\ DOMAIN q = 1 .. Len(q)
      /\ DOMAIN r = 1 .. Len(q) + n
      /\ \A i \in 1 .. Len(q) : r[i] = q[i]
      /\ \A i \in Len(q) + 1 .. Len(q) + n : r[i] = e
  BY CalledParts
<1> HIDE DEF r
<1> SUFFICES ASSUME NEW i \in DOMAIN r PROVE Welcome(r[i], E)
  BY DEF r
<1>2. CASE i \in 1 .. Len(q)
  BY <1>1, <1>2
<1>3. CASE i \notin 1 .. Len(q)
  <2>1. i \in Len(q) + 1 .. Len(q) + n /\ n > 0
    BY <1>1, <1>3
  <2> QED
    BY <1>1, <2>1
<1> QED
  BY <1>2, <1>3

LEMMA SnapshotWelcome ==
    ASSUME NEW c \in Codes, NEW x \in Docs \cup {NoDoc}, x # NoDoc, DOMAIN x.likes # {}, NEW E
    PROVE  Snapshot(c, x) \in Events /\ Welcome(Snapshot(c, x), E)
  BY DEF Snapshot, Events, Welcome

\* Computing a view again never takes a document away.
LEMMA RefreshSound ==
    ASSUME NEW u \in Users, NEW d \in Devices, NEW c \in Codes, NEW E, Sound(d, E)
    PROVE  /\ Sound(Refresh(u, d, c), E)
           /\ d.listeners[c] > 0 /\ Holds(d, c) /\ ~d.acked[c] => Refresh(u, d, c).shown[c] # NoDoc
<1>1. PICK d2 : d2 = Refresh(u, d, c)
  OBVIOUS
<1>2. PICK x \in Docs \cup {NoDoc} : x = Visible(Local(u, d, c))
  BY LocalType
<1>3. /\ d2.listeners = d.listeners /\ d2.queue = d.queue
      /\ d2.user = d.user /\ d2.cache = d.cache /\ d2.acked = d.acked /\ d2.link = d.link
      /\ \A o \in Codes \ {c} : d2.shown[o] = d.shown[o]
  BY <1>1, RefreshValues
<1>4. /\ SoundQueue(d, E) /\ SoundInbox(d, E) /\ \A o \in Codes : SoundView(d, o, E)
      /\ Peopled(d.cache[c])
  BY DEF Sound, SoundView
<1>5. /\ x # NoDoc <=> Holds(d, c)
      /\ x # NoDoc => DOMAIN x.likes # {}
  BY <1>2, <1>4, LocalSound
<1>6. d.shown \in [Codes -> Docs \cup {NoDoc}] /\ d.inbox \in Seq(Events) /\ d.listeners[c] \in Nat
  BY DeviceParts
<1>7. CASE d.listeners[c] = 0 \/ x = d.shown[c] \/ AwaitsServer(u, d, c)
  <2>1. d2 = d
    BY <1>1, <1>2, <1>7 DEF Refresh
  <2> QED
    BY <1>1, <1>5, <1>6, <1>7, <2>1 DEF AwaitsServer
<1>8. CASE ~(d.listeners[c] = 0 \/ x = d.shown[c] \/ AwaitsServer(u, d, c))
  <2>1. /\ d.listeners[c] > 0
        /\ d2.shown[c] = x
        /\ d2.inbox = Called(d.inbox, d.listeners[c], Snapshot(c, x))
    BY <1>1, <1>2, <1>8, RefreshValues
  <2>2. \A o \in Codes : Holds(d2, o) = Holds(d, o) /\ Creates(d2, o) = Creates(d, o)
    BY <1>3 DEF Holds, Creates, Pending
  <2>3. x # NoDoc
    BY <1>4, <1>5, <1>8 DEF SoundView
  <2>4. SoundQueue(d2, E)
    BY <1>3, <1>4 DEF SoundQueue
  <2>5. \A o \in Codes \ {c} : SoundView(d2, o, E)
    BY <1>3, <1>4, <2>1, <2>2 DEF SoundView
  <2>6. SoundView(d2, c, E)
    BY <1>3, <1>4, <1>5, <2>1, <2>2, <2>3 DEF SoundView
  <2>7. SoundInbox(d2, E)
    <3>1. Snapshot(c, x) \in Events /\ Welcome(Snapshot(c, x), E)
      BY <1>5, <2>3, SnapshotWelcome
    <3> QED
      BY <1>4, <1>6, <2>1, <3>1, CalledWelcome DEF SoundInbox
  <2> QED
    BY <1>1, <2>1, <2>3, <2>4, <2>5, <2>6, <2>7 DEF Sound
<1> QED
  BY <1>7, <1>8

\* Issuing a write that takes nobody away.
LEMMA IssueSound ==
    ASSUME NEW u \in Users, NEW d \in Devices, NEW E, Sound(d, E), NEW w \in Writes,
           w.op \notin {"leave", "delete"}, w.reply = "none"
    PROVE  /\ Sound(Issue(u, d, w), E)
           /\ w.op = "create" => Creates(Issue(u, d, w), w.code)
<1>1. w.code \in Codes
  BY WriteParts
<1>2. PICK n \in Int : n = NumberFor(w, Local(u, d, w.code))
  BY <1>1, LocalType, NumberForType
<1>3. PICK x \in Writes : x = [w EXCEPT !.num = n]
  BY DEF Writes
<1>4. x.code = w.code /\ x.op = w.op /\ x.reply = "none"
  BY <1>3 DEF Writes
<1>5. PICK old \in Seq(Writes) : old = d.queue[d.user]
  BY DeviceParts
<1>6. PICK r : r = Append(old, x)
  OBVIOUS
<1>7. /\ r \in Seq(Writes) /\ Len(r) = Len(old) + 1
      /\ \A i \in 1 .. Len(old) : r[i] = old[i]
      /\ r[Len(old) + 1] = x
  BY <1>6, AppendProperties
<1>8. /\ \A i \in DOMAIN old : i \in DOMAIN r /\ r[i] = old[i]
      /\ Len(old) + 1 \in DOMAIN r
      /\ \A i \in DOMAIN r : i \in DOMAIN old \/ i = Len(old) + 1
  BY <1>7
<1>9. PICK q : q = [d.queue EXCEPT ![d.user] = r]
  OBVIOUS
<1>10. /\ q \in [BOOLEAN -> Seq(Writes)] /\ q[d.user] = r /\ d.user \in BOOLEAN
       /\ \A b \in BOOLEAN \ {d.user} : q[b] = d.queue[b]
  BY <1>7, <1>9, DeviceParts
<1>11. PICK d2 : d2 = [d EXCEPT !.queue = q]
  OBVIOUS
<1>12. /\ d2 \in Devices /\ SameView(d, d2) /\ d2.queue = q /\ d2.user = d.user
       /\ d2.cache = d.cache
  BY <1>10, <1>11 DEF Devices, SameView
<1>13. Issue(u, d, w) = Refresh(u, d2, w.code)
  BY <1>2, <1>3, <1>5, <1>6, <1>9, <1>11 DEF Issue
<1>14. SoundQueue(d2, E)
  <2> SUFFICES ASSUME NEW b \in BOOLEAN, NEW i \in DOMAIN q[b]
               PROVE  /\ Harmless(q[b][i], E)
                      /\ q[b][i].op = "create" /\ q[b][i].reply = "seen"
                            => ~Missing(d.cache[q[b][i].code])
    BY <1>12 DEF SoundQueue
  <2>1. CASE b = d.user /\ i = Len(old) + 1
    BY <1>4, <1>7, <1>10, <2>1 DEF Harmless
  <2>2. CASE ~(b = d.user /\ i = Len(old) + 1)
    <3>1. i \in DOMAIN d.queue[b] /\ q[b][i] = d.queue[b][i]
      BY <1>5, <1>8, <1>10, <2>2
    <3> QED
      BY <3>1 DEF Sound, SoundQueue
  <2> QED
    BY <2>1, <2>2
<1>15. Pending(d) = old /\ Pending(d2) = r
  BY <1>5, <1>10, <1>12 DEF Pending
<1>16. /\ \A c \in Codes : (Creates(d, c) => Creates(d2, c)) /\ (Holds(d, c) => Holds(d2, c))
       /\ w.op = "create" => Creates(d2, w.code)
  BY <1>4, <1>7, <1>8, <1>12, <1>15 DEF Creates, Holds
<1>17. \A c \in Codes : SoundView(d2, c, E)
  BY <1>12, <1>16 DEF Sound, SoundView, SameView
<1>18. SoundInbox(d2, E)
  BY <1>12 DEF Sound, SoundInbox, SameView
<1>19. Sound(Refresh(u, d2, w.code), E)
  BY <1>1, <1>12, <1>14, <1>17, <1>18, RefreshSound DEF Sound
<1>20. Pending(Refresh(u, d2, w.code)) = Pending(d2)
  BY <1>1, <1>12, RefreshValues DEF Pending
<1> QED
  BY <1>13, <1>16, <1>19, <1>20 DEF Creates

\* A new listener of a document that the server has or will have.
LEMMA WatchSound ==
    ASSUME NEW u \in Users, NEW d \in Devices, NEW E, Sound(d, E), NEW c \in Codes,
           c \in E \/ Creates(d, c)
    PROVE  Sound(Watch(u, d, c), E)
<1>1. /\ d.listeners \in [Codes -> Nat] /\ d.shown \in [Codes -> Docs \cup {NoDoc}]
      /\ d.inbox \in Seq(Events)
  BY DeviceParts
<1>2. PICK x : x = IF d.listeners[c] = 0 THEN Visible(Local(u, d, c)) ELSE d.shown[c]
  OBVIOUS
<1>3. x \in Docs \cup {NoDoc}
  BY <1>1, <1>2, LocalType
<1>4. PICK heard \in BOOLEAN : heard = (x # NoDoc \/ d.link[c] # "connecting")
  OBVIOUS
<1>5. PICK n \in Nat : n = IF heard THEN 1 ELSE 0
  OBVIOUS
<1>6. PICK l : l = [d.listeners EXCEPT ![c] = d.listeners[c] + 1]
  OBVIOUS
<1>7. PICK v : v = [d.shown EXCEPT ![c] = x]
  OBVIOUS
<1>8. PICK f : f = [d.fresh EXCEPT ![c] = IF heard THEN @ ELSE @ + 1]
  OBVIOUS
<1>9. PICK i : i = Called(d.inbox, n, Snapshot(c, x))
  OBVIOUS
<1>10. PICK d2 : d2 = [d EXCEPT !.listeners = l, !.shown = v, !.fresh = f, !.inbox = i]
  OBVIOUS
<1>11. Watch(u, d, c) = d2
  BY <1>2, <1>4, <1>5, <1>6, <1>7, <1>8, <1>9, <1>10 DEF Watch
<1>12. /\ d2.listeners = l /\ d2.shown = v /\ d2.inbox = i
       /\ d2.link = d.link /\ d2.queue = d.queue /\ d2.user = d.user /\ d2.cache = d.cache
  BY <1>10 DEF Devices
<1>13. /\ l[c] > 0 /\ v[c] = x
       /\ \A o \in Codes \ {c} : l[o] = d.listeners[o] /\ v[o] = d.shown[o]
  BY <1>1, <1>6, <1>7
<1>14. /\ SoundQueue(d, E) /\ SoundInbox(d, E) /\ \A o \in Codes : SoundView(d, o, E)
       /\ Peopled(d.cache[c])
  BY DEF Sound, SoundView
<1>15. x # NoDoc => DOMAIN x.likes # {} /\ Holds(d, c)
  <2>1. CASE d.listeners[c] = 0
    BY <1>2, <1>14, <2>1, LocalSound
  <2>2. CASE d.listeners[c] # 0
    BY <1>2, <1>14, <2>2 DEF SoundView
  <2> QED
    BY <2>1, <2>2
<1>16. d.link[c] # "connecting" => x # NoDoc
  BY <1>2, <1>14 DEF SoundView
<1>17. \A o \in Codes : Holds(d2, o) = Holds(d, o) /\ Creates(d2, o) = Creates(d, o)
  BY <1>12 DEF Holds, Creates, Pending
<1>18. SoundQueue(d2, E)
  BY <1>12, <1>14 DEF SoundQueue
<1>19. \A o \in Codes \ {c} : SoundView(d2, o, E)
  BY <1>12, <1>13, <1>14, <1>17 DEF SoundView
<1>20. SoundView(d2, c, E)
  BY <1>12, <1>13, <1>14, <1>15, <1>16, <1>17 DEF SoundView
<1>21. SoundInbox(d2, E)
  <2>1. Snapshot(c, x) \in Events
    BY <1>3 DEF Snapshot, Events
  <2>2. n > 0 => Welcome(Snapshot(c, x), E)
    <3>1. n > 0 => heard
      BY <1>5
    <3>2. heard => x # NoDoc
      BY <1>4, <1>16
    <3> QED
      BY <1>3, <1>15, <3>1, <3>2, SnapshotWelcome
  <2> QED
    BY <1>1, <1>9, <1>12, <1>14, <2>1, <2>2, CalledWelcome DEF SoundInbox
<1> QED
  BY <1>11, <1>18, <1>19, <1>20, <1>21 DEF Sound

\* Running a callback.
LEMMA HandledSound ==
    ASSUME NEW d \in Devices, NEW E, Sound(d, E), d.inbox # <<>>
    PROVE  /\ Handled(d) \in Devices /\ Sound(Handled(d), E)
           /\ Handled(d).listeners = d.listeners /\ Welcome(Head(d.inbox), E)
<1>1. d.inbox \in Seq(Events)
  BY DeviceParts
<1>2. PICK t : t = Tail(d.inbox)
  OBVIOUS
<1>3. /\ t \in Seq(Events) /\ Len(t) = Len(d.inbox) - 1
      /\ \A i \in 1 .. Len(t) : t[i] = d.inbox[i + 1]
  BY <1>1, <1>2, HeadTailProperties, Zenon
<1>4. /\ Len(d.inbox) \in Nat /\ DOMAIN d.inbox = 1 .. Len(d.inbox) /\ DOMAIN t = 1 .. Len(t)
      /\ Head(d.inbox) = d.inbox[1] /\ Len(d.inbox) > 0
  BY <1>1, <1>3, EmptySeq
<1>5. Welcome(Head(d.inbox), E)
  BY <1>4 DEF Sound, SoundInbox
<1>6. \A i \in DOMAIN t : Welcome(t[i], E)
  <2> SUFFICES ASSUME NEW i \in DOMAIN t PROVE Welcome(t[i], E)
    OBVIOUS
  <2>1. i + 1 \in DOMAIN d.inbox /\ t[i] = d.inbox[i + 1]
    BY <1>3, <1>4
  <2> QED
    BY <2>1 DEF Sound, SoundInbox
<1>7. Handled(d) = [d EXCEPT !.inbox = t]
  BY <1>2 DEF Handled
<1>8. PICK d2 : d2 = [d EXCEPT !.inbox = t]
  OBVIOUS
<1>9. /\ d2 \in Devices /\ d2.listeners = d.listeners /\ d2.queue = d.queue /\ d2.cache = d.cache
      /\ d2.shown = d.shown /\ d2.link = d.link /\ d2.user = d.user /\ d2.inbox = t
  BY <1>3, <1>8 DEF Devices
<1>10. \A o \in Codes : Holds(d2, o) = Holds(d, o) /\ Creates(d2, o) = Creates(d, o)
  BY <1>9 DEF Holds, Creates, Pending
<1>11. SoundQueue(d2, E) /\ SoundInbox(d2, E) /\ \A c \in Codes : SoundView(d2, c, E)
  BY <1>6, <1>9, <1>10 DEF Sound, SoundQueue, SoundInbox, SoundView
<1> QED
  BY <1>5, <1>7, <1>8, <1>9, <1>11 DEF Sound

\* The same writes, with other answers.
SameWrites(d, d2) ==
    /\ d2.user = d.user
    /\ \A b \in BOOLEAN :
          /\ DOMAIN d2.queue[b] = DOMAIN d.queue[b]
          /\ \A i \in DOMAIN d.queue[b] : /\ d2.queue[b][i].op = d.queue[b][i].op
                                          /\ d2.queue[b][i].code = d.queue[b][i].code

LEMMA SameWritesCreate ==
    ASSUME NEW d \in Devices, NEW d2, SameWrites(d, d2), NEW c
    PROVE  Creates(d2, c) <=> Creates(d, c)
<1>1. d.user \in BOOLEAN
  BY DeviceParts
<1> QED
  BY <1>1 DEF SameWrites, Creates, Pending

\* A write was answered.
LEMMA AnsweredSound ==
    ASSUME NEW d \in Devices, NEW d2, NEW E, Sound(d, E), SameWrites(d, d2), SameView(d, d2),
           d2.cache = d.cache,
           \A b \in BOOLEAN : \A i \in DOMAIN d.queue[b] :
               \/ d2.queue[b][i].reply = d.queue[b][i].reply
               \/ /\ d2.queue[b][i].reply # "seen"
                  /\ Harmless(d2.queue[b][i], E)
    PROVE  Sound(d2, E)
<1>1. \A o \in Codes : (Creates(d2, o) <=> Creates(d, o)) /\ (Holds(d2, o) <=> Holds(d, o))
  BY SameWritesCreate DEF Holds
<1>2. SoundQueue(d2, E)
  BY DEF Sound, SoundQueue, SameWrites, Harmless
<1>3. \A c \in Codes : SoundView(d2, c, E)
  BY <1>1 DEF Sound, SoundView, SameView
<1>4. SoundInbox(d2, E)
  BY DEF Sound, SoundInbox, SameView
<1> QED
  BY <1>2, <1>3, <1>4 DEF Sound

\* The process ends: the cache and the queues stay.
LEMMA OnDiskSound ==
    ASSUME NEW d \in Devices, NEW E, Sound(d, E), NEW signedIn \in BOOLEAN
    PROVE  /\ OnDisk(d, signedIn) \in Devices /\ Sound(OnDisk(d, signedIn), E)
           /\ \A c \in Codes : OnDisk(d, signedIn).listeners[c] = 0
<1>1. PICK q : q = [b \in BOOLEAN |-> [i \in DOMAIN d.queue[b] |->
                                         [d.queue[b][i] EXCEPT !.handler = FALSE]]]
  OBVIOUS
<1>2. OnDisk(d, signedIn) = [NewDevice EXCEPT !.user = signedIn, !.queue = q,
                                              !.cache = d.cache, !.acked = d.acked]
  BY <1>1 DEF OnDisk
<1>3. PICK d2 : d2 = OnDisk(d, signedIn)
  OBVIOUS
<1>4. /\ d2.queue = q /\ d2.cache = d.cache
      /\ \A c \in Codes : d2.listeners[c] = 0 /\ d2.shown[c] = NoDoc /\ d2.link[c] = "connecting"
      /\ d2.inbox = <<>>
  BY <1>2, <1>3 DEF NewDevice
<1>5. ASSUME NEW b \in BOOLEAN
      PROVE  /\ DOMAIN q[b] = DOMAIN d.queue[b]
             /\ \A i \in DOMAIN d.queue[b] : /\ q[b][i].op = d.queue[b][i].op
                                             /\ q[b][i].code = d.queue[b][i].code
                                             /\ q[b][i].reply = d.queue[b][i].reply
  <2>1. PICK old \in Seq(Writes) : old = d.queue[b]
    BY DeviceParts
  <2>2. q[b] = [i \in DOMAIN old |-> [old[i] EXCEPT !.handler = FALSE]]
    BY <1>1, <2>1
  <2>3. \A i \in DOMAIN old : old[i] \in Writes
    OBVIOUS
  <2>4. \A w \in Writes : LET x == [w EXCEPT !.handler = FALSE]
                          IN  x.op = w.op /\ x.code = w.code /\ x.reply = w.reply
    BY DEF Writes
  <2> QED
    BY <2>1, <2>2, <2>3, <2>4
<1>7. SoundQueue(d2, E)
  BY <1>4, <1>5 DEF Sound, SoundQueue, Harmless
<1>8. \A c \in Codes : SoundView(d2, c, E)
  BY <1>4 DEF Sound, SoundView
<1>9. SoundInbox(d2, E)
  BY <1>4 DEF SoundInbox
<1> QED
  BY <1>3, <1>4, <1>7, <1>8, <1>9, OnDiskType DEF Sound

\* The answer to the oldest write reaches the device.
LEMMA AcknowledgeSound ==
    ASSUME NEW u \in Users, NEW d \in Devices, NEW E, Sound(d, E), NEW signedIn \in BOOLEAN, Pending(d) # <<>>,
           Head(Pending(d)).reply # "none"
    PROVE  Sound(Acknowledge(u, d), E)
<1>1. PICK old \in Seq(Writes) : old = d.queue[d.user]
  BY DeviceParts
<1>2. Pending(d) = old /\ old # <<>> /\ d.user \in BOOLEAN
  BY <1>1, DeviceParts DEF Pending
<1>3. PICK r : r = Tail(old)
  OBVIOUS
<1>4. /\ r \in Seq(Writes) /\ Len(r) = Len(old) - 1
      /\ \A i \in 1 .. Len(r) : r[i] = old[i + 1]
  BY <1>2, <1>3, HeadTailProperties, Zenon
<1>5. PICK w \in Writes : w = Head(old)
  BY <1>2, HeadTailProperties, Zenon
<1>6. /\ Len(old) \in Nat /\ DOMAIN old = 1 .. Len(old) /\ DOMAIN r = 1 .. Len(r)
      /\ w = old[1] /\ Len(old) > 0
  BY <1>2, <1>4, <1>5, EmptySeq
<1>7. /\ \A i \in DOMAIN r : i + 1 \in DOMAIN old /\ r[i] = old[i + 1]
      /\ \A i \in DOMAIN old : i = 1 \/ (i - 1 \in DOMAIN r /\ r[i - 1] = old[i])
  <2>1. \A i \in DOMAIN r : i + 1 \in DOMAIN old /\ r[i] = old[i + 1]
    BY <1>4, <1>6
  <2>2. \A i \in DOMAIN old : i # 1 => i - 1 \in DOMAIN r /\ (i - 1) + 1 = i
    BY <1>4, <1>6
  <2> QED
    BY <2>1, <2>2
<1>8. PICK c \in Codes : c = w.code
  BY WriteParts
<1>9. /\ Harmless(w, E) /\ w.reply # "none"
      /\ w.op = "create" /\ w.reply = "seen" => ~Missing(d.cache[c])
  <2>1. 1 \in DOMAIN d.queue[d.user] /\ d.queue[d.user][1] = w
    BY <1>1, <1>6
  <2> QED
    BY <1>2, <1>5, <1>8, <2>1 DEF Sound, SoundQueue
<1>10. d.cache[c] \in CachedDocs /\ Peopled(d.cache[c])
  BY DeviceParts DEF Sound, SoundView
<1>11. PICK new \in BOOLEAN : new = (w.reply = "ok")
  OBVIOUS
<1>12. PICK x : x = IF ~Replaces(w) /\ Missing(d.cache[c]) THEN Unknown
                    ELSE Apply(u, w, w.counter, d.cache[c])
  OBVIOUS
<1>13. /\ x \in CachedDocs /\ Peopled(x)
       /\ Missing(x) <=> Missing(d.cache[c]) /\ w.op # "create"
  <2>1. CASE ~Replaces(w) /\ Missing(d.cache[c])
    BY <1>12, <2>1 DEF CachedDocs, Peopled, Missing, Replaces
  <2>2. CASE ~(~Replaces(w) /\ Missing(d.cache[c]))
    <3>1. w.counter \in Int /\ w.op \notin {"leave", "delete"}
      BY <1>9, WriteParts DEF Harmless
    <3> QED
      BY <1>10, <1>12, <2>2, <3>1, ApplyType, ApplyPeopled
  <2> QED
    BY <2>1, <2>2
<1>14. PICK q : q = [d.queue EXCEPT ![d.user] = r]
  OBVIOUS
<1>15. /\ q \in [BOOLEAN -> Seq(Writes)] /\ q[d.user] = r
       /\ \A b \in BOOLEAN \ {d.user} : q[b] = d.queue[b]
  BY <1>4, <1>14, DeviceParts
<1>16. PICK k : k = [d.cache EXCEPT ![c] = IF new THEN x ELSE @]
  OBVIOUS
<1>17. /\ k \in [Codes -> CachedDocs]
       /\ k[c] = IF new THEN x ELSE d.cache[c]
       /\ \A o \in Codes \ {c} : k[o] = d.cache[o]
  BY <1>13, <1>16, DeviceParts
<1>18. PICK a : a = [d.acked EXCEPT ![c] = @ \/ new]
  OBVIOUS
<1>19. a \in [Codes -> BOOLEAN]
  BY <1>18, DeviceParts
<1>20. PICK i : i = Called(d.inbox, IF Completes(w) THEN 1 ELSE 0, Completion(w))
  OBVIOUS
<1>21. i \in Seq(Events) /\ \A j \in DOMAIN i : Welcome(i[j], E)
  <2>1. d.inbox \in Seq(Events) /\ \A j \in DOMAIN d.inbox : Welcome(d.inbox[j], E)
    BY DeviceParts DEF Sound, SoundInbox
  <2>2. CASE Completes(w)
    <3>1. Completion(w) \in Events /\ w.op = "join"
      BY <1>9, <2>2 DEF Completes, Completion, Events, Writes, Harmless
    <3>2. Welcome(Completion(w), E)
      BY <1>9, <3>1, WriteParts DEF Completion, Welcome, Harmless
    <3>3. i = Called(d.inbox, 1, Completion(w))
      BY <1>20, <2>2
    <3> QED
      BY <2>1, <3>1, <3>2, <3>3, CalledType, CalledWelcome
  <2>3. CASE ~Completes(w)
    <3>1. i = d.inbox \o [j \in 1 .. 0 |-> Completion(w)]
      BY <1>20, <2>3 DEF Called
    <3>2. [j \in 1 .. 0 |-> Completion(w)] = <<>>
      OBVIOUS
    <3>3. i = d.inbox
      BY <2>1, <3>1, <3>2, ConcatEmptySeq
    <3> QED
      BY <2>1, <3>3
  <2> QED
    BY <2>2, <2>3
<1>22. PICK d2 : d2 = [d EXCEPT !.queue = q, !.cache = k, !.acked = a, !.inbox = i]
  OBVIOUS
<1>23. /\ d2 \in Devices /\ d2.queue = q /\ d2.cache = k /\ d2.inbox = i
       /\ d2.listeners = d.listeners /\ d2.shown = d.shown
       /\ d2.link = d.link /\ d2.user = d.user
  BY <1>15, <1>17, <1>19, <1>21, <1>22 DEF Devices, CachedDocs
<1>24. Acknowledge(u, d) = Refresh(u, d2, c)
  <2>1. w = Head(Pending(d)) /\ r = Tail(d.queue[d.user])
    BY <1>1, <1>2, <1>3, <1>5
  <2> QED
    BY <1>8, <1>11, <1>12, <1>14, <1>16, <1>18, <1>20, <1>22, <2>1 DEF Acknowledge
<1>25. \A o \in Codes : ~Missing(d.cache[o]) => ~Missing(k[o])
  BY <1>13, <1>17
<1>26. w.op = "create" => c \in E /\ ~Missing(k[c])
  <2>1. w.op = "create" => w.reply \in {"ok", "seen"}
    BY <1>9, WriteParts DEF Harmless
  <2> QED
    BY <1>8, <1>9, <1>11, <1>13, <1>17, <2>1 DEF Harmless
<1>27. SoundQueue(d2, E)
  <2> SUFFICES ASSUME NEW b \in BOOLEAN, NEW j \in DOMAIN q[b]
               PROVE  /\ Harmless(q[b][j], E)
                      /\ q[b][j].op = "create" /\ q[b][j].reply = "seen"
                            => ~Missing(k[q[b][j].code])
    BY <1>23 DEF SoundQueue
  <2>1. PICK m \in DOMAIN d.queue[b] : q[b][j] = d.queue[b][m]
    <3>1. CASE b = d.user
      <4>1. j \in DOMAIN r /\ q[b][j] = r[j]
        BY <1>15, <3>1
      <4> QED
        BY <1>1, <1>7, <3>1, <4>1
    <3>2. CASE b # d.user
      BY <1>15, <3>2
    <3> QED
      BY <3>1, <3>2
  <2>2. q[b][j].code \in Codes
    BY <1>15, WriteParts
  <2> QED
    BY <1>25, <2>1, <2>2 DEF Sound, SoundQueue
<1>28. /\ \A o \in Codes : Creates(d, o) => Creates(d2, o) \/ (o = c /\ w.op = "create")
  <2> SUFFICES ASSUME NEW o \in Codes, NEW m \in DOMAIN old, old[m].op = "create", old[m].code = o
               PROVE  Creates(d2, o) \/ (o = c /\ w.op = "create")
    BY <1>2 DEF Creates
  <2>1. Pending(d2) = r
    BY <1>15, <1>23 DEF Pending
  <2>2. CASE m = 1
    BY <1>6, <1>8, <2>2
  <2>3. CASE m # 1
    BY <1>7, <2>1, <2>3 DEF Creates
  <2> QED
    BY <2>2, <2>3
<1>29. \A o \in Codes : Holds(d, o) => Holds(d2, o)
  BY <1>23, <1>25, <1>26, <1>28 DEF Holds
<1>30. \A o \in Codes : Peopled(k[o]) /\ (~Missing(k[o]) => o \in E)
  <2>1. \A o \in Codes : Peopled(d.cache[o]) /\ (~Missing(d.cache[o]) => o \in E)
    BY DEF Sound, SoundView
  <2>2. new => c \in E
    BY <1>8, <1>9, <1>11 DEF Harmless
  <2> QED
    BY <1>13, <1>17, <2>1, <2>2
<1>31. \A o \in Codes : SoundView(d2, o, E)
  BY <1>23, <1>26, <1>28, <1>29, <1>30 DEF Sound, SoundView
<1>32. SoundInbox(d2, E)
  BY <1>21, <1>23 DEF SoundInbox
<1> QED
  BY <1>23, <1>24, <1>27, <1>31, <1>32, RefreshSound DEF Sound

\* The server's document of c reaches a device that listens to it.
LEMMA ReceiveSound ==
    ASSUME NEW u \in Users, NEW d \in Devices, NEW E, Sound(d, E), NEW c \in Codes,
           d.listeners[c] > 0, NEW remote \in Docs \cup {NoDoc}, Peopled(remote),
           remote # NoDoc <=> c \in E
    PROVE  Sound(Receive(u, d, c, remote), E)
<1> DEFINE Seen(w) == IF w.code = c /\ w.reply = "ok" THEN [w EXCEPT !.reply = "seen"] ELSE w
<1>1. PICK q : q = [b \in BOOLEAN |-> [i \in DOMAIN d.queue[b] |-> Seen(d.queue[b][i])]]
  OBVIOUS
<1>2. \A w \in Writes : /\ Seen(w) \in Writes /\ Seen(w).code = w.code /\ Seen(w).op = w.op
                        /\ \/ Seen(w).reply = w.reply
                           \/ Seen(w).reply = "seen" /\ w.reply = "ok" /\ w.code = c
  BY DEF Writes
<1> HIDE DEF Seen
<1>3. ASSUME NEW b \in BOOLEAN
      PROVE  /\ q[b] \in Seq(Writes) /\ DOMAIN q[b] = DOMAIN d.queue[b]
             /\ \A i \in DOMAIN d.queue[b] :
                  /\ q[b][i].code = d.queue[b][i].code /\ q[b][i].op = d.queue[b][i].op
                  /\ \/ q[b][i].reply = d.queue[b][i].reply
                     \/ /\ q[b][i].reply = "seen" /\ d.queue[b][i].reply = "ok"
                        /\ q[b][i].code = c
  <2>1. PICK old \in Seq(Writes) : old = d.queue[b]
    BY DeviceParts
  <2>2. /\ DOMAIN old = 1 .. Len(old) /\ Len(old) \in Nat
        /\ \A i \in 1 .. Len(old) : old[i] \in Writes
    OBVIOUS
  <2>3. [i \in 1 .. Len(old) |-> Seen(old[i])] \in [1 .. Len(old) -> Writes]
    BY <1>2, <2>2
  <2>4. q[b] = [i \in 1 .. Len(old) |-> Seen(old[i])]
    BY <1>1, <2>1, <2>2, Zenon
  <2>5. q[b] \in Seq(Writes) /\ DOMAIN q[b] = 1 .. Len(old)
    BY <2>2, <2>3, <2>4, SeqOf
  <2>6. \A i \in 1 .. Len(old) : q[b][i] = Seen(old[i])
    BY <2>4
  <2> QED
    BY <1>2, <2>1, <2>2, <2>5, <2>6
<1>4. q \in [BOOLEAN -> Seq(Writes)]
  BY <1>1, <1>3
<1>5. PICK k : k = [d.cache EXCEPT ![c] = remote]
  OBVIOUS
<1>6. PICK a : a = [d.acked EXCEPT ![c] = FALSE]
  OBVIOUS
<1>7. /\ k \in [Codes -> CachedDocs] /\ a \in [Codes -> BOOLEAN] /\ k[c] = remote /\ ~a[c]
      /\ \A o \in Codes \ {c} : k[o] = d.cache[o]
  BY <1>5, <1>6, DeviceParts DEF CachedDocs
<1>8. PICK known : known = [d EXCEPT !.cache = k, !.acked = a, !.queue = q]
  OBVIOUS
<1>9. /\ known \in Devices /\ SameView(d, known) /\ known.cache = k /\ known.acked = a
      /\ known.queue = q /\ known.user = d.user
  BY <1>4, <1>7, <1>8 DEF Devices, CachedDocs, SameView
<1>10. Receive(u, d, c, remote) = Reach(Refresh(u, known, c), c, "synced")
  BY <1>1, <1>5, <1>6, <1>8, Zenon DEF Receive, Seen
<1>11. c \in E <=> ~Missing(k[c])
  BY <1>7, MissingAssumption DEF Missing
<1>12. \A o \in Codes : SoundView(d, o, E)
  BY DEF Sound
<1>13. \A o \in Codes : ~Missing(d.cache[o]) => ~Missing(k[o])
  BY <1>7, <1>11, <1>12 DEF SoundView
<1>14. SoundQueue(known, E)
  <2> SUFFICES ASSUME NEW b \in BOOLEAN, NEW i \in DOMAIN d.queue[b]
               PROVE  /\ Harmless(q[b][i], E)
                      /\ q[b][i].op = "create" /\ q[b][i].reply = "seen"
                            => ~Missing(k[q[b][i].code])
    BY <1>3, <1>9 DEF SoundQueue
  <2>1. /\ Harmless(d.queue[b][i], E)
        /\ d.queue[b][i].op = "create" /\ d.queue[b][i].reply = "seen"
              => ~Missing(d.cache[d.queue[b][i].code])
    BY DEF Sound, SoundQueue
  <2>2. q[b][i].code \in Codes
    BY <1>3, WriteParts
  <2> QED
    BY <1>3, <1>11, <1>13, <2>1, <2>2 DEF Harmless
<1>15. SameWrites(d, known)
  BY <1>3, <1>9 DEF SameWrites
<1>16. /\ \A o \in Codes : Creates(known, o) <=> Creates(d, o)
       /\ \A o \in Codes : Holds(d, o) => Holds(known, o)
  BY <1>9, <1>13, <1>15, SameWritesCreate DEF Holds
<1>17. \A o \in Codes : SoundView(known, o, E)
  <2>1. \A o \in Codes : Peopled(k[o]) /\ (~Missing(k[o]) => o \in E)
    BY <1>7, <1>11, <1>12 DEF SoundView
  <2> QED
    BY <1>9, <1>12, <1>16, <2>1 DEF SoundView, SameView
<1>18. SoundInbox(known, E)
  BY <1>9 DEF Sound, SoundInbox, SameView
<1>19. known.listeners[c] > 0 /\ Holds(known, c)
  BY <1>9, <1>11, <1>12, <1>16 DEF SoundView, Holds, SameView
<1>20. PICK d3 : d3 = Refresh(u, known, c)
  OBVIOUS
<1>21. Sound(d3, E) /\ d3.shown[c] # NoDoc
  BY <1>7, <1>9, <1>14, <1>17, <1>18, <1>19, <1>20, RefreshSound DEF Sound
<1>22. d3 \in Devices /\ d3.listeners[c] > 0
  BY <1>9, <1>19, <1>20, RefreshType
<1>23. /\ d3.link \in [Codes -> Links] /\ d3.fresh \in [Codes -> Nat] /\ d3.inbox \in Seq(Events)
       /\ d3.shown[c] \in Docs \cup {NoDoc}
  BY <1>22, DeviceParts
<1>24. PICK l : l = [d3.link EXCEPT ![c] = "synced"]
  OBVIOUS
<1>25. PICK f : f = [d3.fresh EXCEPT ![c] = 0]
  OBVIOUS
<1>26. PICK n \in Nat : n = d3.fresh[c]
  BY <1>23
<1>27. PICK i : i = Called(d3.inbox, n, Snapshot(c, d3.shown[c]))
  OBVIOUS
<1>28. PICK d4 : d4 = [d3 EXCEPT !.link = l, !.fresh = f, !.inbox = i]
  OBVIOUS
<1>29. Reach(d3, c, "synced") = d4
  BY <1>24, <1>25, <1>26, <1>27, <1>28 DEF Reach
<1>30. /\ d4.link = l /\ d4.inbox = i /\ d4.queue = d3.queue /\ d4.user = d3.user
       /\ d4.cache = d3.cache /\ d4.listeners = d3.listeners /\ d4.shown = d3.shown
  BY <1>22, <1>28 DEF Devices
<1>31. \A o \in Codes : Creates(d4, o) = Creates(d3, o) /\ Holds(d4, o) = Holds(d3, o)
  BY <1>30 DEF Creates, Holds, Pending
<1>32. \A o \in Codes \ {c} : l[o] = d3.link[o]
  BY <1>23, <1>24
<1>33. SoundQueue(d4, E)
  BY <1>21, <1>30 DEF Sound, SoundQueue
<1>34. \A o \in Codes : SoundView(d4, o, E)
  BY <1>21, <1>22, <1>30, <1>31, <1>32 DEF Sound, SoundView
<1>35. SoundInbox(d4, E)
  <2>1. Snapshot(c, d3.shown[c]) \in Events /\ Welcome(Snapshot(c, d3.shown[c]), E)
    BY <1>21, <1>23, SnapshotWelcome DEF Sound, SoundView
  <2> QED
    BY <1>21, <1>23, <1>27, <1>30, <2>1, CalledWelcome DEF Sound, SoundInbox
<1> QED
  BY <1>10, <1>20, <1>29, <1>33, <1>34, <1>35 DEF Sound

------------------------------------------------------------------------------
(* Steps *)

\* User u's device gets to d, the store to s and the download to f; the others and
\* the server stay, and who has not closed the app runs.
ComesTo(u, d, s, f) ==
    /\ Sound(d, Existing) /\ InSession(d, s, f)
    /\ dev' = [dev EXCEPT ![u] = d] /\ store' = [store EXCEPT ![u] = s]
    /\ fetching' = [fetching EXCEPT ![u] = f] /\ UNCHANGED server
    /\ \A v \in Users : used'[v]["quit"] = 0 => running'[v]

\* A step of user u's that leaves the server alone.
LEMMA CLocalStep ==
    ASSUME IInv, CInv, NEW u \in Users, NEW d, NEW s, NEW f, ComesTo(u, d, s, f)
    PROVE  CInv'
<1>1. Existing' = Existing
  BY DEF Existing, ComesTo
<1>2. ASSUME NEW v \in Users
      PROVE  Sound(dev'[v], Existing) /\ InSession(dev'[v], store'[v], fetching'[v])
  <2>1. CASE v = u
    <3>1. dev'[v] = d /\ store'[v] = s /\ fetching'[v] = f
      BY <2>1 DEF IInv, TypeOK, ComesTo
    <3> QED
      BY <3>1 DEF ComesTo
  <2>2. CASE v # u
    <3>1. dev'[v] = dev[v] /\ store'[v] = store[v] /\ fetching'[v] = fetching[v]
      BY <2>2 DEF IInv, TypeOK, ComesTo
    <3> QED
      BY <3>1 DEF CInv
  <2> QED
    BY <2>1, <2>2
<1>3. UNCHANGED server /\ \A v \in Users : used'[v]["quit"] = 0 => running'[v]
  BY DEF ComesTo
<1> QED
  BY <1>1, <1>2, <1>3 DEF CInv

\* Nothing but Quit counts as closing the app.
LEMMA StillRuns ==
    ASSUME IInv, CInv, NEW u \in Users, UNCHANGED running,
           UNCHANGED used \/ (\E k \in Kinds \ {"quit"} : Count(u, k))
    PROVE  \A v \in Users : used'[v]["quit"] = 0 => running'[v]
<1>1. CASE UNCHANGED used
  BY <1>1 DEF CInv
<1>2. ASSUME NEW k \in Kinds \ {"quit"}, Count(u, k)
      PROVE  \A v \in Users : used'[v]["quit"] = used[v]["quit"]
  BY <1>2 DEF IInv, TypeOK, Count, Kinds
<1> QED
  BY <1>1, <1>2 DEF CInv

\* What a calm user never does.
LEMMA CalmAllows ==
    ASSUME Calm, IInv, NEW u \in Users, NEW k \in {"back", "sign", "offline"}
    PROVE  ~Allowed(u, k)
<1>1. k \in Kinds /\ used[u][k] \in Nat /\ Limit[u][k] = 0
  BY DEF Calm, Kinds, IInv, TypeOK
<1> QED
  BY <1>1 DEF Allowed

\* Navigation and the end of a process preserve the invariant.
LEMMA NavigationCalm ==
    ASSUME Calm, IInv, CInv, NEW u \in Users,
           \/ OpenCreate(u) \/ OpenJoin(u)
           \/ LeaveCreateScreen(u) \/ LeaveJoinScreen(u)
           \/ SignOut(u) \/ HearSignOut(u) \/ SignIn(u) \/ Quit(u) \/ Launch(u)
    PROVE  CInv'
<1>1. TypeOK
  BY DEF IInv
<1>2. /\ dev = [dev EXCEPT ![u] = dev[u]] /\ store = [store EXCEPT ![u] = store[u]]
      /\ fetching = [fetching EXCEPT ![u] = fetching[u]]
      /\ dev[u] \in Devices /\ store[u] \in Stores
  BY <1>1 DEF TypeOK
<1>3. Sound(dev[u], Existing) /\ InSession(dev[u], store[u], fetching[u]) /\ store[u].session
  BY DEF CInv, InSession
<1>4. CASE OpenCreate(u)
  <2>1. PICK s : s = [store[u] EXCEPT !.createdSession = TRUE]
    OBVIOUS
  <2>2. /\ s.session = store[u].session /\ s.sessionCode = store[u].sessionCode
        /\ s.sessionLive = store[u].sessionLive
    BY <1>2, <2>1 DEF Stores
  <2>3. InSession(dev[u], s, fetching[u])
    BY <1>3, <2>2 DEF InSession
  <2>4. store' = [store EXCEPT ![u] = s] /\ UNCHANGED <<server, dev, fetching, running, used>>
    BY <1>1, <1>4, <2>1 DEF OpenCreate, TypeOK
  <2>5. \A v \in Users : used'[v]["quit"] = 0 => running'[v]
    BY <2>4, StillRuns
  <2>6. ComesTo(u, dev[u], s, fetching[u])
    BY <1>2, <1>3, <2>3, <2>4, <2>5 DEF ComesTo
  <2> QED
    BY <2>6, CLocalStep
<1>5. CASE OpenJoin(u)
  <2>1. UNCHANGED <<server, dev, store, fetching, running, used>>
    BY <1>5 DEF OpenJoin
  <2>2. \A v \in Users : used'[v]["quit"] = 0 => running'[v]
    BY <2>1, StillRuns
  <2>3. ComesTo(u, dev[u], store[u], fetching[u])
    BY <1>2, <1>3, <2>1, <2>2 DEF ComesTo
  <2> QED
    BY <2>3, CLocalStep
<1>6. CASE \/ LeaveCreateScreen(u) \/ LeaveJoinScreen(u)
           \/ SignOut(u) \/ HearSignOut(u) \/ SignIn(u)
  <2>1. ~Allowed(u, "back") /\ ~Allowed(u, "sign")
    BY CalmAllows
  <2> QED
    BY <1>3, <1>6, <2>1 DEF LeaveCreateScreen, LeaveJoinScreen, ScreenGone, SignOut, HearSignOut, SignIn
<1>7. CASE Quit(u)
  <2>1. PICK d : d = OnDisk(dev[u], store[u].session)
    OBVIOUS
  <2>2. PICK s : s = NewStore(store[u].session)
    OBVIOUS
  <2>3. Sound(d, Existing) /\ \A c \in Codes : d.listeners[c] = 0
    <3>1. store[u].session \in BOOLEAN
      BY <1>2 DEF Stores
    <3> QED
      BY <1>2, <1>3, <2>1, <3>1, OnDiskSound
  <2>4. s.session /\ ~s.sessionLive
    BY <1>3, <2>2 DEF NewStore
  <2>5. InSession(d, s, FALSE)
    BY <2>3, <2>4 DEF InSession
  <2>6. /\ dev' = [dev EXCEPT ![u] = d] /\ store' = [store EXCEPT ![u] = s]
        /\ fetching' = [fetching EXCEPT ![u] = FALSE] /\ UNCHANGED server
    BY <1>7, <2>1, <2>2 DEF Quit, Terminate
  <2>7. ASSUME NEW v \in Users, used'[v]["quit"] = 0 PROVE running'[v]
    <3>1. /\ used' = [used EXCEPT ![u]["quit"] = @ + 1]
          /\ running' = [running EXCEPT ![u] = FALSE]
      BY <1>7 DEF Quit, Count, Terminate
    <3>2. CASE v = u
      <4>1. used'[u]["quit"] = used[u]["quit"] + 1 /\ used[u]["quit"] \in Nat
        BY <1>1, <3>1 DEF TypeOK, Kinds
      <4> QED
        BY <2>7, <3>2, <4>1
    <3>3. CASE v # u
      <4>1. used'[v] = used[v] /\ running'[v] = running[v]
        BY <1>1, <3>1, <3>3 DEF TypeOK
      <4> QED
        BY <2>7, <4>1 DEF CInv
    <3> QED
      BY <3>2, <3>3
  <2>8. ComesTo(u, d, s, FALSE)
    BY <2>3, <2>5, <2>6, <2>7 DEF ComesTo
  <2> QED
    BY <2>8, CLocalStep
<1>8. CASE Launch(u)
  <2>1. /\ running' = [running EXCEPT ![u] = TRUE]
        /\ UNCHANGED <<server, dev, store, fetching, used>>
    BY <1>8 DEF Launch
  <2>2. \A v \in Users : used'[v]["quit"] = 0 => running'[v]
    BY <1>1, <2>1 DEF CInv, TypeOK
  <2>3. ComesTo(u, dev[u], store[u], fetching[u])
    BY <1>2, <1>3, <2>1, <2>2 DEF ComesTo
  <2> QED
    BY <2>3, CLocalStep
<1> QED
  BY <1>4, <1>5, <1>6, <1>7, <1>8

\* Issuing a write other than a leave or a delete: the device stays sound, and the
\* same documents are listened to.
LEMMA WritesCalm ==
    ASSUME NEW u \in Users, NEW d \in Devices, Sound(d, Existing), NEW c \in Codes,
           NEW op \in Ops \ {"leave", "delete"}, NEW w \in Writes,
           w.op = op, w.code = c, w.reply = "none"
    PROVE  /\ Issue(u, d, w) \in Devices /\ Sound(Issue(u, d, w), Existing)
           /\ Issue(u, d, w).listeners = d.listeners
           /\ op = "create" => Creates(Issue(u, d, w), c)
  BY IssueType, IssueSound

\* The operations of a session preserve the invariant.
LEMMA OperationCalm ==
    ASSUME Calm, IInv, CInv, NEW u \in Users,
           \/ \E c \in Codes : CreateSession(u, c)
           \/ \E c \in Codes : JoinSession(u, c)
           \/ \E t \in TimeLimits, r \in Radii : Start(u, t, r)
           \/ ReceiveRestaurants(u) \/ FetchFails(u)
           \/ \E r \in Restaurants : LikeRestaurant(u, r)
           \/ EndSession(u)
    PROVE  CInv'
<1>1. TypeOK
  BY DEF IInv
<1>2. /\ dev = [dev EXCEPT ![u] = dev[u]] /\ store = [store EXCEPT ![u] = store[u]]
      /\ fetching = [fetching EXCEPT ![u] = fetching[u]]
      /\ dev[u] \in Devices /\ store[u] \in Stores
  BY <1>1 DEF TypeOK
<1>3. Sound(dev[u], Existing) /\ InSession(dev[u], store[u], fetching[u])
  BY DEF CInv
<1>4. store[u].sessionCode # NoCode =>
        store[u].sessionCode \in Codes /\ dev[u].listeners[store[u].sessionCode] > 0
  BY <1>2 DEF Stores, IInv, Fits
<1>5. ASSUME NEW k \in {"create", "join", "start", "end"}, Count(u, k), UNCHANGED running
      PROVE  \A v \in Users : used'[v]["quit"] = 0 => running'[v]
  <2>1. k \in Kinds \ {"quit"}
    BY DEF Kinds
  <2> QED
    BY <1>5, <2>1, StillRuns
<1>6. ASSUME NEW op \in Ops, NEW c \in Codes
      PROVE  /\ Write(op, c) \in Writes /\ Write(op, c).op = op /\ Write(op, c).code = c
             /\ Write(op, c).reply = "none"
  BY WriteType DEF Write
<1>7. ASSUME NEW c \in Codes, CreateSession(u, c) PROVE CInv'
  <2>1. PICK d : d = Issue(u, dev[u], Write("create", c))
    OBVIOUS
  <2>2. "create" \in Ops \ {"leave", "delete"}
    BY DEF Ops
  <2>3. d \in Devices /\ Sound(d, Existing) /\ Creates(d, c)
    BY <1>2, <1>3, <1>6, <2>1, <2>2, WritesCalm
  <2>4. PICK s : s = [store[u] EXCEPT !.sessionCode = c]
    OBVIOUS
  <2>5. s.sessionCode = c /\ s.session = store[u].session
    BY <1>2, <2>4 DEF Stores
  <2>6. Sound(Watch(u, d, c), Existing)
    BY <2>3, WatchSound
  <2>7. InSession(Watch(u, d, c), s, fetching[u])
    BY <1>3, <2>5, SessionStoreAssumption DEF InSession
  <2>8. /\ dev' = [dev EXCEPT ![u] = Watch(u, d, c)] /\ store' = [store EXCEPT ![u] = s]
        /\ UNCHANGED <<server, fetching, running>> /\ Count(u, "create")
    BY <1>7, <2>1, <2>4 DEF CreateSession, Do
  <2>9. \A v \in Users : used'[v]["quit"] = 0 => running'[v]
    BY <1>5, <2>8
  <2>10. ComesTo(u, Watch(u, d, c), s, fetching[u])
    BY <1>2, <2>6, <2>7, <2>8, <2>9 DEF ComesTo
  <2> QED
    BY <2>10, CLocalStep
<1>8. ASSUME NEW c \in Codes, JoinSession(u, c) PROVE CInv'
  <2>1. PICK d : d = Issue(u, dev[u], Write("join", c))
    OBVIOUS
  <2>2. "join" \in Ops \ {"leave", "delete"}
    BY DEF Ops
  <2>3. Sound(d, Existing) /\ d.listeners = dev[u].listeners
    BY <1>2, <1>3, <1>6, <2>1, <2>2, WritesCalm
  <2>4. InSession(d, store[u], fetching[u])
    BY <1>3, <2>3 DEF InSession
  <2>5. /\ dev' = [dev EXCEPT ![u] = d]
        /\ UNCHANGED <<server, store, fetching, running>> /\ Count(u, "join")
    BY <1>8, <2>1 DEF JoinSession
  <2>6. \A v \in Users : used'[v]["quit"] = 0 => running'[v]
    BY <1>5, <2>5
  <2>7. ComesTo(u, d, store[u], fetching[u])
    BY <1>2, <2>3, <2>4, <2>5, <2>6 DEF ComesTo
  <2> QED
    BY <2>7, CLocalStep
<1>9. ASSUME NEW t \in TimeLimits, NEW r \in Radii, Start(u, t, r) PROVE CInv'
  <2>1. PICK c \in Codes : c = store[u].sessionCode
    BY <1>4, <1>9 DEF Start
  <2>2. t \in Int /\ r \in Int
    BY FirestoreAssumption
  <2>3. {"time", "radius", "start"} \subseteq Ops \ {"leave", "delete"}
    BY DEF Ops
  <2>4. PICK w1 : w1 = [Write("time", c) EXCEPT !.num = t]
    OBVIOUS
  <2>5. PICK w2 : w2 = [Write("radius", c) EXCEPT !.num = r]
    OBVIOUS
  <2>6. /\ w1 \in Writes /\ w1.op = "time" /\ w1.code = c /\ w1.reply = "none"
        /\ w2 \in Writes /\ w2.op = "radius" /\ w2.code = c /\ w2.reply = "none"
    BY <2>2, <2>3, <2>4, <2>5, WriteType DEF Write
  <2>7. PICK d1 : d1 = Issue(u, dev[u], w1)
    OBVIOUS
  <2>8. PICK d2 : d2 = Issue(u, d1, w2)
    OBVIOUS
  <2>9. PICK d3 : d3 = Issue(u, d2, Write("start", c))
    OBVIOUS
  <2>10. d1 \in Devices /\ Sound(d1, Existing) /\ d1.listeners = dev[u].listeners
    BY <1>2, <1>3, <2>3, <2>6, <2>7, WritesCalm
  <2>11. d2 \in Devices /\ Sound(d2, Existing) /\ d2.listeners = dev[u].listeners
    BY <2>3, <2>6, <2>8, <2>10, WritesCalm
  <2>12. d3 \in Devices /\ Sound(d3, Existing) /\ d3.listeners = dev[u].listeners
    BY <1>6, <2>3, <2>9, <2>11, WritesCalm
  <2>13. c # NoCode /\ d3.listeners[c] > 0
    BY <1>4, <1>9, <2>1, <2>12 DEF Start
  <2>14. Sound(Watch(u, d3, c), Existing)
    <3>1. c \in Existing \/ Creates(d3, c)
      BY <2>12, <2>13 DEF Sound, SoundView
    <3> QED
      BY <2>12, <3>1, WatchSound
  <2>15. InSession(Watch(u, d3, c), store[u], TRUE)
    BY <1>3, <2>1, <2>13 DEF InSession
  <2>16. /\ dev' = [dev EXCEPT ![u] = Watch(u, d3, c)]
         /\ fetching' = [fetching EXCEPT ![u] = TRUE]
         /\ UNCHANGED <<server, store, running>> /\ Count(u, "start")
    BY <1>9, <2>1, <2>4, <2>5, <2>7, <2>8, <2>9 DEF Start
  <2>17. \A v \in Users : used'[v]["quit"] = 0 => running'[v]
    BY <1>5, <2>16
  <2>18. ComesTo(u, Watch(u, d3, c), store[u], TRUE)
    BY <1>2, <2>14, <2>15, <2>16, <2>17 DEF ComesTo
  <2> QED
    BY <2>18, CLocalStep
<1>10. CASE ReceiveRestaurants(u)
  <2>1. PICK c \in Codes : c = store[u].sessionCode /\ c # NoCode
    BY <1>3, <1>4, <1>10 DEF ReceiveRestaurants, InSession
  <2>2. PICK d : d = Issue(u, dev[u], Write("list", c))
    OBVIOUS
  <2>3. "list" \in Ops \ {"leave", "delete"}
    BY DEF Ops
  <2>4. Sound(d, Existing) /\ d.listeners = dev[u].listeners
    BY <1>2, <1>3, <1>6, <2>2, <2>3, WritesCalm
  <2>5. InSession(d, store[u], FALSE)
    BY <1>3, <2>1 DEF InSession
  <2>6. /\ dev' = [dev EXCEPT ![u] = d] /\ fetching' = [fetching EXCEPT ![u] = FALSE]
        /\ UNCHANGED <<server, store, running, used>>
    BY <1>10, <2>1, <2>2 DEF ReceiveRestaurants
  <2>7. \A v \in Users : used'[v]["quit"] = 0 => running'[v]
    BY <2>6, StillRuns
  <2>8. ComesTo(u, d, store[u], FALSE)
    BY <1>2, <2>4, <2>5, <2>6, <2>7 DEF ComesTo
  <2> QED
    BY <2>8, CLocalStep
<1>11. CASE FetchFails(u)
  <2>1. InSession(dev[u], store[u], FALSE)
    BY <1>3 DEF InSession
  <2>2. /\ fetching' = [fetching EXCEPT ![u] = FALSE]
        /\ UNCHANGED <<server, dev, store, running, used>>
    BY <1>11 DEF FetchFails
  <2>3. \A v \in Users : used'[v]["quit"] = 0 => running'[v]
    BY <2>2, StillRuns
  <2>4. ComesTo(u, dev[u], store[u], FALSE)
    BY <1>2, <1>3, <2>1, <2>2, <2>3 DEF ComesTo
  <2> QED
    BY <2>4, CLocalStep
<1>12. ASSUME NEW r \in Restaurants, LikeRestaurant(u, r) PROVE CInv'
  <2>1. PICK s : s = [store[u] EXCEPT !.likedRestaurants = store[u].likedRestaurants \cup {r}]
    OBVIOUS
  <2>2. /\ s.session = store[u].session /\ s.sessionCode = store[u].sessionCode
        /\ s.sessionLive = store[u].sessionLive
    BY <1>2, <2>1 DEF Stores
  <2>3. InSession(dev[u], s, fetching[u])
    BY <1>3, <2>2 DEF InSession
  <2>4. store' = [store EXCEPT ![u] = s] /\ UNCHANGED <<server, dev, fetching, running, used>>
    BY <1>1, <1>12, <2>1 DEF LikeRestaurant, TypeOK
  <2>5. \A v \in Users : used'[v]["quit"] = 0 => running'[v]
    BY <2>4, StillRuns
  <2>6. ComesTo(u, dev[u], s, fetching[u])
    BY <1>2, <1>3, <2>3, <2>4, <2>5 DEF ComesTo
  <2> QED
    BY <2>6, CLocalStep
<1>13. CASE EndSession(u)
  <2>1. PICK c \in Codes : c = store[u].sessionCode /\ c # NoCode
    BY <1>3, <1>4, <1>13 DEF EndSession, EndDue, ShowsLive, OnTop, InSession
  <2>2. PICK d : d = Issue(u, dev[u], Write("end", c))
    OBVIOUS
  <2>3. "end" \in Ops \ {"leave", "delete"}
    BY DEF Ops
  <2>4. Sound(d, Existing) /\ d.listeners = dev[u].listeners
    BY <1>2, <1>3, <1>6, <2>2, <2>3, WritesCalm
  <2>5. InSession(d, store[u], fetching[u])
    BY <1>3, <2>4 DEF InSession
  <2>6. /\ dev' = [dev EXCEPT ![u] = d]
        /\ UNCHANGED <<server, store, fetching, running>> /\ Count(u, "end")
    BY <1>13, <2>1, <2>2 DEF EndSession
  <2>7. \A v \in Users : used'[v]["quit"] = 0 => running'[v]
    BY <1>5, <2>6
  <2>8. ComesTo(u, d, store[u], fetching[u])
    BY <1>2, <2>4, <2>5, <2>6, <2>7 DEF ComesTo
  <2> QED
    BY <2>8, CLocalStep
<1> QED
  BY <1>7, <1>8, <1>9, <1>10, <1>11, <1>12, <1>13

\* A device that hears of a snapshot is in a session, and the document has a member.
LEMMA SnapshotInSession ==
    ASSUME IInv, MInv, CInv, NEW u \in Users, Arrived(u, "snapshot"),
           Head(dev[u].inbox).data # NoDoc
    PROVE  /\ store[u].session /\ store[u].sessionCode # NoCode
           /\ DOMAIN Head(dev[u].inbox).data.likes # {}
<1>1. dev[u] \in Devices /\ Sound(dev[u], Existing) /\ InSession(dev[u], store[u], fetching[u])
  BY DEF IInv, TypeOK, CInv
<1>2. dev[u].inbox # <<>> /\ Head(dev[u].inbox).kind = "snapshot"
  BY DEF Arrived, CallbackDue
<1>3. PICK e \in Events : e = Head(dev[u].inbox)
  BY <1>2, HandledFits DEF IInv
<1>4. e.code \in Codes /\ IsSnap(e, e.code)
  BY <1>2, <1>3 DEF Events, IsSnap
<1>5. 1 \in DOMAIN dev[u].inbox /\ dev[u].inbox[1] = e
  BY <1>1, <1>2, <1>3, DeviceParts, EmptySeq
<1>6. dev[u].listeners[e.code] > 0
  BY <1>4, <1>5 DEF MInv, Tracks, Tells, SnapIn
<1>7. Welcome(e, Existing)
  BY <1>1, <1>2, <1>3, HandledSound
<1> QED
  BY <1>1, <1>2, <1>3, <1>4, <1>6, <1>7 DEF InSession, Welcome

\* No device is told that its document is gone, or that it has left or deleted one.
LEMMA OnlyWelcome ==
    ASSUME IInv, CInv, NEW u \in Users
    PROVE  ~Left(u) /\ ~Deleted(u) /\ ~SnapshotGone(u)
<1> SUFFICES ASSUME dev[u].inbox # <<>> PROVE ~Left(u) /\ ~Deleted(u) /\ ~SnapshotGone(u)
  BY DEF Left, Deleted, SnapshotGone, Arrived, CallbackDue
<1>1. dev[u] \in Devices /\ Sound(dev[u], Existing)
  BY DEF IInv, TypeOK, CInv
<1>2. Welcome(Head(dev[u].inbox), Existing)
  BY <1>1, HandledSound
<1> QED
  BY <1>2 DEF Welcome, Left, Deleted, SnapshotGone, Arrived

\* No snapshot traps: a listening device has a session code, and the document has a
\* member.
LEMMA SnapshotDataCalm ==
    ASSUME IInv, MInv, CInv, NEW u \in Users, SnapshotData(u)
    PROVE  CInv'
<1>1. TypeOK
  BY DEF IInv
<1>2. /\ fetching = [fetching EXCEPT ![u] = fetching[u]]
      /\ dev[u] \in Devices /\ store[u] \in Stores
  BY <1>1 DEF TypeOK
<1>3. Sound(dev[u], Existing) /\ InSession(dev[u], store[u], fetching[u])
  BY DEF CInv
<1>4. /\ dev[u].inbox # <<>> /\ Head(dev[u].inbox).data # NoDoc
      /\ Head(dev[u].inbox).kind = "snapshot"
  BY DEF SnapshotData, Arrived, CallbackDue
<1>5. PICK popped : popped = Handled(dev[u])
  OBVIOUS
<1>6. popped \in Devices /\ Sound(popped, Existing)
  BY <1>2, <1>3, <1>4, <1>5, HandledSound
<1>7. PICK e \in Events : e = Head(dev[u].inbox)
  BY <1>4, HandledFits DEF IInv
<1>8. PICK d \in Docs : d = e.data
  BY <1>4, <1>7 DEF Events
<1>9. DOMAIN d.likes # {}
  BY <1>4, <1>7, <1>8, SnapshotInSession DEF SnapshotData
<1>10. store[u].session /\ store[u].sessionCode # NoCode
  BY <1>4, SnapshotInSession DEF SnapshotData
<1>11. PICK c \in Codes : c = store[u].sessionCode
  BY <1>2, <1>10 DEF Stores
<1>12. PICK push \in BOOLEAN : push = MustPush(store[u], d)
  BY DEF MustPush
<1>13. PICK after : after = IF push THEN PushResults(u, popped) ELSE popped
  OBVIOUS
<1>14. PICK new : new = [Absorb(store[u], d) EXCEPT !.pushed = @ \/ push]
  OBVIOUS
<1>15. /\ \/ Do(u, after, new)
          \/ \E sel \in Selections(d.likes) : Do(u, CalcResult(u, after, sel), new)
       /\ UNCHANGED <<server, fetching, running, used>>
  BY <1>5, <1>7, <1>8, <1>9, <1>10, <1>12, <1>13, <1>14 DEF SnapshotData
<1>16. new.session /\ new.sessionCode # NoCode
  <2>1. PICK b \in BOOLEAN : b = (Absorb(store[u], d).pushed \/ push)
    OBVIOUS
  <2>2. new = [Absorb(store[u], d) EXCEPT !.pushed = b]
    BY <1>14, <2>1
  <2> QED
    BY <1>2, <1>10, <2>2 DEF Absorb, Stores
<1>17. after \in Devices /\ Sound(after, Existing)
  <2>1. CASE push
    <3>1. PICK l \in SUBSET Restaurants : l = store[u].likedRestaurants
      BY <1>2 DEF Stores
    <3>2. PICK w : w = [Write("push", c) EXCEPT !.liked = l]
      OBVIOUS
    <3>3. "push" \in Ops \ {"leave", "delete"}
      BY DEF Ops
    <3>4. w \in Writes /\ w.op = "push" /\ w.code = c /\ w.reply = "none"
      BY <3>2, <3>3, WriteType DEF Write
    <3>5. after = Issue(u, popped, w)
      BY <1>11, <1>13, <2>1, <3>1, <3>2 DEF PushResults
    <3> QED
      BY <1>6, <3>3, <3>4, <3>5, WritesCalm
  <2>2. CASE ~push
    BY <1>6, <1>13, <2>2
  <2> QED
    BY <2>1, <2>2
<1>18. ASSUME NEW dd, Sound(dd, Existing), Do(u, dd, new) PROVE CInv'
  <2>1. InSession(dd, new, fetching[u])
    BY <1>16 DEF InSession
  <2>2. \A v \in Users : used'[v]["quit"] = 0 => running'[v]
    BY <1>15, StillRuns
  <2>3. ComesTo(u, dd, new, fetching[u])
    BY <1>2, <1>15, <1>18, <2>1, <2>2 DEF ComesTo, Do
  <2> QED
    BY <2>3, CLocalStep
<1>19. CASE Do(u, after, new)
  BY <1>17, <1>18, <1>19
<1>20. ASSUME NEW sel \in Selections(d.likes), Do(u, CalcResult(u, after, sel), new)
       PROVE  CInv'
  <2>1. sel \in Results
    BY DEF Selections, Consensus, Results
  <2>2. PICK w : w = [Write("result", c) EXCEPT !.sel = sel]
    OBVIOUS
  <2>3. "result" \in Ops \ {"leave", "delete"}
    BY DEF Ops
  <2>4. w \in Writes /\ w.op = "result" /\ w.code = c /\ w.reply = "none"
    BY <2>1, <2>2, <2>3, WriteType DEF Write
  <2>5. PICK dd : dd = Issue(u, after, w)
    OBVIOUS
  <2>6. dd = CalcResult(u, after, sel)
    BY <1>11, <2>2, <2>5 DEF CalcResult
  <2>7. Sound(dd, Existing)
    BY <1>17, <2>3, <2>4, <2>5, WritesCalm
  <2> QED
    BY <1>18, <1>20, <2>6, <2>7
<1> QED
  BY <1>15, <1>19, <1>20

\* The callbacks preserve the invariant: no device is told that its document is gone,
\* and nobody has left or deleted a session.
LEMMA CallbackCalm ==
    ASSUME IInv, MInv, CInv, NEW u \in Users, Callback(u)
    PROVE  CInv'
<1>1. TypeOK
  BY DEF IInv
<1>2. /\ fetching = [fetching EXCEPT ![u] = fetching[u]]
      /\ dev[u] \in Devices /\ store[u] \in Stores
  BY <1>1 DEF TypeOK
<1>3. Sound(dev[u], Existing) /\ InSession(dev[u], store[u], fetching[u])
  BY DEF CInv
<1>4. dev[u].inbox # <<>>
  BY DEF Callback, Joined, Left, Deleted, SnapshotGone, SnapshotData, Arrived, CallbackDue
<1>5. PICK e \in Events : e = Head(dev[u].inbox)
  BY <1>4, HandledFits DEF IInv
<1>6. PICK d : d = Handled(dev[u])
  OBVIOUS
<1>7. /\ d \in Devices /\ Sound(d, Existing) /\ d.listeners = dev[u].listeners
      /\ Welcome(e, Existing) /\ e.code \in Codes
  BY <1>2, <1>3, <1>4, <1>5, <1>6, HandledSound DEF Events
<1>8. CASE Joined(u) /\ e.ok
  <2>1. e.code \in Existing
    BY <1>5, <1>7, <1>8 DEF Welcome, Joined, Arrived
  <2>2. Sound(Watch(u, d, e.code), Existing)
    BY <1>7, <2>1, WatchSound
  <2>3. PICK s : s = [store[u] EXCEPT !.sessionCode = e.code]
    OBVIOUS
  <2>4. s.sessionCode # NoCode /\ s.session = store[u].session
    BY <1>2, <1>7, <2>3, SessionStoreAssumption DEF Stores
  <2>5. InSession(Watch(u, d, e.code), s, fetching[u])
    BY <1>3, <2>4 DEF InSession
  <2>6. /\ dev' = [dev EXCEPT ![u] = Watch(u, d, e.code)] /\ store' = [store EXCEPT ![u] = s]
        /\ UNCHANGED <<server, fetching, running, used>>
    BY <1>5, <1>6, <1>8, <2>3 DEF Joined, Do
  <2>7. \A v \in Users : used'[v]["quit"] = 0 => running'[v]
    BY <2>6, StillRuns
  <2>8. ComesTo(u, Watch(u, d, e.code), s, fetching[u])
    BY <1>2, <2>2, <2>5, <2>6, <2>7 DEF ComesTo
  <2> QED
    BY <2>8, CLocalStep
<1>9. CASE Joined(u) /\ ~e.ok
  <2>1. PICK s : s = [store[u] EXCEPT !.sessionError = "join"]
    OBVIOUS
  <2>2. /\ s.session = store[u].session /\ s.sessionCode = store[u].sessionCode
        /\ s.sessionLive = store[u].sessionLive
    BY <1>2, <2>1 DEF Stores
  <2>3. InSession(d, s, fetching[u])
    BY <1>3, <1>7, <2>2 DEF InSession
  <2>4. /\ dev' = [dev EXCEPT ![u] = d] /\ store' = [store EXCEPT ![u] = s]
        /\ UNCHANGED <<server, fetching, running, used>>
    BY <1>5, <1>6, <1>9, <2>1 DEF Joined, Do
  <2>5. \A v \in Users : used'[v]["quit"] = 0 => running'[v]
    BY <2>4, StillRuns
  <2>6. ComesTo(u, d, s, fetching[u])
    BY <1>2, <1>7, <2>3, <2>4, <2>5 DEF ComesTo
  <2> QED
    BY <2>6, CLocalStep
<1>10. ~Left(u) /\ ~Deleted(u) /\ ~SnapshotGone(u)
  BY OnlyWelcome
<1>11. CASE SnapshotData(u)
  BY <1>11, SnapshotDataCalm
<1> QED
  BY <1>8, <1>9, <1>10, <1>11 DEF Callback

\* The server executes a write: it keeps the documents that it has.
LEMMA CommitCalm ==
    ASSUME IInv, CInv, NEW u \in Users, NEW b \in BOOLEAN, Commit(u, b)
    PROVE  CInv'
<1>1. TypeOK
  BY DEF IInv
<1>2. dev[u] \in Devices /\ Sound(dev[u], Existing)
  BY <1>1 DEF TypeOK, CInv
<1>3. PICK q \in Seq(Writes) : q = dev[u].queue[b]
  BY <1>2, DeviceParts
<1>4. PICK i \in DOMAIN q :
        /\ server' = [server EXCEPT ![q[i].code] =
                        Apply(u, q[i], NumberFor(q[i], server[q[i].code]), server[q[i].code])]
        /\ dev' = [dev EXCEPT ![u].queue[b][i] =
                     [q[i] EXCEPT !.counter = NumberFor(q[i], server[q[i].code]),
                                  !.reply = IF Replaces(q[i]) \/ server[q[i].code] # NoDoc
                                            THEN "ok" ELSE "failed"]]
  BY <1>3, Zenon DEF Commit
<1>5. PICK w \in Writes : w = q[i]
  BY <1>3
<1>6. PICK c \in Codes : c = w.code
  BY WriteParts
<1>7. server[c] \in Docs \cup {NoDoc} /\ Peopled(server[c])
  BY <1>1 DEF TypeOK, CInv
<1>8. PICK n \in Int : n = NumberFor(w, server[c])
  BY <1>7, NumberForType DEF CachedDocs
<1>9. PICK new : new = Apply(u, w, n, server[c])
  OBVIOUS
<1>10. PICK a : a = IF Replaces(w) \/ server[c] # NoDoc THEN "ok" ELSE "failed"
  OBVIOUS
<1>11. server' = [server EXCEPT ![c] = new]
  BY <1>4, <1>5, <1>6, <1>8, <1>9
<1>12. w.op \notin {"leave", "delete"}
  BY <1>2, <1>3, <1>5 DEF Sound, SoundQueue, Harmless
<1>13. Peopled(new) /\ (Missing(new) <=> Missing(server[c]) /\ w.op # "create")
  <2>1. server[c] \in CachedDocs
    BY <1>7 DEF CachedDocs
  <2> QED
    BY <1>7, <1>9, <1>12, <2>1, ApplyPeopled
<1>14. server' \in [Codes -> Docs \cup {NoDoc}]
  <2>1. IInv'
    BY NetworkStep
  <2> QED
    BY <2>1 DEF IInv, TypeOK
<1>15. /\ server'[c] = new /\ \A o \in Codes \ {c} : server'[o] = server[o]
       /\ new \in Docs \cup {NoDoc}
  BY <1>1, <1>11, <1>14 DEF TypeOK
<1>16. \A o \in Codes : Peopled(server'[o])
  BY <1>13, <1>15 DEF CInv
<1>17. PICK E : E = Existing'
  OBVIOUS
<1>18. E = {o \in Codes : server'[o] # NoDoc}
  BY <1>17 DEF Existing
<1>19. server[c] # NoDoc \/ w.op = "create" <=> new # NoDoc
  BY <1>7, <1>13, <1>15, MissingAssumption DEF Missing
<1>20. Existing \subseteq E
  BY <1>15, <1>18, <1>19 DEF Existing
<1>21. PICK x : x = [w EXCEPT !.counter = n, !.reply = a]
  OBVIOUS
<1>22. x.op = w.op /\ x.code = c /\ x.reply = a
  BY <1>6, <1>21 DEF Writes
<1>23. a # "seen" /\ Harmless(x, E)
  BY <1>10, <1>12, <1>15, <1>18, <1>19, <1>22 DEF Harmless, Replaces
<1>24. PICK r : r = [q EXCEPT ![i] = x]
  OBVIOUS
<1>25. PICK qs : qs = [dev[u].queue EXCEPT ![b] = r]
  OBVIOUS
<1>26. PICK d : d = [dev[u] EXCEPT !.queue = qs]
  OBVIOUS
<1>27. dev' = [dev EXCEPT ![u] = d]
  BY <1>3, <1>4, <1>5, <1>6, <1>8, <1>10, <1>21, <1>24, <1>25, <1>26
<1>28. DOMAIN r = DOMAIN q /\ r[i] = x /\ \A j \in DOMAIN q \ {i} : r[j] = q[j]
  BY <1>3, <1>24
<1>29. qs[b] = r /\ \A o \in BOOLEAN \ {b} : qs[o] = dev[u].queue[o]
  BY <1>2, <1>25, DeviceParts
<1>30. /\ d.queue = qs /\ d.user = dev[u].user /\ d.cache = dev[u].cache /\ SameView(dev[u], d)
       /\ d.listeners = dev[u].listeners
  BY <1>2, <1>26 DEF Devices, SameView
<1>31. SameWrites(dev[u], d)
  BY <1>3, <1>5, <1>6, <1>22, <1>28, <1>29, <1>30 DEF SameWrites
<1>32. Sound(d, E)
  <2>1. Sound(dev[u], E)
    BY <1>2, <1>20, SoundGrows
  <2>2. ASSUME NEW o \in BOOLEAN, NEW j \in DOMAIN dev[u].queue[o]
        PROVE  \/ d.queue[o][j].reply = dev[u].queue[o][j].reply
               \/ d.queue[o][j].reply # "seen" /\ Harmless(d.queue[o][j], E)
    <3>1. CASE o = b /\ j = i
      BY <1>22, <1>23, <1>28, <1>29, <1>30, <3>1
    <3>2. CASE ~(o = b /\ j = i)
      BY <1>3, <1>28, <1>29, <1>30, <3>2
    <3> QED
      BY <3>1, <3>2
  <2> QED
    BY <1>2, <1>30, <1>31, <2>1, <2>2, AnsweredSound
<1>33. ASSUME NEW v \in Users
       PROVE  Sound(dev'[v], E) /\ InSession(dev'[v], store'[v], fetching'[v])
  <2>1. UNCHANGED <<store, fetching>>
    BY DEF Commit
  <2>2. CASE v = u
    <3>1. dev'[v] = d
      BY <1>1, <1>27, <2>2 DEF TypeOK
    <3> QED
      BY <1>30, <1>32, <2>1, <2>2, <3>1 DEF CInv, InSession
  <2>3. CASE v # u
    <3>1. dev'[v] = dev[v]
      BY <1>1, <1>27, <2>3 DEF TypeOK
    <3>2. Sound(dev[v], E)
      BY <1>20, SoundGrows DEF CInv
    <3> QED
      BY <2>1, <3>1, <3>2 DEF CInv
  <2> QED
    BY <2>2, <2>3
<1>34. UNCHANGED <<running, used>>
  BY DEF Commit
<1> QED
  BY <1>16, <1>17, <1>33, <1>34 DEF CInv

\* The network preserves the invariant.
LEMMA NetworkCalm ==
    ASSUME Calm, IInv, CInv, NEW u \in Users,
           \/ \E b \in BOOLEAN : Commit(u, b)
           \/ Ack(u)
           \/ \E c \in Codes : Sync(u, c) \/ GoOffline(u, c)
    PROVE  CInv'
<1>1. TypeOK
  BY DEF IInv
<1>2. /\ store = [store EXCEPT ![u] = store[u]] /\ fetching = [fetching EXCEPT ![u] = fetching[u]]
      /\ dev[u] \in Devices
  BY <1>1 DEF TypeOK
<1>3. Sound(dev[u], Existing) /\ InSession(dev[u], store[u], fetching[u])
  BY DEF CInv
<1>4. ASSUME NEW d, Sound(d, Existing), d.listeners = dev[u].listeners,
             dev' = [dev EXCEPT ![u] = d],
             UNCHANGED <<server, store, screen, fetching, running, used>>
      PROVE  CInv'
  <2>1. PICK s : s = store[u]
    OBVIOUS
  <2>2. PICK f : f = fetching[u]
    OBVIOUS
  <2>3. Sound(d, Existing) /\ InSession(d, s, f)
    BY <1>3, <1>4, <2>1, <2>2 DEF InSession
  <2>4. /\ dev' = [dev EXCEPT ![u] = d] /\ store' = [store EXCEPT ![u] = s]
        /\ fetching' = [fetching EXCEPT ![u] = f] /\ UNCHANGED server
    BY <1>2, <1>4, <2>1, <2>2
  <2>5. \A v \in Users : used'[v]["quit"] = 0 => running'[v]
    BY <1>4, StillRuns
  <2>6. ComesTo(u, d, s, f)
    BY <2>3, <2>4, <2>5 DEF ComesTo
  <2> QED
    BY <2>6, CLocalStep
<1>5. CASE \E b \in BOOLEAN : Commit(u, b)
  BY <1>5, CommitCalm
<1>6. CASE Ack(u)
  <2>1. PICK d : d = Acknowledge(u, dev[u])
    OBVIOUS
  <2>2. Pending(dev[u]) # <<>> /\ Head(Pending(dev[u])).reply # "none"
    BY <1>6 DEF Ack, AckDue
  <2>3. Sound(d, Existing) /\ d.listeners = dev[u].listeners
    BY <1>2, <1>3, <2>1, <2>2, AcknowledgeType, AcknowledgeSound
  <2> QED
    BY <1>4, <1>6, <2>1, <2>3 DEF Ack
<1>7. ASSUME NEW c \in Codes, Sync(u, c) PROVE CInv'
  <2>1. /\ server[c] \in Docs \cup {NoDoc} /\ dev[u].listeners[c] > 0
        /\ Peopled(server[c]) /\ (server[c] # NoDoc <=> c \in Existing)
    BY <1>1, <1>7 DEF TypeOK, Sync, SyncDue, CInv, Existing
  <2>2. PICK d : d = Receive(u, dev[u], c, server[c])
    OBVIOUS
  <2>3. Sound(d, Existing) /\ d.listeners = dev[u].listeners
    BY <1>2, <1>3, <2>1, <2>2, ReceiveType, ReceiveSound
  <2> QED
    BY <1>4, <1>7, <2>2, <2>3 DEF Sync
<1>8. ASSUME NEW c \in Codes PROVE ~GoOffline(u, c)
  BY CalmAllows DEF GoOffline
<1> QED
  BY <1>5, <1>6, <1>7, <1>8

------------------------------------------------------------------------------

\* While nobody goes back, signs out or is offline for too long, the inductive
\* invariant is an invariant of the specification.
LEMMA CInvariance == ASSUME Calm PROVE Spec => []CInv
<1>1. Init => CInv
  <2> SUFFICES ASSUME Init PROVE CInv
    OBVIOUS
  <2>1. \A c \in Codes : Peopled(server[c])
    BY DEF Init, Peopled, Missing
  <2>2. ASSUME NEW u \in Users
        PROVE  /\ Sound(dev[u], Existing) /\ InSession(dev[u], store[u], fetching[u])
               /\ running[u]
    <3>1. /\ dev[u] = NewDevice /\ store[u].session /\ ~store[u].sessionLive /\ ~fetching[u]
          /\ running[u]
      BY DEF Init, NewStore
    <3>2. /\ \A b \in BOOLEAN : dev[u].queue[b] = <<>>
          /\ \A c \in Codes : /\ dev[u].cache[c] = Unknown /\ dev[u].shown[c] = NoDoc
                              /\ dev[u].listeners[c] = 0 /\ dev[u].link[c] = "connecting"
          /\ dev[u].inbox = <<>>
      BY <3>1 DEF NewDevice
    <3>3. Sound(dev[u], Existing)
      BY <3>2 DEF Sound, SoundQueue, SoundView, SoundInbox, Peopled, Missing
    <3> QED
      BY <3>1, <3>2, <3>3 DEF InSession
  <2> QED
    BY <2>1, <2>2 DEF CInv
<1>2. IInv /\ MInv /\ CInv /\ [Next]_vars => CInv'
  <2> SUFFICES ASSUME IInv, MInv, CInv, [Next]_vars PROVE CInv'
    OBVIOUS
  <2>1. CASE UNCHANGED vars
    BY <2>1 DEF vars, CInv, Existing
  <2>2. CASE Next
    <3>1. PICK u \in Users :
            \/ OpenCreate(u) \/ OpenJoin(u)
            \/ LeaveCreateScreen(u) \/ LeaveJoinScreen(u)
            \/ SignOut(u) \/ HearSignOut(u) \/ SignIn(u) \/ Quit(u) \/ Launch(u)
            \/ \E c \in Codes : CreateSession(u, c)
            \/ \E c \in Codes : JoinSession(u, c)
            \/ \E t \in TimeLimits, r \in Radii : Start(u, t, r)
            \/ ReceiveRestaurants(u) \/ FetchFails(u)
            \/ \E r \in Restaurants : LikeRestaurant(u, r)
            \/ EndSession(u)
            \/ Callback(u)
            \/ \E b \in BOOLEAN : Commit(u, b)
            \/ Ack(u)
            \/ \E c \in Codes : Sync(u, c) \/ GoOffline(u, c)
      BY <2>2, Zenon DEF Next, Callback
    <3> QED
      BY <3>1, NavigationCalm, OperationCalm, CallbackCalm, NetworkCalm, Zenon
  <2> QED
    BY <2>1, <2>2
<1> QED
  BY <1>1, <1>2, Invariance, MInvariance, PTL DEF Spec

\* While nobody goes back to the home screen, signs out or is offline for too long,
\* the force unwraps of sessionCode and session never meet nil and strings[0] exists,
\* for every number of hosts, guests and sessions, whoever closes the app
\* (SessionStore.swift:98, 117, 118, 135, 136 and 220).
THEOREM KeepsRunning == ASSUME Calm PROVE Spec => []NoTrap
<1>1. CInv => NoTrap
  BY DEF CInv, NoTrap
<1> QED
  BY <1>1, CInvariance, PTL

------------------------------------------------------------------------------
(* One round: the counters. *)

\* One host; everybody else joins at most once; nobody closes the app either.
OneRound == /\ Calm
            /\ \A u \in Users : Limit[u]["quit"] = 0 /\ Limit[u]["join"] <= 1
            /\ \A u, v \in Hosts : u = v
            /\ Hosts \cap Guests = {}

\* The i-th write of the queue q has not been executed.
Waits(q, i, op) == q[i].op = op /\ q[i].reply = "none"

\* u is a member of the session with the document x.
MemberOf(u, x) == x # NoDoc /\ u \in DOMAIN x.likes

\* The creation of session c waits in the queue q, before the i-th write.
CreatesBefore(q, c, i) == \E j \in DOMAIN q : j < i /\ Waits(q, j, "create") /\ q[j].code = c

Creating(q, c) == \E j \in DOMAIN q : Waits(q, j, "create") /\ q[j].code = c

\* The server has all the likes of a user with the device d and the store s.
HandsIn(d, s) == s.pushed /\ ~\E i \in DOMAIN d.queue[TRUE] : Waits(d.queue[TRUE], i, "push")

\* The writes of user u in the queue q when the server has the documents sv.
QueueOrder(u, q, sv) ==
    /\ \A i, j \in DOMAIN q : /\ q[i].op = "create" /\ q[j].op = "create" => i = j
                              /\ q[i].op = "join" /\ q[j].op = "join" => i = j
                              /\ Waits(q, i, "push") /\ Waits(q, j, "push") => i = j
    /\ \A i \in DOMAIN q :
          LET c == q[i].code
          IN  /\ Waits(q, i, "create") => sv[c] = NoDoc
              /\ Waits(q, i, "join") => \A o \in Codes : ~MemberOf(u, sv[o])
              /\ q[i].op = "join" /\ q[i].reply \in {"ok", "seen"} => MemberOf(u, sv[c])
              /\ Waits(q, i, "push") => MemberOf(u, sv[c]) \/ CreatesBefore(q, c, i)

\* Who may write what.
Roles(u, d, s, x) ==
    /\ d.user = TRUE /\ d.queue[FALSE] = <<>>
    /\ x = "create" => u \in Hosts
    /\ x = "join" => u \in Guests
    /\ \A i \in DOMAIN d.queue[TRUE] :
          /\ d.queue[TRUE][i].op = "create" => u \in Hosts /\ d.queue[TRUE][i].code = s.sessionCode
          /\ d.queue[TRUE][i].op = "join" => u \in Guests
    /\ \A i \in DOMAIN d.inbox : d.inbox[i].kind = "join" => u \in Guests

\* A user's part in the session: who has a session code is a member or about to
\* create the session, who has pushed is a member or waits for the push.
Part(u, d, s, sv) ==
    /\ s.sessionCode # NoCode =>
          \/ MemberOf(u, sv[s.sessionCode])
          \/ Creating(d.queue[TRUE], s.sessionCode)
    /\ \A i \in DOMAIN d.inbox : d.inbox[i].kind = "join" /\ d.inbox[i].ok =>
          MemberOf(u, sv[d.inbox[i].code])
    /\ (\E i \in DOMAIN d.queue[TRUE] : Waits(d.queue[TRUE], i, "push")) => s.pushed
    /\ HandsIn(d, s) => \E c \in Codes : MemberOf(u, sv[c])

\* A guest who has not tapped Join.
Unjoined(u, d, sv, n) ==
    n = 0 /\ u \in Guests => /\ \A i \in DOMAIN d.queue[TRUE] : d.queue[TRUE][i].op # "join"
                             /\ \A c \in Codes : ~MemberOf(u, sv[c])

Good(u, d, s, x, n, sv) == /\ QueueOrder(u, d.queue[TRUE], sv)
                           /\ Roles(u, d, s, x)
                           /\ Part(u, d, s, sv)
                           /\ Unjoined(u, d, sv, n)

\* The host's session is the only one.
OneSession == \A c \in Codes : server[c] # NoDoc => \E u \in Hosts : store[u].sessionCode = c

\* The counters of the session's document.
Tallies == \A c \in Codes : server[c] # NoDoc =>
              /\ IsFiniteSet(DOMAIN server[c].likes)
              /\ server[c].participants = Cardinality(DOMAIN server[c].likes)
              /\ server[c].finishedPushing =
                   Cardinality({u \in DOMAIN server[c].likes : HandsIn(dev[u], store[u])})

RInv == /\ \A u \in Users : Good(u, dev[u], store[u], screen[u], used[u]["join"], server)
        /\ OneSession
        /\ Tallies

------------------------------------------------------------------------------
(* What the operations of a device do to its queue, and to the answers to joins. *)

\* The answers to joins in the inbox of d2 were in the inbox of d.
NoNewJoin(d, d2) ==
    \A i \in DOMAIN d2.inbox : d2.inbox[i].kind = "join" =>
        \E j \in DOMAIN d.inbox : d.inbox[j] = d2.inbox[i]

\* Calling the listeners adds calls.
LEMMA CalledEither ==
    ASSUME NEW q \in Seq(Events), NEW n \in Nat, NEW e \in Events, NEW r, r = Called(q, n, e),
           NEW i \in DOMAIN r
    PROVE  (i \in DOMAIN q /\ r[i] = q[i]) \/ r[i] = e
<1>1. /\ Len(q) \in Nat /\ DOMAIN q = 1 .. Len(q)
      /\ DOMAIN r = 1 .. Len(q) + n
      /\ \A k \in 1 .. Len(q) : r[k] = q[k]
      /\ \A k \in Len(q) + 1 .. Len(q) + n : r[k] = e
  <2>1. /\ Len(q) \in Nat /\ DOMAIN q = 1 .. Len(q)
        /\ DOMAIN Called(q, n, e) = 1 .. Len(q) + n
        /\ \A k \in 1 .. Len(q) : Called(q, n, e)[k] = q[k]
        /\ \A k \in Len(q) + 1 .. Len(q) + n : Called(q, n, e)[k] = e
    BY CalledParts
  <2> QED
    BY <2>1
<1>2. i \in 1 .. Len(q) \/ i \in Len(q) + 1 .. Len(q) + n
  BY <1>1
<1> QED
  BY <1>1, <1>2

\* A snapshot is not the answer to a join.
LEMMA SnapshotNoJoin ==
    ASSUME NEW q \in Seq(Events), NEW n \in Nat, NEW e \in Events, e.kind # "join",
           NEW i \in DOMAIN Called(q, n, e), Called(q, n, e)[i].kind = "join"
    PROVE  \E j \in DOMAIN q : q[j] = Called(q, n, e)[i]
  BY CalledEither

LEMMA RefreshQueue ==
    ASSUME NEW u \in Users, NEW d \in Devices, NEW c \in Codes
    PROVE  /\ Refresh(u, d, c).queue = d.queue /\ Refresh(u, d, c).user = d.user
           /\ NoNewJoin(d, Refresh(u, d, c))
<1>1. PICK d2 : d2 = Refresh(u, d, c)
  OBVIOUS
<1>2. PICK x \in Docs \cup {NoDoc} : x = Visible(Local(u, d, c))
  BY LocalType
<1>3. /\ d2.queue = d.queue /\ d2.user = d.user
      /\ d2 = d \/ d2.inbox = Called(d.inbox, d.listeners[c], Snapshot(c, x))
  BY <1>1, <1>2, RefreshValues
<1>4. d.inbox \in Seq(Events) /\ d.listeners[c] \in Nat
  BY DeviceParts
<1>5. Snapshot(c, x) \in Events /\ Snapshot(c, x).kind # "join"
  BY DEF Snapshot, Events
<1>6. NoNewJoin(d, d2)
  BY <1>3, <1>4, <1>5, SnapshotNoJoin DEF NoNewJoin
<1> QED
  BY <1>1, <1>3, <1>6

\* A write is queued behind the others.
LEMMA IssueQueue ==
    ASSUME NEW u \in Users, NEW d \in Devices, d.user = TRUE, NEW w \in Writes
    PROVE  /\ Issue(u, d, w).user = TRUE /\ Issue(u, d, w).queue[FALSE] = d.queue[FALSE]
           /\ \E x \in Writes : /\ x.op = w.op /\ x.code = w.code /\ x.reply = w.reply
                                /\ Issue(u, d, w).queue[TRUE] = Append(d.queue[TRUE], x)
           /\ NoNewJoin(d, Issue(u, d, w))
<1>1. w.code \in Codes
  BY WriteParts
<1>2. PICK n \in Int : n = NumberFor(w, Local(u, d, w.code))
  BY <1>1, LocalType, NumberForType
<1>3. PICK x \in Writes : x = [w EXCEPT !.num = n]
  BY DEF Writes
<1>4. x.code = w.code /\ x.op = w.op /\ x.reply = w.reply
  BY <1>3 DEF Writes
<1>5. PICK r \in Seq(Writes) : r = Append(d.queue[TRUE], x)
  <2>1. PICK old \in Seq(Writes) : old = d.queue[TRUE]
    BY DeviceParts
  <2>2. Append(old, x) \in Seq(Writes)
    BY AppendProperties
  <2> QED
    BY <2>1, <2>2
<1>6. PICK q : q = [d.queue EXCEPT ![d.user] = r]
  OBVIOUS
<1>7. q \in [BOOLEAN -> Seq(Writes)] /\ q[TRUE] = r /\ q[FALSE] = d.queue[FALSE]
  BY <1>5, <1>6, DeviceParts
<1>8. PICK d2 : d2 = [d EXCEPT !.queue = q]
  OBVIOUS
<1>9. d2 \in Devices /\ d2.queue = q /\ d2.user = TRUE /\ d2.inbox = d.inbox
  BY <1>7, <1>8 DEF Devices
<1>10. Issue(u, d, w) = Refresh(u, d2, w.code)
  <2>1. r = Append(d.queue[d.user], [w EXCEPT !.num = n])
    BY <1>3, <1>5
  <2> QED
    BY <1>2, <1>6, <1>8, <2>1 DEF Issue
<1>11. PICK d3 : d3 = Refresh(u, d2, w.code)
  OBVIOUS
<1>12. d3.queue = q /\ d3.user = TRUE /\ NoNewJoin(d2, d3)
  BY <1>1, <1>9, <1>11, RefreshQueue
<1>13. NoNewJoin(d, d3)
  BY <1>9, <1>12 DEF NoNewJoin
<1> QED
  BY <1>4, <1>5, <1>7, <1>10, <1>11, <1>12, <1>13

LEMMA WatchQueue ==
    ASSUME NEW u \in Users, NEW d \in Devices, NEW c \in Codes
    PROVE  /\ Watch(u, d, c).queue = d.queue /\ Watch(u, d, c).user = d.user
           /\ NoNewJoin(d, Watch(u, d, c))
<1>1. d.shown \in [Codes -> Docs \cup {NoDoc}] /\ d.inbox \in Seq(Events)
  BY DeviceParts
<1>2. PICK x \in Docs \cup {NoDoc} :
          x = IF d.listeners[c] = 0 THEN Visible(Local(u, d, c)) ELSE d.shown[c]
  BY <1>1, LocalType
<1>3. PICK n \in Nat : n = IF x # NoDoc \/ d.link[c] # "connecting" THEN 1 ELSE 0
  OBVIOUS
<1>4. PICK i : i = Called(d.inbox, n, Snapshot(c, x))
  OBVIOUS
<1>5. Watch(u, d, c).queue = d.queue /\ Watch(u, d, c).user = d.user
  BY DEF Watch, Devices
<1>6. Watch(u, d, c).inbox = i
  BY <1>2, <1>3, <1>4 DEF Watch, Devices
<1>7. Snapshot(c, x) \in Events /\ Snapshot(c, x).kind # "join"
  BY DEF Snapshot, Events
<1>8. NoNewJoin(d, Watch(u, d, c))
  BY <1>1, <1>4, <1>6, <1>7, SnapshotNoJoin DEF NoNewJoin
<1> QED
  BY <1>5, <1>8

LEMMA HandledQueue ==
    ASSUME NEW d \in Devices, d.inbox # <<>>
    PROVE  /\ Handled(d) \in Devices /\ Handled(d).queue = d.queue /\ Handled(d).user = d.user
           /\ NoNewJoin(d, Handled(d))
           /\ 1 \in DOMAIN d.inbox /\ Head(d.inbox) = d.inbox[1]
<1>1. d.inbox \in Seq(Events)
  BY DeviceParts
<1>2. PICK t : t = Tail(d.inbox)
  OBVIOUS
<1>3. /\ t \in Seq(Events) /\ Len(t) = Len(d.inbox) - 1
      /\ \A i \in 1 .. Len(t) : t[i] = d.inbox[i + 1]
  BY <1>1, <1>2, HeadTailProperties, Zenon
<1>4. /\ Len(d.inbox) \in Nat /\ DOMAIN d.inbox = 1 .. Len(d.inbox) /\ DOMAIN t = 1 .. Len(t)
      /\ Head(d.inbox) = d.inbox[1] /\ Len(d.inbox) > 0
  BY <1>1, <1>3, EmptySeq
<1>5. PICK d2 : d2 = [d EXCEPT !.inbox = t]
  OBVIOUS
<1>6. d2 \in Devices /\ d2.queue = d.queue /\ d2.user = d.user /\ d2.inbox = t
  BY <1>3, <1>5 DEF Devices
<1>7. Handled(d) = d2
  BY <1>2, <1>5 DEF Handled
<1>8. \A i \in DOMAIN t : i + 1 \in DOMAIN d.inbox /\ d.inbox[i + 1] = t[i]
  BY <1>3, <1>4
<1>9. NoNewJoin(d, d2)
  BY <1>6, <1>8 DEF NoNewJoin
<1> QED
  BY <1>4, <1>6, <1>7, <1>9

\* The oldest write leaves the queue; the answer to a join is the answer to this one.
LEMMA AcknowledgeQueue ==
    ASSUME NEW u \in Users, NEW d \in Devices, d.user = TRUE, Pending(d) # <<>>
    PROVE  /\ Acknowledge(u, d).user = TRUE
           /\ Acknowledge(u, d).queue[FALSE] = d.queue[FALSE]
           /\ Acknowledge(u, d).queue[TRUE] = Tail(d.queue[TRUE])
           /\ \A i \in DOMAIN Acknowledge(u, d).inbox :
                Acknowledge(u, d).inbox[i].kind = "join" =>
                   \/ \E j \in DOMAIN d.inbox : d.inbox[j] = Acknowledge(u, d).inbox[i]
                   \/ /\ Head(d.queue[TRUE]).op = "join"
                      /\ Acknowledge(u, d).inbox[i] = Completion(Head(d.queue[TRUE]))
<1>1. PICK old \in Seq(Writes) : old = d.queue[TRUE]
  BY DeviceParts
<1>2. Pending(d) = old /\ old # <<>> /\ old = d.queue[d.user]
  BY <1>1 DEF Pending
<1>3. PICK w \in Writes : w = Head(old)
  BY <1>2, HeadTailProperties, Zenon
<1>4. PICK c \in Codes : c = w.code
  BY WriteParts
<1>5. PICK r \in Seq(Writes) : r = Tail(old)
  BY <1>2, HeadTailProperties, Zenon
<1>6. PICK q : q = [d.queue EXCEPT ![d.user] = r]
  OBVIOUS
<1>7. q \in [BOOLEAN -> Seq(Writes)] /\ q[TRUE] = r /\ q[FALSE] = d.queue[FALSE]
  BY <1>5, <1>6, DeviceParts
<1>8. PICK x : x = IF w.reply = "ok" THEN IF ~Replaces(w) /\ Missing(d.cache[c]) THEN Unknown
                                          ELSE Apply(u, w, w.counter, d.cache[c])
                   ELSE d.cache[c]
  OBVIOUS
<1>9. x \in CachedDocs
  <2>1. d.cache[c] \in CachedDocs /\ w.counter \in Int
    BY DeviceParts, WriteParts
  <2> QED
    BY <1>8, <2>1, ApplyType DEF CachedDocs
<1>10. PICK k : k = [d.cache EXCEPT ![c] = x]
  OBVIOUS
<1>11. PICK a : a = [d.acked EXCEPT ![c] = @ \/ w.reply = "ok"]
  OBVIOUS
<1>12. k \in [Codes -> CachedDocs] /\ a \in [Codes -> BOOLEAN]
  BY <1>9, <1>10, <1>11, DeviceParts
<1>13. PICK n \in Nat : n = IF Completes(w) THEN 1 ELSE 0
  OBVIOUS
<1>14. n > 0 => Completion(w) \in Events
  BY <1>4, <1>13, WriteParts DEF Completion, Completes, Events
<1>15. PICK i : i = Called(d.inbox, n, Completion(w))
  OBVIOUS
<1>16. /\ i \in Seq(Events)
       /\ \A j \in DOMAIN i : \/ j \in DOMAIN d.inbox /\ i[j] = d.inbox[j]
                              \/ i[j] = Completion(w)
  <2>1. d.inbox \in Seq(Events)
    BY DeviceParts
  <2>2. CASE n = 0
    <3>1. i = d.inbox \o [j \in 1 .. 0 |-> Completion(w)]
      BY <1>15, <2>2 DEF Called
    <3>2. [j \in 1 .. 0 |-> Completion(w)] = <<>>
      OBVIOUS
    <3>3. i = d.inbox
      BY <2>1, <3>1, <3>2, ConcatEmptySeq
    <3> QED
      BY <2>1, <3>3
  <2>3. CASE n # 0
    <3>1. PICK e \in Events : e = Completion(w)
      BY <1>14, <2>3
    <3>2. i = Called(d.inbox, n, e)
      BY <1>15, <3>1
    <3>3. \A j \in DOMAIN i : (j \in DOMAIN d.inbox /\ i[j] = d.inbox[j]) \/ i[j] = e
      BY <2>1, <3>2, CalledEither
    <3>4. i \in Seq(Events)
      BY <2>1, <3>2, CalledType
    <3> QED
      BY <3>1, <3>3, <3>4
  <2> QED
    BY <2>2, <2>3
<1>17. PICK d2 : d2 = [d EXCEPT !.queue = q, !.cache = k, !.acked = a, !.inbox = i]
  OBVIOUS
<1>18. d2 \in Devices /\ d2.queue = q /\ d2.user = TRUE /\ d2.inbox = i
  BY <1>7, <1>12, <1>16, <1>17 DEF Devices, CachedDocs
<1>19. Acknowledge(u, d) = Refresh(u, d2, c)
  BY <1>2, <1>3, <1>4, <1>5, <1>6, <1>8, <1>10, <1>11, <1>13, <1>15, <1>17 DEF Acknowledge
<1>20. PICK d3 : d3 = Refresh(u, d2, c)
  OBVIOUS
<1>21. d3.queue = q /\ d3.user = TRUE /\ NoNewJoin(d2, d3)
  BY <1>18, <1>20, RefreshQueue
<1>22. ASSUME NEW j \in DOMAIN d3.inbox, d3.inbox[j].kind = "join"
       PROVE  \/ \E m \in DOMAIN d.inbox : d.inbox[m] = d3.inbox[j]
              \/ w.op = "join" /\ d3.inbox[j] = Completion(w)
  <2>1. PICK m \in DOMAIN i : i[m] = d3.inbox[j]
    BY <1>18, <1>21, <1>22 DEF NoNewJoin
  <2>2. Completion(w).kind = w.op
    BY DEF Completion
  <2> QED
    BY <1>16, <1>22, <2>1, <2>2
<1> QED
  BY <1>1, <1>3, <1>5, <1>7, <1>19, <1>20, <1>21, <1>22

\* The same writes to the same sessions, with answers that mean the same.
SameKind(q, q2) ==
    /\ DOMAIN q2 = DOMAIN q
    /\ \A i \in DOMAIN q : /\ q2[i].op = q[i].op /\ q2[i].code = q[i].code
                           /\ q2[i].reply = "none" <=> q[i].reply = "none"
                           /\ q2[i].reply \in {"ok", "seen"} <=> q[i].reply \in {"ok", "seen"}

LEMMA ReceiveQueue ==
    ASSUME NEW u \in Users, NEW d \in Devices, NEW c \in Codes, NEW remote \in Docs \cup {NoDoc}
    PROVE  /\ Receive(u, d, c, remote).user = d.user
           /\ \A b \in BOOLEAN : /\ SameKind(d.queue[b], Receive(u, d, c, remote).queue[b])
                                 /\ Receive(u, d, c, remote).queue[b] \in Seq(Writes)
           /\ NoNewJoin(d, Receive(u, d, c, remote))
<1> DEFINE Seen(w) == IF w.code = c /\ w.reply = "ok" THEN [w EXCEPT !.reply = "seen"] ELSE w
<1>1. PICK q : q = [b \in BOOLEAN |-> [i \in DOMAIN d.queue[b] |-> Seen(d.queue[b][i])]]
  OBVIOUS
<1>2. \A w \in Writes : /\ Seen(w) \in Writes /\ Seen(w).code = w.code /\ Seen(w).op = w.op
                        /\ \/ Seen(w).reply = w.reply
                           \/ Seen(w).reply = "seen" /\ w.reply = "ok"
  BY DEF Writes
<1> HIDE DEF Seen
<1>3. ASSUME NEW b \in BOOLEAN
      PROVE  q[b] \in Seq(Writes) /\ SameKind(d.queue[b], q[b])
  <2>1. PICK old \in Seq(Writes) : old = d.queue[b]
    BY DeviceParts
  <2>2. /\ DOMAIN old = 1 .. Len(old) /\ Len(old) \in Nat
        /\ \A i \in 1 .. Len(old) : old[i] \in Writes
    OBVIOUS
  <2>3. [i \in 1 .. Len(old) |-> Seen(old[i])] \in [1 .. Len(old) -> Writes]
    BY <1>2, <2>2
  <2>4. q[b] = [i \in 1 .. Len(old) |-> Seen(old[i])]
    BY <1>1, <2>1, <2>2, Zenon
  <2>5. q[b] \in Seq(Writes) /\ DOMAIN q[b] = 1 .. Len(old)
    BY <2>2, <2>3, <2>4, SeqOf
  <2>6. \A i \in 1 .. Len(old) : q[b][i] = Seen(old[i])
    BY <2>4
  <2>7. ASSUME NEW i \in 1 .. Len(old)
        PROVE  /\ q[b][i].op = old[i].op /\ q[b][i].code = old[i].code
               /\ q[b][i].reply = old[i].reply \/ (q[b][i].reply = "seen" /\ old[i].reply = "ok")
    BY <1>2, <2>2, <2>6
  <2> QED
    BY <2>1, <2>2, <2>5, <2>7 DEF SameKind
<1>4. q \in [BOOLEAN -> Seq(Writes)]
  BY <1>1, <1>3
<1>5. PICK k \in [Codes -> CachedDocs] : k = [d.cache EXCEPT ![c] = remote]
  BY DeviceParts DEF CachedDocs
<1>6. PICK a \in [Codes -> BOOLEAN] : a = [d.acked EXCEPT ![c] = FALSE]
  BY DeviceParts
<1>7. PICK known : known = [d EXCEPT !.cache = k, !.acked = a, !.queue = q]
  OBVIOUS
<1>8. known \in Devices /\ known.queue = q /\ known.user = d.user /\ known.inbox = d.inbox
  BY <1>4, <1>7 DEF Devices, CachedDocs
<1>9. PICK d2 : d2 = Refresh(u, known, c)
  OBVIOUS
<1>10. d2 \in Devices /\ d2.queue = q /\ d2.user = d.user /\ NoNewJoin(known, d2)
  BY <1>8, <1>9, RefreshQueue, RefreshValues
<1>11. Receive(u, d, c, remote) = Reach(d2, c, "synced")
  BY <1>1, <1>5, <1>6, <1>7, <1>9, Zenon DEF Receive, Seen
<1>12. PICK i : i = Called(d2.inbox, d2.fresh[c], Snapshot(c, d2.shown[c]))
  OBVIOUS
<1>13. PICK d3 : d3 = Reach(d2, c, "synced")
  OBVIOUS
<1>14. d3.queue = q /\ d3.user = d.user /\ d3.inbox = i
  BY <1>10, <1>12, <1>13 DEF Reach, Devices
<1>15. NoNewJoin(d, d3)
  <2>1. /\ d2.inbox \in Seq(Events) /\ d2.fresh[c] \in Nat /\ d2.shown[c] \in Docs \cup {NoDoc}
    BY <1>10, DeviceParts
  <2>2. Snapshot(c, d2.shown[c]) \in Events /\ Snapshot(c, d2.shown[c]).kind # "join"
    BY <2>1 DEF Snapshot, Events
  <2>3. NoNewJoin(d2, d3)
    BY <1>12, <1>14, <2>1, <2>2, SnapshotNoJoin DEF NoNewJoin
  <2> QED
    BY <1>8, <1>10, <2>3 DEF NoNewJoin
<1> QED
  BY <1>3, <1>11, <1>13, <1>14, <1>15

------------------------------------------------------------------------------
(* What keeps a user's part in the session. *)

\* Nothing new is written, answered or pushed.
Idle(d, s, d2, s2) ==
    /\ d2.user = TRUE /\ d2.queue[FALSE] = <<>> /\ SameKind(d.queue[TRUE], d2.queue[TRUE])
    /\ NoNewJoin(d, d2) /\ s2.sessionCode = s.sessionCode /\ s2.pushed = s.pushed

LEMMA GoodSame ==
    ASSUME NEW u, NEW d, NEW s, NEW x, NEW n, NEW sv, Good(u, d, s, x, n, sv),
           NEW d2, NEW s2, NEW x2, NEW n2, Idle(d, s, d2, s2),
           x2 = "create" => u \in Hosts, x2 = "join" => u \in Guests, n2 = 0 => n = 0
    PROVE  Good(u, d2, s2, x2, n2, sv) /\ (HandsIn(d2, s2) <=> HandsIn(d, s))
<1> USE DEF Idle
<1>1. PICK q : q = d.queue[TRUE]
  OBVIOUS
<1>2. PICK q2 : q2 = d2.queue[TRUE]
  OBVIOUS
<1>3. /\ DOMAIN q2 = DOMAIN q
      /\ \A i \in DOMAIN q : /\ q2[i].op = q[i].op /\ q2[i].code = q[i].code
                             /\ q2[i].reply \in {"ok", "seen"} <=> q[i].reply \in {"ok", "seen"}
                             /\ \A op : Waits(q2, i, op) <=> Waits(q, i, op)
  BY <1>1, <1>2 DEF SameKind, Waits
<1>4. \A c, i : CreatesBefore(q2, c, i) <=> CreatesBefore(q, c, i)
  BY <1>3 DEF CreatesBefore
<1>5. \A c : Creating(q2, c) <=> Creating(q, c)
  BY <1>3 DEF Creating
<1>6. HandsIn(d2, s2) <=> HandsIn(d, s)
  BY <1>1, <1>2, <1>3 DEF HandsIn
<1>7. QueueOrder(u, q, sv) /\ Roles(u, d, s, x) /\ Part(u, d, s, sv) /\ Unjoined(u, d, sv, n)
  BY <1>1 DEF Good
<1>8. QueueOrder(u, q2, sv)
  <2>1. ASSUME NEW i \in DOMAIN q, NEW j \in DOMAIN q
        PROVE  /\ q2[i].op = "create" /\ q2[j].op = "create" => i = j
               /\ q2[i].op = "join" /\ q2[j].op = "join" => i = j
               /\ Waits(q2, i, "push") /\ Waits(q2, j, "push") => i = j
    BY <1>3, <1>7 DEF QueueOrder
  <2>2. ASSUME NEW i \in DOMAIN q
        PROVE  /\ Waits(q2, i, "create") => sv[q2[i].code] = NoDoc
               /\ Waits(q2, i, "join") => \A o \in Codes : ~MemberOf(u, sv[o])
               /\ q2[i].op = "join" /\ q2[i].reply \in {"ok", "seen"} => MemberOf(u, sv[q2[i].code])
               /\ Waits(q2, i, "push") => \/ MemberOf(u, sv[q2[i].code])
                                          \/ CreatesBefore(q2, q2[i].code, i)
    BY <1>3, <1>4, <1>7 DEF QueueOrder
  <2> QED
    BY <1>3, <2>1, <2>2 DEF QueueOrder
<1>9. ASSUME NEW i \in DOMAIN d2.inbox, d2.inbox[i].kind = "join"
      PROVE  u \in Guests /\ (d2.inbox[i].ok => MemberOf(u, sv[d2.inbox[i].code]))
  BY <1>7, <1>9 DEF NoNewJoin, Roles, Part
<1>10. Roles(u, d2, s2, x2)
  <2>1. ASSUME NEW i \in DOMAIN q2
        PROVE  /\ q2[i].op = "create" => u \in Hosts /\ q2[i].code = s2.sessionCode
               /\ q2[i].op = "join" => u \in Guests
    <3>1. /\ q[i].op = "create" => u \in Hosts /\ q[i].code = s.sessionCode
          /\ q[i].op = "join" => u \in Guests
      BY <1>1, <1>3, <1>7, Zenon DEF Roles
    <3> QED
      BY <1>3, <3>1
  <2> QED
    BY <1>2, <1>9, <2>1, Zenon DEF Roles
<1>11. Part(u, d2, s2, sv)
  BY <1>1, <1>2, <1>3, <1>5, <1>6, <1>7, <1>9 DEF Part
<1>12. Unjoined(u, d2, sv, n2)
  <2>1. n = 0 /\ u \in Guests => /\ \A i \in DOMAIN q : q[i].op # "join"
                                 /\ \A c \in Codes : ~MemberOf(u, sv[c])
    BY <1>1, <1>7, Zenon DEF Unjoined
  <2>2. n = 0 /\ u \in Guests => \A i \in DOMAIN q2 : q2[i].op # "join"
    BY <1>3, <2>1
  <2> QED
    BY <1>2, <2>1, <2>2, Zenon DEF Unjoined
<1> QED
  BY <1>2, <1>6, <1>8, <1>10, <1>11, <1>12 DEF Good

\* A write is added to the queue: the creation of a session by a host without one,
\* a guest's only join, the only push, or a write that does not count.
Adds(w, d, d2) ==
    /\ d2.user = TRUE /\ d2.queue[FALSE] = <<>> /\ d2.queue[TRUE] = Append(d.queue[TRUE], w)
    /\ NoNewJoin(d, d2)

Due(u, w, s, n, s2, n2, sv) ==
    /\ w.reply = "none" /\ (n2 = 0 => n = 0)
    /\ w.op = "create" => /\ u \in Hosts /\ s.sessionCode = NoCode /\ s2.sessionCode = w.code
                          /\ sv[w.code] = NoDoc
    /\ w.op # "create" => s2.sessionCode = s.sessionCode
    /\ w.op = "join" => u \in Guests /\ n = 0 /\ n2 # 0
    /\ w.op = "push" => ~s.pushed /\ s2.pushed /\ w.code = s.sessionCode /\ w.code # NoCode
    /\ w.op # "push" => s2.pushed = s.pushed

LEMMA GoodAppend ==
    ASSUME NEW u, NEW d \in Devices, NEW s, NEW x, NEW n, NEW sv, Good(u, d, s, x, n, sv),
           NEW d2, NEW s2, NEW n2, NEW w \in Writes, Adds(w, d, d2),
           Due(u, w, s, n, s2, n2, sv)
    PROVE  Good(u, d2, s2, x, n2, sv) /\ (HandsIn(d2, s2) <=> HandsIn(d, s))
<1> USE DEF Adds, Due
<1>1. PICK q \in Seq(Writes) : q = d.queue[TRUE]
  BY DeviceParts
<1>2. PICK q2 \in Seq(Writes) : q2 = Append(q, w)
  BY AppendProperties
<1>3. PICK k \in Nat : k = Len(q) + 1
  OBVIOUS
<1>4. /\ q2[k] = w /\ \A i \in DOMAIN q : i < k /\ i \in DOMAIN q2 /\ q2[i] = q[i]
      /\ \A i \in DOMAIN q2 : i = k \/ i \in DOMAIN q
      /\ k \in DOMAIN q2
  BY <1>2, <1>3, AppendProperties
<1>5. d2.queue[TRUE] = q2
  BY <1>1, <1>2
<1>6. /\ \A i \in DOMAIN q : \A op : Waits(q2, i, op) <=> Waits(q, i, op)
      /\ \A op : Waits(q2, k, op) <=> w.op = op
  BY <1>4 DEF Waits
<1>7. \A c : \A i \in DOMAIN q : CreatesBefore(q, c, i) => CreatesBefore(q2, c, i)
  BY <1>4, <1>6 DEF CreatesBefore
<1>8. \A c : /\ Creating(q, c) => Creating(q2, c) /\ CreatesBefore(q2, c, k)
             /\ w.op = "create" => Creating(q2, w.code)
  BY <1>4, <1>6 DEF CreatesBefore, Creating
<1>9. HandsIn(d2, s2) <=> HandsIn(d, s)
  BY <1>1, <1>4, <1>5, <1>6 DEF HandsIn
<1>10. /\ QueueOrder(u, q, sv) /\ Roles(u, d, s, x) /\ Part(u, d, s, sv) /\ Unjoined(u, d, sv, n)
  BY <1>1 DEF Good
<1>11. ASSUME NEW i \in DOMAIN q
       PROVE  /\ q[i].op = "create" => w.op # "create"
              /\ q[i].op = "join" => w.op # "join"
              /\ Waits(q, i, "push") => w.op # "push"
  <2>1. q[i].op = "create" => s.sessionCode = q[i].code /\ q[i].code \in Codes
    <3>1. q[i] \in Writes
      OBVIOUS
    <3> QED
      BY <1>1, <1>10, <3>1, WriteParts DEF Roles
  <2>2. w.op = "join" => q[i].op # "join"
    BY <1>1, <1>10 DEF Unjoined
  <2>3. Waits(q, i, "push") => s.pushed
    BY <1>1, <1>10 DEF Part
  <2> QED
    BY <2>1, <2>2, <2>3, SessionStoreAssumption
<1>12. QueueOrder(u, q2, sv)
  <2>1. ASSUME NEW i \in DOMAIN q2, NEW j \in DOMAIN q2
        PROVE  /\ q2[i].op = "create" /\ q2[j].op = "create" => i = j
               /\ q2[i].op = "join" /\ q2[j].op = "join" => i = j
               /\ Waits(q2, i, "push") /\ Waits(q2, j, "push") => i = j
    BY <1>4, <1>6, <1>10, <1>11 DEF QueueOrder
  <2>2. ASSUME NEW i \in DOMAIN q2
        PROVE  /\ Waits(q2, i, "create") => sv[q2[i].code] = NoDoc
               /\ Waits(q2, i, "join") => \A o \in Codes : ~MemberOf(u, sv[o])
               /\ q2[i].op = "join" /\ q2[i].reply \in {"ok", "seen"} => MemberOf(u, sv[q2[i].code])
               /\ Waits(q2, i, "push") => \/ MemberOf(u, sv[q2[i].code])
                                          \/ CreatesBefore(q2, q2[i].code, i)
    <3>1. CASE i \in DOMAIN q
      BY <1>4, <1>6, <1>7, <1>10, <3>1 DEF QueueOrder
    <3>2. CASE i = k
      <4>1. w.op = "join" => \A o \in Codes : ~MemberOf(u, sv[o])
        BY <1>10 DEF Unjoined
      <4>2. w.op = "push" => MemberOf(u, sv[w.code]) \/ CreatesBefore(q2, w.code, k)
        BY <1>1, <1>8, <1>10 DEF Part
      <4> QED
        BY <1>4, <1>6, <3>2, <4>1, <4>2
    <3> QED
      BY <1>4, <3>1, <3>2
  <2> QED
    BY <2>1, <2>2 DEF QueueOrder
<1>13. Roles(u, d2, s2, x)
  <2>1. ASSUME NEW i \in DOMAIN q2
        PROVE  /\ q2[i].op = "create" => u \in Hosts /\ q2[i].code = s2.sessionCode
               /\ q2[i].op = "join" => u \in Guests
    <3>1. CASE i \in DOMAIN q
      BY <1>1, <1>4, <1>10, <1>11, <3>1 DEF Roles
    <3>2. CASE i = k
      BY <1>4, <3>2
    <3> QED
      BY <1>4, <3>1, <3>2
  <2> QED
    BY <1>5, <1>10, <2>1 DEF Roles, NoNewJoin
<1>14. Part(u, d2, s2, sv)
  <2>1. s2.sessionCode # NoCode =>
          MemberOf(u, sv[s2.sessionCode]) \/ Creating(q2, s2.sessionCode)
    BY <1>1, <1>8, <1>10 DEF Part
  <2>2. (\E i \in DOMAIN q2 : Waits(q2, i, "push")) => s2.pushed
    BY <1>1, <1>4, <1>6, <1>10 DEF Part
  <2> QED
    BY <1>5, <1>9, <1>10, <2>1, <2>2 DEF Part, NoNewJoin
<1>15. Unjoined(u, d2, sv, n2)
  BY <1>1, <1>4, <1>5, <1>10 DEF Unjoined
<1> QED
  BY <1>5, <1>9, <1>12, <1>13, <1>14, <1>15 DEF Good

LEMMA IssueGood ==
    ASSUME NEW u \in Users, NEW d \in Devices, NEW s, NEW x, NEW n, NEW sv,
           Good(u, d, s, x, n, sv), NEW w \in Writes, NEW s2, NEW n2,
           Due(u, w, s, n, s2, n2, sv), NEW d2, d2 = Issue(u, d, w)
    PROVE  /\ d2 \in Devices
           /\ Good(u, d2, s2, x, n2, sv) /\ (HandsIn(d2, s2) <=> HandsIn(d, s))
<1>1. d.user = TRUE /\ d.queue[FALSE] = <<>>
  BY DEF Good, Roles
<1>2. PICK w2 \in Writes : /\ w2.op = w.op /\ w2.code = w.code /\ w2.reply = w.reply
                           /\ d2.queue[TRUE] = Append(d.queue[TRUE], w2)
  BY <1>1, IssueQueue
<1>3. Adds(w2, d, d2)
  BY <1>1, <1>2, IssueQueue DEF Adds
<1>4. Due(u, w2, s, n, s2, n2, sv)
  BY <1>2 DEF Due
<1>5. d2 \in Devices
  BY IssueType
<1> QED
  BY <1>3, <1>4, <1>5, GoodAppend

LEMMA WatchGood ==
    ASSUME NEW u \in Users, NEW d \in Devices, NEW s, NEW x, NEW n, NEW sv,
           Good(u, d, s, x, n, sv), NEW c \in Codes, NEW d2, d2 = Watch(u, d, c)
    PROVE  Good(u, d2, s, x, n, sv) /\ (HandsIn(d2, s) <=> HandsIn(d, s))
<1>1. /\ d.user = TRUE /\ d.queue[FALSE] = <<>>
      /\ (x = "create" => u \in Hosts) /\ (x = "join" => u \in Guests)
  BY DEF Good, Roles
<1>2. Idle(d, s, d2, s)
  BY <1>1, WatchQueue DEF Idle, SameKind
<1> QED
  BY <1>1, <1>2, GoodSame

\* The oldest write is answered.
Answers(d, d2) ==
    /\ d.queue[TRUE] # <<>> /\ Head(d.queue[TRUE]).reply # "none"
    /\ d2.user = TRUE /\ d2.queue[FALSE] = <<>> /\ d2.queue[TRUE] = Tail(d.queue[TRUE])
    /\ \A i \in DOMAIN d2.inbox : d2.inbox[i].kind = "join" =>
          \/ \E j \in DOMAIN d.inbox : d.inbox[j] = d2.inbox[i]
          \/ /\ Head(d.queue[TRUE]).op = "join"
             /\ d2.inbox[i] = Completion(Head(d.queue[TRUE]))

LEMMA GoodTail ==
    ASSUME NEW u, NEW d \in Devices, NEW s, NEW x, NEW n, NEW sv, Good(u, d, s, x, n, sv),
           NEW d2, Answers(d, d2)
    PROVE  Good(u, d2, s, x, n, sv) /\ (HandsIn(d2, s) <=> HandsIn(d, s))
<1> USE DEF Answers
<1>0. PICK q \in Seq(Writes) : q = d.queue[TRUE]
  BY DeviceParts
<1>1. q = d.queue[TRUE] /\ q # <<>>
  BY <1>0
<1>2. PICK q2 : q2 = Tail(q)
  OBVIOUS
<1>3. PICK w \in Writes : w = Head(q)
  BY <1>1, HeadTailProperties, Zenon
<1>4. /\ q2 \in Seq(Writes) /\ Len(q2) = Len(q) - 1
      /\ \A i \in 1 .. Len(q2) : q2[i] = q[i + 1]
  BY <1>1, <1>2, HeadTailProperties, Zenon
<1>5. /\ Len(q) \in Nat /\ DOMAIN q = 1 .. Len(q) /\ DOMAIN q2 = 1 .. Len(q2)
      /\ w = q[1] /\ Len(q) > 0
  <2>1. q # <<>>
    BY <1>1
  <2> QED
    BY <1>3, <1>4, <2>1, EmptySeq
<1>6. /\ \A i \in DOMAIN q2 : i + 1 \in DOMAIN q /\ q2[i] = q[i + 1]
      /\ \A i \in DOMAIN q : i = 1 \/ (i - 1 \in DOMAIN q2 /\ q2[i - 1] = q[i])
      /\ \A i, j \in DOMAIN q2 : i + 1 = j + 1 => i = j
      /\ 1 \in DOMAIN q /\ \A i \in DOMAIN q2 : \E j \in DOMAIN q : q2[i] = q[j]
  <2>1. \A i \in DOMAIN q2 : i + 1 \in DOMAIN q /\ q2[i] = q[i + 1]
    BY <1>4, <1>5
  <2>2. \A i \in DOMAIN q : i # 1 => i - 1 \in DOMAIN q2 /\ (i - 1) + 1 = i
    BY <1>4, <1>5
  <2>3. \A i, j \in DOMAIN q2 : i + 1 = j + 1 => i = j
    BY <1>5
  <2> QED
    BY <1>5, <2>1, <2>2, <2>3
<1>7. /\ d2.queue[TRUE] = q2 /\ w.reply # "none"
      /\ QueueOrder(u, q, sv) /\ Roles(u, d, s, x) /\ Part(u, d, s, sv) /\ Unjoined(u, d, sv, n)
  BY <1>1, <1>2, <1>3 DEF Good
<1>8. /\ \A op : ~Waits(q, 1, op)
      /\ \A i \in DOMAIN q2 : \A op : Waits(q2, i, op) <=> Waits(q, i + 1, op)
      /\ \A op : (\E i \in DOMAIN q2 : Waits(q2, i, op)) <=> (\E i \in DOMAIN q : Waits(q, i, op))
  BY <1>5, <1>6, <1>7 DEF Waits
<1>9. \A c : \A i \in DOMAIN q2 : CreatesBefore(q, c, i + 1) => CreatesBefore(q2, c, i)
  <2> SUFFICES ASSUME NEW c, NEW i \in DOMAIN q2, NEW j \in DOMAIN q,
                      j < i + 1, Waits(q, j, "create"), q[j].code = c
               PROVE  CreatesBefore(q2, c, i)
    BY DEF CreatesBefore
  <2>1. j # 1 /\ j - 1 \in DOMAIN q2 /\ q2[j - 1] = q[j]
    BY <1>6, <1>8
  <2>2. j - 1 < i
    BY <1>5
  <2> QED
    BY <2>1, <2>2 DEF CreatesBefore, Waits
<1>10. \A c : Creating(q, c) => Creating(q2, c)
  <2> SUFFICES ASSUME NEW c, NEW j \in DOMAIN q, Waits(q, j, "create"), q[j].code = c
               PROVE  Creating(q2, c)
    BY DEF Creating
  <2>1. j # 1 /\ j - 1 \in DOMAIN q2 /\ q2[j - 1] = q[j]
    BY <1>6, <1>8
  <2> QED
    BY <2>1 DEF Creating, Waits
<1>11. HandsIn(d2, s) <=> HandsIn(d, s)
  BY <1>1, <1>7, <1>8 DEF HandsIn
<1>12. QueueOrder(u, q2, sv)
  <2>1. ASSUME NEW i \in DOMAIN q2, NEW j \in DOMAIN q2
        PROVE  /\ q2[i].op = "create" /\ q2[j].op = "create" => i = j
               /\ q2[i].op = "join" /\ q2[j].op = "join" => i = j
               /\ Waits(q2, i, "push") /\ Waits(q2, j, "push") => i = j
    BY <1>6, <1>7, <1>8 DEF QueueOrder
  <2>2. ASSUME NEW i \in DOMAIN q2
        PROVE  /\ Waits(q2, i, "create") => sv[q2[i].code] = NoDoc
               /\ Waits(q2, i, "join") => \A o \in Codes : ~MemberOf(u, sv[o])
               /\ q2[i].op = "join" /\ q2[i].reply \in {"ok", "seen"} => MemberOf(u, sv[q2[i].code])
               /\ Waits(q2, i, "push") => \/ MemberOf(u, sv[q2[i].code])
                                          \/ CreatesBefore(q2, q2[i].code, i)
    BY <1>6, <1>7, <1>8, <1>9 DEF QueueOrder
  <2> QED
    BY <2>1, <2>2 DEF QueueOrder
<1>13. ASSUME NEW i \in DOMAIN d2.inbox, d2.inbox[i].kind = "join"
       PROVE  u \in Guests /\ (d2.inbox[i].ok => MemberOf(u, sv[d2.inbox[i].code]))
  <2>1. CASE \E j \in DOMAIN d.inbox : d.inbox[j] = d2.inbox[i]
    BY <1>7, <1>13, <2>1 DEF Roles, Part
  <2>2. CASE w.op = "join" /\ d2.inbox[i] = Completion(w)
    <3>1. d2.inbox[i].ok = (w.reply # "failed") /\ d2.inbox[i].code = w.code
      BY <2>2 DEF Completion
    <3>2. w.reply # "failed" => w.reply \in {"ok", "seen"}
      BY <1>7, WriteParts
    <3>3. w.reply \in {"ok", "seen"} => MemberOf(u, sv[w.code])
      BY <1>5, <1>6, <1>7, <2>2 DEF QueueOrder
    <3>4. u \in Guests
      BY <1>1, <1>5, <1>6, <1>7, <2>2 DEF Roles
    <3> QED
      BY <3>1, <3>2, <3>3, <3>4
  <2> QED
    BY <1>1, <1>3, <1>13, <2>1, <2>2
<1>14. Roles(u, d2, s, x)
  <2>1. ASSUME NEW i \in DOMAIN q2
        PROVE  /\ q2[i].op = "create" => u \in Hosts /\ q2[i].code = s.sessionCode
               /\ q2[i].op = "join" => u \in Guests
    <3>1. PICK j \in DOMAIN q : q2[i] = q[j]
      BY <1>6
    <3>2. /\ q[j].op = "create" => u \in Hosts /\ q[j].code = s.sessionCode
          /\ q[j].op = "join" => u \in Guests
      BY <1>1, <1>7, Zenon DEF Roles
    <3> QED
      BY <3>1, <3>2
  <2>2. (x = "create" => u \in Hosts) /\ (x = "join" => u \in Guests)
    BY <1>7 DEF Roles
  <2> QED
    BY <1>7, <1>13, <2>1, <2>2, Zenon DEF Roles
<1>15. Part(u, d2, s, sv)
  BY <1>1, <1>7, <1>8, <1>10, <1>11, <1>13 DEF Part
<1>16. Unjoined(u, d2, sv, n)
  <2>1. n = 0 /\ u \in Guests => /\ \A i \in DOMAIN q : q[i].op # "join"
                                 /\ \A c \in Codes : ~MemberOf(u, sv[c])
    BY <1>1, <1>7 DEF Unjoined
  <2>2. \A i \in DOMAIN q2 : \E j \in DOMAIN q : q2[i] = q[j]
    BY <1>6
  <2>3. n = 0 /\ u \in Guests => \A i \in DOMAIN q2 : q2[i].op # "join"
    BY <2>1, <2>2
  <2> QED
    BY <1>7, <2>1, <2>3 DEF Unjoined
<1> QED
  BY <1>7, <1>11, <1>12, <1>14, <1>15, <1>16 DEF Good

------------------------------------------------------------------------------
(* Steps that leave the server alone. *)

\* User u's device gets to d, the store to s and the screen to x, with n taps on
\* Join so far; the others and the server stay.
MovesTo(u, d, s, x, n) ==
    /\ Good(u, d, s, x, n, server) /\ (HandsIn(d, s) <=> HandsIn(dev[u], store[u]))
    /\ u \in Hosts => s.sessionCode = store[u].sessionCode \/ store[u].sessionCode = NoCode
    /\ dev' = [dev EXCEPT ![u] = d] /\ store' = [store EXCEPT ![u] = s]
    /\ screen' = [screen EXCEPT ![u] = x] /\ UNCHANGED server
    /\ used'[u]["join"] = n /\ \A v \in Users \ {u} : used'[v]["join"] = used[v]["join"]

\* A step of user u's: the others keep their parts, and the tallies stay.
LEMMA RLocalStep ==
    ASSUME OneRound, IInv, RInv, NEW u \in Users, NEW d, NEW s, NEW x, NEW n,
           MovesTo(u, d, s, x, n)
    PROVE  RInv'
<1>1. /\ dev'[u] = d /\ store'[u] = s /\ screen'[u] = x
      /\ \A v \in Users \ {u} : dev'[v] = dev[v] /\ store'[v] = store[v] /\ screen'[v] = screen[v]
  BY DEF IInv, TypeOK, MovesTo
<1>2. /\ Good(u, d, s, x, n, server) /\ (HandsIn(d, s) <=> HandsIn(dev[u], store[u]))
      /\ u \in Hosts => s.sessionCode = store[u].sessionCode \/ store[u].sessionCode = NoCode
      /\ UNCHANGED server
      /\ used'[u]["join"] = n /\ \A v \in Users \ {u} : used'[v]["join"] = used[v]["join"]
  BY DEF MovesTo
<1>3. ASSUME NEW v \in Users
      PROVE  /\ Good(v, dev'[v], store'[v], screen'[v], used'[v]["join"], server')
             /\ HandsIn(dev'[v], store'[v]) <=> HandsIn(dev[v], store[v])
  BY <1>2, <1>1 DEF RInv
<1>4. OneSession'
  <2> SUFFICES ASSUME NEW c \in Codes, server[c] # NoDoc
               PROVE  \E v \in Hosts : store'[v].sessionCode = c
    BY <1>2 DEF OneSession
  <2>1. PICK v \in Hosts : store[v].sessionCode = c
    BY DEF RInv, OneSession
  <2>2. v \in Users /\ c # NoCode
    BY SessionStoreAssumption
  <2> QED
    BY <1>2, <1>1, <2>1, <2>2
<1>5. Tallies'
  <2> SUFFICES ASSUME NEW c \in Codes, server[c] # NoDoc
               PROVE  /\ IsFiniteSet(DOMAIN server[c].likes)
                      /\ server[c].participants = Cardinality(DOMAIN server[c].likes)
                      /\ server[c].finishedPushing =
                           Cardinality({v \in DOMAIN server[c].likes : HandsIn(dev'[v], store'[v])})
    BY <1>2 DEF Tallies, HandsIn
  <2>1. DOMAIN server[c].likes \subseteq Users
    <3>1. server[c] \in Docs
      BY DEF IInv, TypeOK
    <3> QED
      BY <3>1 DEF Docs, LikesMaps
  <2>2. {v \in DOMAIN server[c].likes : HandsIn(dev'[v], store'[v])} =
        {v \in DOMAIN server[c].likes : HandsIn(dev[v], store[v])}
    BY <1>3, <2>1
  <2> QED
    BY <2>2 DEF RInv, Tallies
<1> QED
  BY <1>3, <1>4, <1>5 DEF RInv

\* Nothing but JoinSession counts as a tap on Join.
LEMMA SameJoins ==
    ASSUME IInv, NEW u \in Users, UNCHANGED used \/ (\E k \in Kinds \ {"join"} : Count(u, k))
    PROVE  \A v \in Users : used'[v]["join"] = used[v]["join"]
<1>1. CASE UNCHANGED used
  BY <1>1
<1>2. ASSUME NEW k \in Kinds \ {"join"}, Count(u, k)
      PROVE  \A v \in Users : used'[v]["join"] = used[v]["join"]
  BY <1>2 DEF IInv, TypeOK, Count, Kinds
<1> QED
  BY <1>1, <1>2

\* Navigation preserves the invariant.
LEMMA NavigationRound ==
    ASSUME OneRound, IInv, CInv, RInv, NEW u \in Users,
           \/ OpenCreate(u) \/ OpenJoin(u)
           \/ LeaveCreateScreen(u) \/ LeaveJoinScreen(u)
           \/ SignOut(u) \/ HearSignOut(u) \/ SignIn(u) \/ Quit(u) \/ Launch(u)
    PROVE  RInv'
<1>1. TypeOK /\ Calm
  BY DEF IInv, OneRound
<1>2. /\ dev = [dev EXCEPT ![u] = dev[u]] /\ store = [store EXCEPT ![u] = store[u]]
      /\ screen = [screen EXCEPT ![u] = screen[u]]
      /\ dev[u] \in Devices /\ store[u] \in Stores
  BY <1>1 DEF TypeOK
<1>3. Good(u, dev[u], store[u], screen[u], used[u]["join"], server)
  BY DEF RInv
<1>4. /\ dev[u].user = TRUE /\ dev[u].queue[FALSE] = <<>> /\ NoNewJoin(dev[u], dev[u])
      /\ SameKind(dev[u].queue[TRUE], dev[u].queue[TRUE])
  BY <1>3 DEF Good, Roles, NoNewJoin, SameKind
<1>5. CASE OpenCreate(u)
  <2>1. PICK s : s = [store[u] EXCEPT !.createdSession = TRUE]
    OBVIOUS
  <2>2. s.sessionCode = store[u].sessionCode /\ s.pushed = store[u].pushed
    BY <1>2, <2>1 DEF Stores
  <2>3. /\ store' = [store EXCEPT ![u] = s] /\ screen' = [screen EXCEPT ![u] = "create"]
        /\ u \in Hosts /\ UNCHANGED <<server, dev, used>>
    BY <1>1, <1>5, <2>1 DEF OpenCreate, TypeOK
  <2>4. /\ Good(u, dev[u], s, "create", used[u]["join"], server)
        /\ HandsIn(dev[u], s) <=> HandsIn(dev[u], store[u])
    <3>1. PICK x : x = "create"
      OBVIOUS
    <3>2. (x = "create" => u \in Hosts) /\ (x = "join" => u \in Guests)
      BY <2>3, <3>1
    <3>3. Idle(dev[u], store[u], dev[u], s)
      BY <1>4, <2>2, Zenon DEF Idle
    <3> QED
      BY <1>3, <3>1, <3>2, <3>3, GoodSame
  <2>5. used'[u]["join"] = used[u]["join"]
        /\ \A v \in Users \ {u} : used'[v]["join"] = used[v]["join"]
    BY <2>3
  <2>6. dev' = [dev EXCEPT ![u] = dev[u]] /\ UNCHANGED server
    BY <1>2, <2>3
  <2>7. MovesTo(u, dev[u], s, "create", used[u]["join"])
    BY <2>2, <2>3, <2>4, <2>5, <2>6 DEF MovesTo
  <2> QED
    BY <2>7, RLocalStep
<1>6. CASE OpenJoin(u)
  <2>1. /\ screen' = [screen EXCEPT ![u] = "join"]
        /\ u \in Guests /\ UNCHANGED <<server, dev, store, used>>
    BY <1>6 DEF OpenJoin
  <2>2. Good(u, dev[u], store[u], "join", used[u]["join"], server)
    <3>1. PICK x : x = "join"
      OBVIOUS
    <3>2. (x = "create" => u \in Hosts) /\ (x = "join" => u \in Guests)
      BY <2>1, <3>1
    <3>3. Idle(dev[u], store[u], dev[u], store[u])
      BY <1>4, Zenon DEF Idle
    <3> QED
      BY <1>3, <3>1, <3>2, <3>3, GoodSame
  <2>3. used'[u]["join"] = used[u]["join"]
        /\ \A v \in Users \ {u} : used'[v]["join"] = used[v]["join"]
    BY <2>1
  <2>4. /\ dev' = [dev EXCEPT ![u] = dev[u]] /\ store' = [store EXCEPT ![u] = store[u]]
        /\ UNCHANGED server
    BY <1>2, <2>1
  <2>5. MovesTo(u, dev[u], store[u], "join", used[u]["join"])
    BY <2>1, <2>2, <2>3, <2>4 DEF MovesTo
  <2> QED
    BY <2>5, RLocalStep
<1>7. CASE \/ LeaveCreateScreen(u) \/ LeaveJoinScreen(u)
           \/ SignOut(u) \/ HearSignOut(u) \/ SignIn(u) \/ Quit(u)
  <2>1. ~Allowed(u, "back") /\ ~Allowed(u, "sign")
    BY <1>1, CalmAllows
  <2>2. ~Allowed(u, "quit")
    BY <1>1 DEF OneRound, Allowed, TypeOK, Kinds
  <2>3. store[u].session
    BY DEF CInv, InSession
  <2> QED
    BY <1>7, <2>1, <2>2, <2>3
       DEF LeaveCreateScreen, LeaveJoinScreen, ScreenGone, SignOut, HearSignOut, SignIn, Quit
<1>8. CASE Launch(u)
  <2>1. UNCHANGED <<server, dev, store, screen, used>>
    BY <1>8 DEF Launch
  <2>2. MovesTo(u, dev[u], store[u], screen[u], used[u]["join"])
    BY <1>2, <1>3, <2>1 DEF MovesTo
  <2> QED
    BY <2>2, RLocalStep
<1> QED
  BY <1>5, <1>6, <1>7, <1>8

\* Writes that nobody counts.
LEMMA PlainDue ==
    ASSUME NEW u, NEW w, NEW s, NEW n, NEW sv, w.reply = "none",
           w.op \notin {"create", "join", "push"}
    PROVE  Due(u, w, s, n, s, n, sv)
  BY DEF Due

\* The operations of a session preserve the invariant.
LEMMA OperationRound ==
    ASSUME OneRound, IInv, CInv, RInv, NEW u \in Users,
           \/ \E c \in Codes : CreateSession(u, c)
           \/ \E c \in Codes : JoinSession(u, c)
           \/ \E t \in TimeLimits, r \in Radii : Start(u, t, r)
           \/ ReceiveRestaurants(u) \/ FetchFails(u)
           \/ \E r \in Restaurants : LikeRestaurant(u, r)
           \/ EndSession(u)
    PROVE  RInv'
<1>1. TypeOK /\ Calm
  BY DEF IInv, OneRound
<1>2. /\ dev = [dev EXCEPT ![u] = dev[u]] /\ store = [store EXCEPT ![u] = store[u]]
      /\ screen = [screen EXCEPT ![u] = screen[u]]
      /\ dev[u] \in Devices /\ store[u] \in Stores
  BY <1>1 DEF TypeOK
<1>3. PICK n : n = used[u]["join"]
  OBVIOUS
<1>4. Good(u, dev[u], store[u], screen[u], n, server)
  BY <1>3 DEF RInv
<1>5. store[u].sessionCode # NoCode => store[u].sessionCode \in Codes
  BY <1>2 DEF Stores
<1>6. ASSUME NEW op \in Ops, NEW c \in Codes
      PROVE  /\ Write(op, c) \in Writes /\ Write(op, c).op = op /\ Write(op, c).code = c
             /\ Write(op, c).reply = "none"
  BY WriteType DEF Write
<1>7. ASSUME UNCHANGED used \/ (\E k \in {"create", "start", "end"} : Count(u, k))
      PROVE  used'[u]["join"] = n /\ \A v \in Users \ {u} : used'[v]["join"] = used[v]["join"]
  <2>1. {"create", "start", "end"} \subseteq Kinds \ {"join"}
    BY DEF Kinds
  <2> QED
    BY <1>3, <1>7, <2>1, SameJoins
<1>8. ASSUME NEW c \in Codes, CreateSession(u, c) PROVE RInv'
  <2>1. PICK w : w = Write("create", c)
    OBVIOUS
  <2>2. w \in Writes /\ w.op = "create" /\ w.code = c /\ w.reply = "none"
    BY <1>6, <2>1 DEF Ops
  <2>3. u \in Hosts /\ store[u].sessionCode = NoCode
    BY <1>4, <1>8 DEF CreateSession, CreateForm, OnTop, Good, Roles
  <2>4. server[c] = NoDoc
    BY <2>3, SessionStoreAssumption DEF RInv, OneSession, OneRound
  <2>5. PICK s : s = [store[u] EXCEPT !.sessionCode = c]
    OBVIOUS
  <2>6. s.sessionCode = c /\ s.pushed = store[u].pushed
    BY <1>2, <2>5 DEF Stores
  <2>7. Due(u, w, store[u], n, s, n, server)
    BY <2>2, <2>3, <2>4, <2>6 DEF Due
  <2>8. PICK d : d = Issue(u, dev[u], w)
    OBVIOUS
  <2>9. /\ d \in Devices /\ Good(u, d, s, screen[u], n, server)
        /\ HandsIn(d, s) <=> HandsIn(dev[u], store[u])
    BY <1>2, <1>4, <2>2, <2>7, <2>8, IssueGood
  <2>10. PICK d2 : d2 = Watch(u, d, c)
    OBVIOUS
  <2>11. Good(u, d2, s, screen[u], n, server) /\ (HandsIn(d2, s) <=> HandsIn(d, s))
    BY <2>9, <2>10, WatchGood
  <2>12. /\ dev' = [dev EXCEPT ![u] = d2] /\ store' = [store EXCEPT ![u] = s]
         /\ UNCHANGED <<server, screen>> /\ Count(u, "create")
    BY <1>8, <2>1, <2>5, <2>8, <2>10 DEF CreateSession, Do
  <2>13. used'[u]["join"] = n /\ \A v \in Users \ {u} : used'[v]["join"] = used[v]["join"]
    BY <1>7, <2>12
  <2>14. MovesTo(u, d2, s, screen[u], n)
    BY <1>2, <2>3, <2>9, <2>11, <2>12, <2>13 DEF MovesTo
  <2> QED
    BY <2>14, RLocalStep
<1>9. ASSUME NEW c \in Codes, JoinSession(u, c) PROVE RInv'
  <2>1. PICK w : w = Write("join", c)
    OBVIOUS
  <2>2. w \in Writes /\ w.op = "join" /\ w.code = c /\ w.reply = "none"
    BY <1>6, <2>1 DEF Ops
  <2>3. u \in Guests
    BY <1>4, <1>9 DEF JoinSession, JoinForm, OnTop, Good, Roles
  <2>4. n = 0
    <3>1. n \in Nat /\ Limit[u]["join"] \in Nat /\ Limit[u]["join"] <= 1
      BY <1>1, <1>3, SessionStoreAssumption DEF TypeOK, OneRound, Kinds
    <3>2. n < Limit[u]["join"]
      BY <1>3, <1>9 DEF JoinSession, Allowed
    <3> QED
      BY <3>1, <3>2
  <2>5. /\ used'[u]["join"] = 1
        /\ \A v \in Users \ {u} : used'[v]["join"] = used[v]["join"]
    <3>1. Count(u, "join") /\ used \in [Users -> [Kinds -> Nat]] /\ "join" \in Kinds
      BY <1>1, <1>9 DEF JoinSession, TypeOK, Kinds
    <3>2. used' = [used EXCEPT ![u] = [used[u] EXCEPT !["join"] = used[u]["join"] + 1]]
      BY <3>1 DEF Count
    <3>3. /\ used'[u] = [used[u] EXCEPT !["join"] = used[u]["join"] + 1]
          /\ \A v \in Users \ {u} : used'[v] = used[v]
      BY <3>1, <3>2
    <3>4. used[u]["join"] + 1 = 1
      BY <1>3, <2>4
    <3>5. used'[u]["join"] = used[u]["join"] + 1
      BY <3>1, <3>3
    <3> QED
      BY <3>3, <3>4, <3>5
  <2>6. Due(u, w, store[u], n, store[u], 1, server)
    BY <2>2, <2>3, <2>4 DEF Due
  <2>7. PICK d : d = Issue(u, dev[u], w)
    OBVIOUS
  <2>8. /\ Good(u, d, store[u], screen[u], 1, server)
        /\ HandsIn(d, store[u]) <=> HandsIn(dev[u], store[u])
    BY <1>2, <1>4, <2>2, <2>6, <2>7, IssueGood
  <2>9. dev' = [dev EXCEPT ![u] = d] /\ UNCHANGED <<server, store, screen>>
    BY <1>9, <2>1, <2>7 DEF JoinSession
  <2>10. MovesTo(u, d, store[u], screen[u], 1)
    BY <1>2, <2>5, <2>8, <2>9 DEF MovesTo
  <2> QED
    BY <2>10, RLocalStep
<1>10. ASSUME NEW t \in TimeLimits, NEW r \in Radii, Start(u, t, r) PROVE RInv'
  <2>1. PICK c \in Codes : c = store[u].sessionCode
    BY <1>5, <1>10 DEF Start
  <2>2. t \in Int /\ r \in Int
    BY FirestoreAssumption
  <2>3. {"time", "radius", "start"} \subseteq Ops
    BY DEF Ops
  <2>4. PICK w1 : w1 = [Write("time", c) EXCEPT !.num = t]
    OBVIOUS
  <2>5. PICK w2 : w2 = [Write("radius", c) EXCEPT !.num = r]
    OBVIOUS
  <2>6. PICK w3 : w3 = Write("start", c)
    OBVIOUS
  <2>7. /\ w1 \in Writes /\ w1.op = "time" /\ w1.reply = "none"
        /\ w2 \in Writes /\ w2.op = "radius" /\ w2.reply = "none"
        /\ w3 \in Writes /\ w3.op = "start" /\ w3.reply = "none"
    BY <2>2, <2>3, <2>4, <2>5, <2>6, WriteType DEF Write
  <2>8. \A w \in {w1, w2, w3} : Due(u, w, store[u], n, store[u], n, server)
    BY <2>7, PlainDue
  <2>9. PICK d1 : d1 = Issue(u, dev[u], w1)
    OBVIOUS
  <2>10. PICK d2 : d2 = Issue(u, d1, w2)
    OBVIOUS
  <2>11. PICK d3 : d3 = Issue(u, d2, w3)
    OBVIOUS
  <2>12. PICK d4 : d4 = Watch(u, d3, c)
    OBVIOUS
  <2>13. /\ d1 \in Devices /\ Good(u, d1, store[u], screen[u], n, server)
         /\ HandsIn(d1, store[u]) <=> HandsIn(dev[u], store[u])
    BY <1>2, <1>4, <2>7, <2>8, <2>9, IssueGood
  <2>14. /\ d2 \in Devices /\ Good(u, d2, store[u], screen[u], n, server)
         /\ HandsIn(d2, store[u]) <=> HandsIn(d1, store[u])
    BY <2>7, <2>8, <2>10, <2>13, IssueGood
  <2>15. /\ d3 \in Devices /\ Good(u, d3, store[u], screen[u], n, server)
         /\ HandsIn(d3, store[u]) <=> HandsIn(d2, store[u])
    BY <2>7, <2>8, <2>11, <2>14, IssueGood
  <2>16. /\ Good(u, d4, store[u], screen[u], n, server)
         /\ HandsIn(d4, store[u]) <=> HandsIn(d3, store[u])
    BY <2>12, <2>15, WatchGood
  <2>17. /\ dev' = [dev EXCEPT ![u] = d4]
         /\ UNCHANGED <<server, store, screen>> /\ Count(u, "start")
    BY <1>10, <2>1, <2>4, <2>5, <2>6, <2>9, <2>10, <2>11, <2>12 DEF Start
  <2>18. used'[u]["join"] = n /\ \A v \in Users \ {u} : used'[v]["join"] = used[v]["join"]
    BY <1>7, <2>17
  <2>19. HandsIn(d4, store[u]) <=> HandsIn(dev[u], store[u])
    BY <2>13, <2>14, <2>15, <2>16
  <2>20. MovesTo(u, d4, store[u], screen[u], n)
    BY <1>2, <2>16, <2>17, <2>18, <2>19 DEF MovesTo
  <2> QED
    BY <2>20, RLocalStep
<1>11. ASSUME NEW op \in {"list", "end"}, NEW c \in Codes,
              dev' = [dev EXCEPT ![u] = Issue(u, dev[u], Write(op, c))],
              UNCHANGED <<server, store, screen>>,
              UNCHANGED used \/ (\E k \in {"create", "start", "end"} : Count(u, k))
       PROVE  RInv'
  <2>1. PICK w : w = Write(op, c)
    OBVIOUS
  <2>2. w \in Writes /\ w.op \notin {"create", "join", "push"} /\ w.reply = "none"
    BY <1>6, <2>1 DEF Ops
  <2>3. Due(u, w, store[u], n, store[u], n, server)
    BY <2>2, PlainDue
  <2>4. PICK d : d = Issue(u, dev[u], w)
    OBVIOUS
  <2>5. /\ Good(u, d, store[u], screen[u], n, server)
        /\ HandsIn(d, store[u]) <=> HandsIn(dev[u], store[u])
    BY <1>2, <1>4, <2>2, <2>3, <2>4, IssueGood
  <2>6. used'[u]["join"] = n /\ \A v \in Users \ {u} : used'[v]["join"] = used[v]["join"]
    BY <1>7, <1>11
  <2>7. MovesTo(u, d, store[u], screen[u], n)
    BY <1>2, <1>11, <2>1, <2>4, <2>5, <2>6 DEF MovesTo
  <2> QED
    BY <2>7, RLocalStep
<1>12. InSession(dev[u], store[u], fetching[u])
  BY DEF CInv
<1>13. CASE ReceiveRestaurants(u)
  <2>1. PICK c \in Codes : c = store[u].sessionCode /\ c # NoCode
    BY <1>5, <1>12, <1>13 DEF ReceiveRestaurants, InSession
  <2>2. /\ dev' = [dev EXCEPT ![u] = Issue(u, dev[u], Write("list", c))]
        /\ UNCHANGED <<server, store, screen, used>>
    BY <1>13, <2>1 DEF ReceiveRestaurants
  <2> QED
    BY <1>11, <2>2
<1>14. CASE EndSession(u)
  <2>1. PICK c \in Codes : c = store[u].sessionCode /\ c # NoCode
    BY <1>5, <1>12, <1>14 DEF EndSession, EndDue, ShowsLive, OnTop, InSession
  <2>2. /\ dev' = [dev EXCEPT ![u] = Issue(u, dev[u], Write("end", c))]
        /\ UNCHANGED <<server, store, screen>> /\ Count(u, "end")
    BY <1>14, <2>1 DEF EndSession
  <2> QED
    BY <1>11, <2>2
<1>15. CASE FetchFails(u)
  <2>1. UNCHANGED <<server, dev, store, screen, used>>
    BY <1>15 DEF FetchFails
  <2>2. MovesTo(u, dev[u], store[u], screen[u], n)
    BY <1>2, <1>4, <1>7, <2>1 DEF MovesTo
  <2> QED
    BY <2>2, RLocalStep
<1>16. ASSUME NEW r \in Restaurants, LikeRestaurant(u, r) PROVE RInv'
  <2>1. PICK s : s = [store[u] EXCEPT !.likedRestaurants = store[u].likedRestaurants \cup {r}]
    OBVIOUS
  <2>2. s.sessionCode = store[u].sessionCode /\ s.pushed = store[u].pushed
    BY <1>2, <2>1 DEF Stores
  <2>3. /\ store' = [store EXCEPT ![u] = s] /\ UNCHANGED <<server, dev, screen, used>>
    BY <1>1, <1>16, <2>1 DEF LikeRestaurant, TypeOK
  <2>4. /\ dev[u].user = TRUE /\ dev[u].queue[FALSE] = <<>>
        /\ (screen[u] = "create" => u \in Hosts) /\ (screen[u] = "join" => u \in Guests)
    BY <1>4 DEF Good, Roles
  <2>5. Idle(dev[u], store[u], dev[u], s)
    BY <2>2, <2>4 DEF Idle, SameKind, NoNewJoin
  <2>6. /\ Good(u, dev[u], s, screen[u], n, server)
        /\ HandsIn(dev[u], s) <=> HandsIn(dev[u], store[u])
    BY <1>4, <2>4, <2>5, GoodSame
  <2>7. used'[u]["join"] = n /\ \A v \in Users \ {u} : used'[v]["join"] = used[v]["join"]
    BY <1>7, <2>3
  <2>8. MovesTo(u, dev[u], s, screen[u], n)
    BY <1>2, <2>2, <2>3, <2>6, <2>7 DEF MovesTo
  <2> QED
    BY <2>8, RLocalStep
<1> QED
  BY <1>8, <1>9, <1>10, <1>13, <1>14, <1>15, <1>16

\* A callback is taken from the inbox.
LEMMA HandledGood ==
    ASSUME NEW u \in Users, NEW d \in Devices, d.inbox # <<>>, NEW s, NEW x, NEW n, NEW sv,
           Good(u, d, s, x, n, sv), NEW s2, NEW d2, d2 = Handled(d),
           s2.sessionCode = s.sessionCode, s2.pushed = s.pushed
    PROVE  /\ d2 \in Devices
           /\ Good(u, d2, s2, x, n, sv) /\ (HandsIn(d2, s2) <=> HandsIn(d, s))
<1>1. /\ d.user = TRUE /\ d.queue[FALSE] = <<>>
      /\ (x = "create" => u \in Hosts) /\ (x = "join" => u \in Guests)
  BY DEF Good, Roles
<1>2. d2 \in Devices /\ Idle(d, s, d2, s2)
  BY <1>1, HandledQueue DEF Idle, SameKind
<1> QED
  BY <1>1, <1>2, GoodSame

\* A guest who has become a member enters the session.
LEMMA GoodEnter ==
    ASSUME NEW u, NEW d, NEW s, NEW x, NEW n, NEW sv, Good(u, d, s, x, n, sv),
           u \notin Hosts, NEW s2, s2.pushed = s.pushed, MemberOf(u, sv[s2.sessionCode])
    PROVE  Good(u, d, s2, x, n, sv) /\ (HandsIn(d, s2) <=> HandsIn(d, s))
<1>1. /\ QueueOrder(u, d.queue[TRUE], sv) /\ Roles(u, d, s, x)
      /\ Part(u, d, s, sv) /\ Unjoined(u, d, sv, n)
  BY DEF Good
<1>2. HandsIn(d, s2) <=> HandsIn(d, s)
  BY DEF HandsIn
<1>3. Roles(u, d, s2, x)
  BY <1>1, Zenon DEF Roles
<1>4. Part(u, d, s2, sv)
  BY <1>1, <1>2 DEF Part
<1> QED
  BY <1>1, <1>2, <1>3, <1>4 DEF Good

\* The completion of a join preserves the invariant.
LEMMA JoinedRound ==
    ASSUME OneRound, IInv, RInv, NEW u \in Users, Joined(u)
    PROVE  RInv'
<1>1. /\ screen = [screen EXCEPT ![u] = screen[u]]
      /\ dev[u] \in Devices /\ store[u] \in Stores
  BY DEF IInv, TypeOK
<1>2. PICK n : n = used[u]["join"]
  OBVIOUS
<1>3. Good(u, dev[u], store[u], screen[u], n, server)
  BY <1>2 DEF RInv
<1>4. /\ dev[u].inbox # <<>> /\ Head(dev[u].inbox).kind = "join"
      /\ UNCHANGED <<server, screen, used>>
  BY DEF Joined, Arrived, CallbackDue
<1>5. PICK e \in Events : e = Head(dev[u].inbox)
  BY <1>4, HandledFits DEF IInv
<1>6. 1 \in DOMAIN dev[u].inbox /\ dev[u].inbox[1] = e
  BY <1>1, <1>4, <1>5, HandledQueue
<1>7. u \in Guests /\ (e.ok => MemberOf(u, server[e.code]))
  BY <1>3, <1>4, <1>5, <1>6 DEF Good, Roles, Part
<1>8. u \notin Hosts
  BY <1>7 DEF OneRound
<1>9. PICK d : d = Handled(dev[u])
  OBVIOUS
<1>10. used'[u]["join"] = n /\ \A v \in Users \ {u} : used'[v]["join"] = used[v]["join"]
  BY <1>2, <1>4
<1>11. CASE e.ok
  <2>1. PICK d2 : d2 = Watch(u, d, e.code)
    OBVIOUS
  <2>2. PICK s : s = [store[u] EXCEPT !.sessionCode = e.code]
    OBVIOUS
  <2>3. s.sessionCode = e.code /\ s.pushed = store[u].pushed /\ e.code \in Codes
    BY <1>1, <2>2 DEF Stores, Events
  <2>4. /\ d \in Devices /\ Good(u, d, store[u], screen[u], n, server)
        /\ HandsIn(d, store[u]) <=> HandsIn(dev[u], store[u])
    BY <1>1, <1>3, <1>4, <1>9, HandledGood
  <2>5. /\ Good(u, d, s, screen[u], n, server)
        /\ HandsIn(d, s) <=> HandsIn(d, store[u])
    BY <1>7, <1>8, <1>11, <2>3, <2>4, GoodEnter
  <2>6. /\ Good(u, d2, s, screen[u], n, server)
        /\ HandsIn(d2, s) <=> HandsIn(d, s)
    BY <2>1, <2>3, <2>4, <2>5, WatchGood
  <2>7. dev' = [dev EXCEPT ![u] = d2] /\ store' = [store EXCEPT ![u] = s]
    BY <1>5, <1>9, <1>11, <2>1, <2>2 DEF Joined, Do
  <2>8. HandsIn(d2, s) <=> HandsIn(dev[u], store[u])
    BY <2>4, <2>5, <2>6
  <2>9. MovesTo(u, d2, s, screen[u], n)
    BY <1>1, <1>4, <1>8, <1>10, <2>6, <2>7, <2>8 DEF MovesTo
  <2> QED
    BY <2>9, RLocalStep
<1>12. CASE ~e.ok
  <2>1. PICK s : s = [store[u] EXCEPT !.sessionError = "join"]
    OBVIOUS
  <2>2. s.sessionCode = store[u].sessionCode /\ s.pushed = store[u].pushed
    BY <1>1, <2>1 DEF Stores
  <2>3. /\ Good(u, d, s, screen[u], n, server)
        /\ HandsIn(d, s) <=> HandsIn(dev[u], store[u])
    BY <1>1, <1>3, <1>4, <1>9, <2>2, HandledGood
  <2>4. dev' = [dev EXCEPT ![u] = d] /\ store' = [store EXCEPT ![u] = s]
    BY <1>5, <1>9, <1>12, <2>1 DEF Joined, Do
  <2>5. MovesTo(u, d, s, screen[u], n)
    BY <1>1, <1>4, <1>8, <1>10, <2>3, <2>4 DEF MovesTo
  <2> QED
    BY <2>5, RLocalStep
<1> QED
  BY <1>11, <1>12

\* A snapshot with data preserves the invariant: it pushes at most once.
LEMMA SnapshotDataRound ==
    ASSUME OneRound, IInv, MInv, CInv, RInv, NEW u \in Users, SnapshotData(u)
    PROVE  RInv'
<1>1. /\ screen = [screen EXCEPT ![u] = screen[u]]
      /\ dev[u] \in Devices /\ store[u] \in Stores
  BY DEF IInv, TypeOK
<1>2. PICK n : n = used[u]["join"]
  OBVIOUS
<1>3. Good(u, dev[u], store[u], screen[u], n, server)
  BY <1>2 DEF RInv
<1>4. dev[u].inbox # <<>> /\ Head(dev[u].inbox).data # NoDoc
  BY DEF SnapshotData, Arrived, CallbackDue
<1>5. PICK popped : popped = Handled(dev[u])
  OBVIOUS
<1>6. PICK e \in Events : e = Head(dev[u].inbox)
  BY <1>4, HandledFits DEF IInv
<1>7. PICK d \in Docs : d = e.data
  BY <1>4, <1>6 DEF Events
<1>8. store[u].session /\ store[u].sessionCode # NoCode /\ DOMAIN d.likes # {}
  BY <1>4, <1>6, <1>7, SnapshotInSession DEF SnapshotData
<1>9. PICK c \in Codes : c = store[u].sessionCode
  BY <1>1, <1>8 DEF Stores
<1>10. PICK push \in BOOLEAN : push = MustPush(store[u], d)
  BY DEF MustPush
<1>11. PICK after : after = IF push THEN PushResults(u, popped) ELSE popped
  OBVIOUS
<1>12. PICK new : new = [Absorb(store[u], d) EXCEPT !.pushed = @ \/ push]
  OBVIOUS
<1>13. /\ \/ Do(u, after, new)
          \/ \E sel \in Selections(d.likes) : Do(u, CalcResult(u, after, sel), new)
       /\ UNCHANGED <<server, screen, used>>
  BY <1>5, <1>6, <1>7, <1>8, <1>10, <1>11, <1>12 DEF SnapshotData
<1>14. /\ new.sessionCode = store[u].sessionCode
       /\ push => new.pushed
       /\ ~push => new.pushed = store[u].pushed
  <2>1. PICK b \in BOOLEAN : b = (Absorb(store[u], d).pushed \/ push)
    OBVIOUS
  <2>2. new = [Absorb(store[u], d) EXCEPT !.pushed = b]
    BY <1>12, <2>1
  <2>3. Absorb(store[u], d).pushed = store[u].pushed /\ store[u].pushed \in BOOLEAN
    BY <1>1 DEF Absorb, Stores
  <2>4. new.sessionCode = store[u].sessionCode /\ new.pushed = b
    BY <1>1, <2>2 DEF Absorb, Stores
  <2> QED
    BY <2>1, <2>3, <2>4
<1>15. used'[u]["join"] = n /\ \A v \in Users \ {u} : used'[v]["join"] = used[v]["join"]
  BY <1>2, <1>13
<1>16. /\ after \in Devices /\ Good(u, after, new, screen[u], n, server)
       /\ HandsIn(after, new) <=> HandsIn(dev[u], store[u])
  <2>1. CASE push
    <3>1. PICK l \in SUBSET Restaurants : l = store[u].likedRestaurants
      BY <1>1 DEF Stores
    <3>2. PICK w : w = [Write("push", c) EXCEPT !.liked = l]
      OBVIOUS
    <3>3. w \in Writes /\ w.op = "push" /\ w.code = c /\ w.reply = "none"
      BY <3>2, WriteType DEF Write, Ops
    <3>4. after = Issue(u, popped, w)
      BY <1>9, <1>11, <2>1, <3>1, <3>2 DEF PushResults
    <3>5. ~store[u].pushed
      BY <1>10, <2>1 DEF MustPush
    <3>6. Due(u, w, store[u], n, new, n, server)
      BY <1>8, <1>9, <1>14, <2>1, <3>3, <3>5 DEF Due
    <3>7. /\ popped \in Devices /\ Good(u, popped, store[u], screen[u], n, server)
          /\ HandsIn(popped, store[u]) <=> HandsIn(dev[u], store[u])
      BY <1>1, <1>3, <1>4, <1>5, HandledGood
    <3>8. /\ after \in Devices /\ Good(u, after, new, screen[u], n, server)
          /\ HandsIn(after, new) <=> HandsIn(popped, store[u])
      BY <3>3, <3>4, <3>6, <3>7, IssueGood
    <3> QED
      BY <3>7, <3>8
  <2>2. CASE ~push
    <3>1. after = popped /\ new.pushed = store[u].pushed
      BY <1>11, <1>14, <2>2
    <3> QED
      BY <1>1, <1>3, <1>4, <1>5, <1>14, <3>1, HandledGood
  <2> QED
    BY <2>1, <2>2
<1>17. ASSUME NEW dd, Do(u, dd, new), Good(u, dd, new, screen[u], n, server),
              HandsIn(dd, new) <=> HandsIn(dev[u], store[u])
       PROVE  RInv'
  <2>1. MovesTo(u, dd, new, screen[u], n)
    BY <1>1, <1>13, <1>14, <1>15, <1>17 DEF MovesTo, Do
  <2> QED
    BY <2>1, RLocalStep
<1>18. CASE Do(u, after, new)
  BY <1>16, <1>17, <1>18
<1>19. ASSUME NEW sel \in Selections(d.likes), Do(u, CalcResult(u, after, sel), new)
       PROVE  RInv'
  <2>1. sel \in Results
    BY DEF Selections, Consensus, Results
  <2>2. PICK w : w = [Write("result", c) EXCEPT !.sel = sel]
    OBVIOUS
  <2>3. w \in Writes /\ w.op = "result" /\ w.reply = "none"
    BY <2>1, <2>2, WriteType DEF Write, Ops
  <2>4. PICK dd : dd = Issue(u, after, w)
    OBVIOUS
  <2>5. dd = CalcResult(u, after, sel)
    BY <1>9, <2>2, <2>4 DEF CalcResult
  <2>6. Due(u, w, new, n, new, n, server)
    BY <2>3, PlainDue
  <2>7. Good(u, dd, new, screen[u], n, server) /\ (HandsIn(dd, new) <=> HandsIn(after, new))
    BY <1>16, <2>3, <2>4, <2>6, IssueGood
  <2> QED
    BY <1>16, <1>17, <1>19, <2>5, <2>7
<1> QED
  BY <1>13, <1>18, <1>19

\* Answers and documents that reach a device preserve the invariant.
LEMMA DeliveryRound ==
    ASSUME OneRound, IInv, RInv, NEW u \in Users,
           Ack(u) \/ (\E c \in Codes : Sync(u, c) \/ GoOffline(u, c))
    PROVE  RInv'
<1>1. /\ screen = [screen EXCEPT ![u] = screen[u]] /\ store = [store EXCEPT ![u] = store[u]]
      /\ dev[u] \in Devices
  BY DEF IInv, TypeOK
<1>2. PICK n : n = used[u]["join"]
  OBVIOUS
<1>3. Good(u, dev[u], store[u], screen[u], n, server)
  BY <1>2 DEF RInv
<1>4. /\ dev[u].user = TRUE /\ dev[u].queue[FALSE] = <<>>
      /\ (screen[u] = "create" => u \in Hosts) /\ (screen[u] = "join" => u \in Guests)
  BY <1>3 DEF Good, Roles
<1>5. ASSUME NEW d, Good(u, d, store[u], screen[u], n, server),
             HandsIn(d, store[u]) <=> HandsIn(dev[u], store[u]),
             dev' = [dev EXCEPT ![u] = d], UNCHANGED <<server, store, screen, used>>
      PROVE  RInv'
  <2>1. used'[u]["join"] = n /\ \A v \in Users \ {u} : used'[v]["join"] = used[v]["join"]
    BY <1>2, <1>5
  <2>2. MovesTo(u, d, store[u], screen[u], n)
    BY <1>1, <1>5, <2>1 DEF MovesTo
  <2> QED
    BY <2>2, RLocalStep
<1>6. CASE Ack(u)
  <2>1. /\ Pending(dev[u]) # <<>> /\ Head(Pending(dev[u])).reply # "none"
        /\ Pending(dev[u]) = dev[u].queue[TRUE]
    BY <1>4, <1>6 DEF Ack, AckDue, Pending
  <2>2. PICK d : d = Acknowledge(u, dev[u])
    OBVIOUS
  <2>3. /\ d.user = TRUE /\ d.queue[FALSE] = dev[u].queue[FALSE]
        /\ d.queue[TRUE] = Tail(dev[u].queue[TRUE])
        /\ \A i \in DOMAIN d.inbox : d.inbox[i].kind = "join" =>
              \/ \E j \in DOMAIN dev[u].inbox : dev[u].inbox[j] = d.inbox[i]
              \/ /\ Head(dev[u].queue[TRUE]).op = "join"
                 /\ d.inbox[i] = Completion(Head(dev[u].queue[TRUE]))
    <3>1. dev[u] \in Devices /\ dev[u].user = TRUE /\ Pending(dev[u]) # <<>>
      BY <1>1, <1>4, <2>1
    <3> QED
      BY <2>2, <3>1, AcknowledgeQueue, Zenon
  <2>4. /\ Good(u, d, store[u], screen[u], n, server)
        /\ HandsIn(d, store[u]) <=> HandsIn(dev[u], store[u])
    <3>1. Answers(dev[u], d)
      BY <1>4, <2>1, <2>3, Zenon DEF Answers
    <3> QED
      BY <1>1, <1>3, <3>1, GoodTail
  <2>5. dev' = [dev EXCEPT ![u] = d] /\ UNCHANGED <<server, store, screen, used>>
    BY <1>6, <2>2 DEF Ack
  <2> QED
    BY <1>5, <2>4, <2>5
<1>7. ASSUME NEW c \in Codes, Sync(u, c) PROVE RInv'
  <2>1. PICK x \in Docs \cup {NoDoc} : x = server[c]
    BY DEF IInv, TypeOK
  <2>2. PICK d : d = Receive(u, dev[u], c, x)
    OBVIOUS
  <2>3. /\ d.user = TRUE /\ NoNewJoin(dev[u], d)
        /\ SameKind(dev[u].queue[TRUE], d.queue[TRUE])
        /\ SameKind(dev[u].queue[FALSE], d.queue[FALSE])
        /\ d.queue[FALSE] \in Seq(Writes)
    BY <1>1, <1>4, <2>2, ReceiveQueue
  <2>4. d.queue[FALSE] = <<>>
    <3>1. PICK q \in Seq(Writes) : q = d.queue[FALSE]
      BY <2>3
    <3>2. DOMAIN q = DOMAIN dev[u].queue[FALSE]
      BY <2>3, <3>1 DEF SameKind
    <3>3. DOMAIN dev[u].queue[FALSE] = {}
      BY <1>4
    <3>4. Len(q) = 0
      BY <3>2, <3>3
    <3> QED
      BY <3>1, <3>4, EmptySeq
  <2>5. Idle(dev[u], store[u], d, store[u])
    BY <2>3, <2>4 DEF Idle
  <2>6. /\ Good(u, d, store[u], screen[u], n, server)
        /\ HandsIn(d, store[u]) <=> HandsIn(dev[u], store[u])
    BY <1>3, <1>4, <2>5, GoodSame
  <2>7. dev' = [dev EXCEPT ![u] = d] /\ UNCHANGED <<server, store, screen, used>>
    BY <1>7, <2>1, <2>2 DEF Sync
  <2> QED
    BY <1>5, <2>6, <2>7
<1>8. \A c \in Codes : ~GoOffline(u, c)
  BY CalmAllows DEF GoOffline, OneRound
<1> QED
  BY <1>6, <1>7, <1>8

------------------------------------------------------------------------------
(* The server executes a write. *)

\* What user u's write w makes of the document x0: members and counters.
Effect(u, w, x0, x1) ==
    /\ w.op = "create" => /\ x1 # NoDoc /\ DOMAIN x1.likes = {u}
                          /\ x1.participants = 1 /\ x1.finishedPushing = 0
    /\ w.op # "create" /\ x0 = NoDoc => x1 = NoDoc
    /\ w.op # "create" /\ x0 # NoDoc =>
          /\ x1 # NoDoc
          /\ DOMAIN x1.likes = IF w.op \in {"join", "push"} THEN DOMAIN x0.likes \cup {u}
                               ELSE DOMAIN x0.likes
          /\ x1.participants = IF w.op = "join" THEN x0.participants + 1 ELSE x0.participants
          /\ x1.finishedPushing = IF w.op = "push" THEN x0.finishedPushing + 1
                                  ELSE x0.finishedPushing

LEMMA ApplyEffect ==
    ASSUME NEW u \in Users, NEW w \in Writes, w.op \notin {"leave", "delete"},
           NEW x0 \in Docs \cup {NoDoc}, NEW n \in Int, n = NumberFor(w, x0),
           NEW x1, x1 = Apply(u, w, n, x0)
    PROVE  Effect(u, w, x0, x1)
<1>1. CASE w.op = "create"
  <2>1. x1 = NewDoc(u) /\ x1 \in Docs
    BY <1>1, NewDocType DEF Apply, Replaces
  <2>2. x1.likes = SetLikes(NoLikes, u, {}) /\ x1.participants = 1 /\ x1.finishedPushing = 0
    BY <2>1 DEF NewDoc
  <2>3. DOMAIN x1.likes = {u}
    BY <2>2 DEF SetLikes, NoLikes
  <2> QED
    BY <1>1, <2>1, <2>2, <2>3, MissingAssumption DEF Effect
<1>2. CASE w.op # "create" /\ x0 = NoDoc
  BY <1>2 DEF Apply, Replaces, Missing, Effect
<1>3. CASE w.op # "create" /\ x0 # NoDoc
  <2>1. x0 \in Docs /\ ~Missing(x0) /\ ~Replaces(w)
    BY <1>3, MissingAssumption DEF Missing, Replaces
  <2>2. x1 = Patch(u, w, n, x0)
    BY <2>1 DEF Apply, Replaces
  <2>3. x1 # NoDoc
    BY <2>1, <2>2, PatchType, MissingAssumption
  <2>4. w.op \in {"join", "push", "end", "result", "start", "list", "time", "radius"}
    BY <2>1, WriteParts DEF Ops, Replaces
  <2>5. CASE w.op = "join"
    <3>1. n = x0.participants + 1
      BY <2>1, <2>5 DEF NumberFor, Counts, Incremented
    <3>2. /\ x1.likes = SetLikes(x0.likes, u, {}) /\ x1.participants = n
          /\ x1.finishedPushing = x0.finishedPushing
      BY <2>1, <2>2, <2>5 DEF Patch, Docs
    <3>3. DOMAIN x1.likes = DOMAIN x0.likes \cup {u}
      BY <3>2 DEF SetLikes
    <3> QED
      BY <1>3, <2>3, <2>5, <3>1, <3>2, <3>3 DEF Effect
  <2>6. CASE w.op = "push"
    <3>1. n = x0.finishedPushing + 1
      BY <2>1, <2>6 DEF NumberFor, Counts, Incremented
    <3>2. /\ x1.likes = SetLikes(x0.likes, u, w.liked) /\ x1.finishedPushing = n
          /\ x1.participants = x0.participants
      BY <2>1, <2>2, <2>6 DEF Patch, Docs
    <3>3. DOMAIN x1.likes = DOMAIN x0.likes \cup {u}
      BY <3>2 DEF SetLikes
    <3> QED
      BY <1>3, <2>3, <2>6, <3>1, <3>2, <3>3 DEF Effect
  <2>7. CASE w.op \in {"end", "result", "start", "list", "time", "radius"}
    <3>1. /\ x1.likes = x0.likes /\ x1.participants = x0.participants
          /\ x1.finishedPushing = x0.finishedPushing
      BY <2>1, <2>2, <2>7 DEF Patch, Docs
    <3> QED
      BY <1>3, <2>3, <2>7, <3>1 DEF Effect
  <2> QED
    BY <2>4, <2>5, <2>6, <2>7
<1> QED
  BY <1>1, <1>2, <1>3

\* Another user's write: v's memberships stay, and so does what v is about to create.
LEMMA GoodOther ==
    ASSUME NEW v, NEW d \in Devices, NEW s \in Stores, NEW x, NEW n, NEW sv,
           Good(v, d, s, x, n, sv), NEW sv2,
           \A o \in Codes : MemberOf(v, sv2[o]) <=> MemberOf(v, sv[o]),
           \A i \in DOMAIN d.queue[TRUE] : d.queue[TRUE][i].op = "create" =>
              (sv[d.queue[TRUE][i].code] = NoDoc => sv2[d.queue[TRUE][i].code] = NoDoc)
    PROVE  Good(v, d, s, x, n, sv2)
<1>1. PICK q \in Seq(Writes) : q = d.queue[TRUE]
  BY DeviceParts
<1>2. \A i \in DOMAIN q : q[i] \in Writes /\ q[i].code \in Codes
  BY WriteParts
<1>3. /\ QueueOrder(v, q, sv) /\ Roles(v, d, s, x) /\ Part(v, d, s, sv) /\ Unjoined(v, d, sv, n)
  BY <1>1 DEF Good
<1>4. QueueOrder(v, q, sv2)
  <2>1. \A i \in DOMAIN q : Waits(q, i, "create") => sv2[q[i].code] = NoDoc
    BY <1>1, <1>3 DEF QueueOrder, Waits
  <2> QED
    BY <1>2, <1>3, <2>1 DEF QueueOrder
<1>5. Part(v, d, s, sv2)
  <2>1. \A i \in DOMAIN d.inbox : d.inbox[i].code \in Codes
    <3>1. d.inbox \in Seq(Events)
      BY DeviceParts
    <3>2. \A i \in DOMAIN d.inbox : d.inbox[i] \in Events
      BY <3>1
    <3> QED
      BY <3>2 DEF Events
  <2>2. s.sessionCode # NoCode => s.sessionCode \in Codes
    BY DEF Stores
  <2> QED
    BY <1>3, <2>1, <2>2 DEF Part
<1>6. Unjoined(v, d, sv2, n)
  BY <1>3 DEF Unjoined
<1> QED
  BY <1>1, <1>3, <1>4, <1>5, <1>6 DEF Good

\* The i-th write of d's queue is the first that waits, and is answered in d2.
Executes(d, i, d2) ==
    LET q == d.queue[TRUE]
        q2 == d2.queue[TRUE]
    IN  /\ i \in DOMAIN q /\ q[i].reply = "none"
        /\ \A j \in DOMAIN q : j < i => q[j].reply # "none"
        /\ DOMAIN q2 = DOMAIN q /\ \A j \in DOMAIN q \ {i} : q2[j] = q[j]
        /\ q2[i].op = q[i].op /\ q2[i].code = q[i].code /\ q2[i].reply \in {"ok", "failed"}
        /\ d2.user = d.user /\ d2.queue[FALSE] = d.queue[FALSE] /\ d2.inbox = d.inbox

\* What u's write of kind op to c, with the answer reply, does to u's memberships.
Enrols(u, op, c, reply, sv, sv2) ==
    /\ \A o \in Codes : MemberOf(u, sv[o]) => MemberOf(u, sv2[o])
    /\ op \notin {"create", "join", "push"} =>
          \A o \in Codes : MemberOf(u, sv2[o]) => MemberOf(u, sv[o])
    /\ op = "push" /\ MemberOf(u, sv[c]) =>
          \A o \in Codes : MemberOf(u, sv2[o]) => MemberOf(u, sv[o])
    /\ op # "create" => \A o \in Codes : sv[o] = NoDoc => sv2[o] = NoDoc
    /\ op = "create" => MemberOf(u, sv2[c])
    /\ op = "join" /\ reply = "ok" => MemberOf(u, sv2[c])

LEMMA GoodExecuted ==
    ASSUME Hosts \cap Guests = {}, NEW u, NEW d \in Devices, NEW s \in Stores, NEW x, NEW n, NEW sv,
           Good(u, d, s, x, n, sv), NEW i, NEW d2, Executes(d, i, d2), NEW sv2,
           Enrols(u, d.queue[TRUE][i].op, d.queue[TRUE][i].code, d2.queue[TRUE][i].reply, sv, sv2)
    PROVE  /\ Good(u, d2, s, x, n, sv2)
           /\ HandsIn(d2, s) <=> HandsIn(d, s) \/ d.queue[TRUE][i].op = "push"
           /\ d.queue[TRUE][i].op = "push" =>
                 ~HandsIn(d, s) /\ MemberOf(u, sv[d.queue[TRUE][i].code])
<1>1. PICK q \in Seq(Writes) : q = d.queue[TRUE]
  BY DeviceParts
<1>2. PICK q2 : q2 = d2.queue[TRUE]
  OBVIOUS
<1>3. PICK w \in Writes : w = q[i]
  <2>1. i \in DOMAIN q
    BY <1>1 DEF Executes
  <2> QED
    BY <2>1
<1>4. /\ i \in DOMAIN q /\ w.reply = "none"
      /\ \A j \in DOMAIN q : j < i => q[j].reply # "none"
      /\ DOMAIN q2 = DOMAIN q /\ \A j \in DOMAIN q \ {i} : q2[j] = q[j]
      /\ q2[i].op = w.op /\ q2[i].code = w.code /\ q2[i].reply \in {"ok", "failed"}
      /\ d2.user = d.user /\ d2.queue[FALSE] = d.queue[FALSE] /\ d2.inbox = d.inbox
  BY <1>1, <1>2, <1>3 DEF Executes
<1>5. Enrols(u, w.op, w.code, q2[i].reply, sv, sv2)
  BY <1>1, <1>2, <1>3
<1>6. \A j \in DOMAIN q : q[j] \in Writes /\ q[j].code \in Codes
  BY WriteParts
<1>7. /\ QueueOrder(u, q, sv) /\ Roles(u, d, s, x) /\ Part(u, d, s, sv) /\ Unjoined(u, d, sv, n)
  BY <1>1 DEF Good
<1>8. /\ \A j \in DOMAIN q : q2[j].op = q[j].op /\ q2[j].code = q[j].code
      /\ \A j \in DOMAIN q : \A op : Waits(q2, j, op) <=> Waits(q, j, op) /\ j # i
      /\ \A op : Waits(q, i, op) <=> w.op = op
  BY <1>3, <1>4 DEF Waits
<1>9. /\ w.op = "create" => u \in Hosts /\ u \notin Guests
      /\ \A j \in DOMAIN q : q[j].op = "join" => u \in Guests
  BY <1>1, <1>3, <1>4, <1>7 DEF Roles
<1>10. w.op = "push" => MemberOf(u, sv[w.code]) /\ s.pushed /\ ~HandsIn(d, s)
  <2>1. ~CreatesBefore(q, w.code, i)
    BY <1>4 DEF CreatesBefore, Waits
  <2>2. w.op = "push" => MemberOf(u, sv[w.code])
    BY <1>3, <1>4, <1>7, <1>8, <2>1 DEF QueueOrder
  <2>3. w.op = "push" => s.pushed /\ ~HandsIn(d, s)
    BY <1>1, <1>4, <1>7, <1>8 DEF Part, HandsIn
  <2> QED
    BY <2>2, <2>3
<1>11. w.op \notin {"create", "join"} =>
          \A o \in Codes : MemberOf(u, sv2[o]) => MemberOf(u, sv[o])
  BY <1>5, <1>10 DEF Enrols
<1>12. HandsIn(d2, s) <=> HandsIn(d, s) \/ w.op = "push"
  <2>1. CASE w.op = "push"
    <3>1. ~\E j \in DOMAIN q2 : Waits(q2, j, "push")
      BY <1>4, <1>7, <1>8, <2>1 DEF QueueOrder
    <3> QED
      BY <1>2, <1>10, <2>1, <3>1 DEF HandsIn
  <2>2. CASE w.op # "push"
    <3>1. (\E j \in DOMAIN q2 : Waits(q2, j, "push")) <=> (\E j \in DOMAIN q : Waits(q, j, "push"))
      BY <1>4, <1>8, <2>2
    <3> QED
      BY <1>1, <1>2, <2>2, <3>1 DEF HandsIn
  <2> QED
    BY <2>1, <2>2
<1>13. QueueOrder(u, q2, sv2)
  <2>1. ASSUME NEW j \in DOMAIN q, NEW k \in DOMAIN q
        PROVE  /\ q2[j].op = "create" /\ q2[k].op = "create" => j = k
               /\ q2[j].op = "join" /\ q2[k].op = "join" => j = k
               /\ Waits(q2, j, "push") /\ Waits(q2, k, "push") => j = k
    BY <1>7, <1>8 DEF QueueOrder
  <2>2. ASSUME NEW j \in DOMAIN q, Waits(q2, j, "create") PROVE sv2[q2[j].code] = NoDoc
    <3>1. Waits(q, j, "create") /\ j # i
      BY <1>8, <2>2
    <3>2. w.op # "create"
      BY <1>3, <1>4, <1>7, <3>1 DEF QueueOrder, Waits
    <3>3. sv[q[j].code] = NoDoc
      BY <1>7, <3>1 DEF QueueOrder
    <3> QED
      BY <1>5, <1>6, <1>8, <3>2, <3>3 DEF Enrols
  <2>3. ASSUME NEW j \in DOMAIN q, Waits(q2, j, "join"), NEW o \in Codes
        PROVE  ~MemberOf(u, sv2[o])
    <3>1. Waits(q, j, "join") /\ j # i /\ q[j].op = "join"
      BY <1>8, <2>3 DEF Waits
    <3>2. w.op # "join"
      BY <1>3, <1>4, <1>7, <3>1 DEF QueueOrder
    <3>3. w.op # "create"
      BY <1>9, <3>1
    <3>4. ~MemberOf(u, sv[o])
      BY <1>7, <3>1 DEF QueueOrder
    <3> QED
      BY <1>11, <3>2, <3>3, <3>4
  <2>4. ASSUME NEW j \in DOMAIN q, q2[j].op = "join", q2[j].reply \in {"ok", "seen"}
        PROVE  MemberOf(u, sv2[q2[j].code])
    <3>1. CASE j = i
      BY <1>4, <1>5, <2>4, <3>1 DEF Enrols
    <3>2. CASE j # i
      <4>1. MemberOf(u, sv[q[j].code])
        BY <1>4, <1>7, <2>4, <3>2 DEF QueueOrder
      <4> QED
        BY <1>5, <1>6, <1>8, <4>1 DEF Enrols
    <3> QED
      BY <3>1, <3>2
  <2>5. ASSUME NEW j \in DOMAIN q, Waits(q2, j, "push")
        PROVE  MemberOf(u, sv2[q2[j].code]) \/ CreatesBefore(q2, q2[j].code, j)
    <3>1. Waits(q, j, "push") /\ q2[j].code = q[j].code
      BY <1>8, <2>5
    <3>2. MemberOf(u, sv[q[j].code]) \/ CreatesBefore(q, q[j].code, j)
      BY <1>7, <3>1 DEF QueueOrder
    <3>3. CASE MemberOf(u, sv[q[j].code])
      BY <1>5, <1>6, <3>1, <3>3 DEF Enrols
    <3>4. ASSUME NEW k \in DOMAIN q, k < j, Waits(q, k, "create"), q[k].code = q[j].code
          PROVE  MemberOf(u, sv2[q2[j].code]) \/ CreatesBefore(q2, q2[j].code, j)
      <4>1. CASE k = i
        BY <1>3, <1>5, <1>8, <3>1, <3>4, <4>1 DEF Enrols
      <4>2. CASE k # i
        BY <1>4, <1>8, <3>1, <3>4, <4>2 DEF CreatesBefore
      <4> QED
        BY <4>1, <4>2
    <3> QED
      BY <3>2, <3>3, <3>4 DEF CreatesBefore
  <2> QED
    BY <1>4, <2>1, <2>2, <2>3, <2>4, <2>5 DEF QueueOrder
<1>14. Roles(u, d2, s, x)
  <2>1. ASSUME NEW j \in DOMAIN q2
        PROVE  /\ q2[j].op = "create" => u \in Hosts /\ q2[j].code = s.sessionCode
               /\ q2[j].op = "join" => u \in Guests
    <3>1. /\ q[j].op = "create" => u \in Hosts /\ q[j].code = s.sessionCode
          /\ q[j].op = "join" => u \in Guests
      BY <1>1, <1>4, <1>7, Zenon DEF Roles
    <3> QED
      BY <1>4, <1>8, <3>1
  <2>2. (x = "create" => u \in Hosts) /\ (x = "join" => u \in Guests)
    BY <1>7 DEF Roles
  <2>3. d2.user = TRUE /\ d2.queue[FALSE] = <<>>
    BY <1>4, <1>7 DEF Roles
  <2>4. \A j \in DOMAIN d2.inbox : d2.inbox[j].kind = "join" => u \in Guests
    BY <1>4, <1>7 DEF Roles
  <2> QED
    BY <1>2, <2>1, <2>2, <2>3, <2>4, Zenon DEF Roles
<1>15. Part(u, d2, s, sv2)
  <2>1. s.sessionCode # NoCode =>
          MemberOf(u, sv2[s.sessionCode]) \/ Creating(q2, s.sessionCode)
    <3> SUFFICES ASSUME s.sessionCode # NoCode
                 PROVE  MemberOf(u, sv2[s.sessionCode]) \/ Creating(q2, s.sessionCode)
      OBVIOUS
    <3>1. s.sessionCode \in Codes
      BY DEF Stores
    <3>2. CASE MemberOf(u, sv[s.sessionCode])
      BY <1>5, <3>1, <3>2 DEF Enrols
    <3>3. ASSUME NEW k \in DOMAIN q, Waits(q, k, "create"), q[k].code = s.sessionCode
          PROVE  MemberOf(u, sv2[s.sessionCode]) \/ Creating(q2, s.sessionCode)
      <4>1. CASE k = i
        BY <1>3, <1>5, <1>8, <3>3, <4>1 DEF Enrols
      <4>2. CASE k # i
        BY <1>4, <1>8, <3>3, <4>2 DEF Creating
      <4> QED
        BY <4>1, <4>2
    <3> QED
      BY <1>1, <1>7, <3>2, <3>3 DEF Part, Creating
  <2>2. ASSUME NEW j \in DOMAIN d2.inbox, d2.inbox[j].kind = "join", d2.inbox[j].ok
        PROVE  MemberOf(u, sv2[d2.inbox[j].code])
    <3>1. d.inbox \in Seq(Events)
      BY DeviceParts
    <3>2. d.inbox[j] \in Events
      BY <1>4, <3>1
    <3>3. d.inbox[j].code \in Codes
      BY <3>2 DEF Events
    <3>4. MemberOf(u, sv[d.inbox[j].code])
      BY <1>4, <1>7, <2>2 DEF Part
    <3> QED
      BY <1>4, <1>5, <3>3, <3>4 DEF Enrols
  <2>3. (\E j \in DOMAIN q2 : Waits(q2, j, "push")) => s.pushed
    BY <1>1, <1>4, <1>7, <1>8 DEF Part
  <2>4. HandsIn(d2, s) => \E c \in Codes : MemberOf(u, sv2[c])
    <3>1. CASE HandsIn(d, s)
      BY <1>5, <1>7, <3>1 DEF Part, Enrols
    <3>2. CASE w.op = "push"
      BY <1>3, <1>4, <1>5, <1>6, <1>10, <3>2 DEF Enrols
    <3> QED
      BY <1>12, <3>1, <3>2
  <2> QED
    BY <1>2, <2>1, <2>2, <2>3, <2>4 DEF Part
<1>16. Unjoined(u, d2, sv2, n)
  <2> SUFFICES ASSUME n = 0, u \in Guests
               PROVE  /\ \A j \in DOMAIN q2 : q2[j].op # "join"
                      /\ \A c \in Codes : ~MemberOf(u, sv2[c])
    BY <1>2 DEF Unjoined
  <2>1. /\ \A j \in DOMAIN q : q[j].op # "join"
        /\ \A c \in Codes : ~MemberOf(u, sv[c])
    BY <1>1, <1>7 DEF Unjoined
  <2>2. w.op \notin {"create", "join"}
    BY <1>3, <1>4, <1>9, <2>1
  <2> QED
    BY <1>4, <1>8, <1>11, <2>1, <2>2
<1> QED
  BY <1>1, <1>2, <1>3, <1>10, <1>12, <1>13, <1>14, <1>15, <1>16 DEF Good

\* Who is a member after a write: u, if the write enrols u, and who was one before.
Turns(u, w, sv, sv2) ==
    /\ Effect(u, w, sv[w.code], sv2[w.code])
    /\ \A o \in Codes \ {w.code} : sv2[o] = sv[o]
    /\ w.op = "create" => sv[w.code] = NoDoc

LEMMA EffectMembers ==
    ASSUME NEW u \in Users, NEW w \in Writes, NEW c \in Codes, c = w.code,
           NEW sv, NEW sv2, Turns(u, w, sv, sv2)
    PROVE  /\ \A v \in Users \ {u} : \A o \in Codes : MemberOf(v, sv2[o]) <=> MemberOf(v, sv[o])
           /\ \A reply : (reply = "ok" => w.op = "create" \/ sv[c] # NoDoc) =>
                 Enrols(u, w.op, c, reply, sv, sv2)
<1> USE DEF Turns
<1>1. ASSUME NEW v \in Users \ {u}, NEW o \in Codes
      PROVE  MemberOf(v, sv2[o]) <=> MemberOf(v, sv[o])
  <2>1. CASE o = c
    BY <2>1 DEF Effect, MemberOf
  <2>2. CASE o # c
    BY <2>2
  <2> QED
    BY <2>1, <2>2
<1>2. ASSUME NEW o \in Codes, MemberOf(u, sv[o]) PROVE MemberOf(u, sv2[o])
  <2>1. CASE o = c
    BY <1>2, <2>1 DEF Effect, MemberOf
  <2>2. CASE o # c
    BY <1>2, <2>2
  <2> QED
    BY <2>1, <2>2
<1>3. ASSUME NEW o \in Codes, MemberOf(u, sv2[o]), w.op \notin {"create", "join"},
             w.op = "push" => MemberOf(u, sv[c])
      PROVE  MemberOf(u, sv[o])
  <2>1. CASE o = c
    BY <1>3, <2>1 DEF Effect, MemberOf
  <2>2. CASE o # c
    BY <1>3, <2>2
  <2> QED
    BY <2>1, <2>2
<1>4. ASSUME NEW o \in Codes, sv[o] = NoDoc, w.op # "create" PROVE sv2[o] = NoDoc
  BY <1>4 DEF Effect
<1>5. w.op = "create" => MemberOf(u, sv2[c])
  BY DEF Effect, MemberOf
<1>6. w.op = "join" /\ sv[c] # NoDoc => MemberOf(u, sv2[c])
  BY DEF Effect, MemberOf
<1> QED
  BY <1>1, <1>2, <1>3, <1>4, <1>5, <1>6 DEF Enrols

\* The members D of a session, and those of them, S, who have handed in their likes.
Moves(u, op, D, S, D2, S2) ==
    /\ IsFiniteSet(D) /\ S \subseteq D
    /\ op = "join" => u \notin D
    /\ op = "push" => u \in D /\ u \notin S
    /\ D2 = IF op \in {"join", "push"} THEN D \cup {u} ELSE D
    /\ S2 = IF op = "push" THEN S \cup {u} ELSE S

LEMMA Tally ==
    ASSUME NEW u, NEW op, NEW D, NEW S, NEW D2, NEW S2, Moves(u, op, D, S, D2, S2)
    PROVE  /\ IsFiniteSet(D2)
           /\ Cardinality(D2) = IF op = "join" THEN Cardinality(D) + 1 ELSE Cardinality(D)
           /\ Cardinality(S2) = IF op = "push" THEN Cardinality(S) + 1 ELSE Cardinality(S)
<1> USE DEF Moves
<1>1. IsFiniteSet(S)
  BY FS_Subset
<1>2. CASE op = "join"
  BY <1>2, FS_AddElement
<1>3. CASE op = "push"
  <2>1. D2 = D
    BY <1>3
  <2>2. Cardinality(S2) = Cardinality(S) + 1
    BY <1>1, <1>3, FS_AddElement
  <2> QED
    BY <1>3, <2>1, <2>2
<1>4. CASE op \notin {"join", "push"}
  BY <1>4
<1> QED
  BY <1>2, <1>3, <1>4

\* The server executes a write: the counters count it.
LEMMA CommitRound ==
    ASSUME OneRound, IInv, CInv, RInv, NEW u \in Users, NEW b \in BOOLEAN, Commit(u, b)
    PROVE  RInv'
<1>1. TypeOK /\ Hosts \cap Guests = {}
  BY DEF IInv, OneRound
<1>2. dev[u] \in Devices /\ store[u] \in Stores /\ Sound(dev[u], Existing)
  BY <1>1 DEF TypeOK, CInv
<1>3. Good(u, dev[u], store[u], screen[u], used[u]["join"], server)
  BY DEF RInv
<1>4. PICK q \in Seq(Writes) : q = dev[u].queue[b]
  BY <1>2, DeviceParts
<1>5. PICK i \in DOMAIN q :
        /\ q[i].reply = "none"
        /\ \A j \in 1 .. i - 1 : q[j].reply # "none"
        /\ server' = [server EXCEPT ![q[i].code] =
                        Apply(u, q[i], NumberFor(q[i], server[q[i].code]), server[q[i].code])]
        /\ dev' = [dev EXCEPT ![u].queue[b][i] =
                     [q[i] EXCEPT !.counter = NumberFor(q[i], server[q[i].code]),
                                  !.reply = IF Replaces(q[i]) \/ server[q[i].code] # NoDoc
                                            THEN "ok" ELSE "failed"]]
  BY <1>4, ZenonT(40) DEF Commit
<1>6. b = TRUE
  <2>1. dev[u].queue[FALSE] = <<>>
    BY <1>3 DEF Good, Roles
  <2>2. ASSUME b = FALSE PROVE FALSE
    <3>1. q = <<>>
      BY <1>4, <2>1, <2>2, Zenon
    <3>2. DOMAIN q = {}
      BY <3>1
    <3> QED
      BY <3>2
  <2> QED
    BY <2>2
<1>7. PICK w \in Writes : w = q[i]
  BY <1>4
<1>8. PICK c \in Codes : c = w.code
  BY WriteParts
<1>9. server[c] \in Docs \cup {NoDoc}
  BY <1>1 DEF TypeOK
<1>10. PICK n \in Int : n = NumberFor(w, server[c])
  BY <1>9, NumberForType DEF CachedDocs
<1>11. PICK new : new = Apply(u, w, n, server[c])
  OBVIOUS
<1>12. PICK a : a = IF Replaces(w) \/ server[c] # NoDoc THEN "ok" ELSE "failed"
  OBVIOUS
<1>13. server' = [server EXCEPT ![c] = new]
  BY <1>5, <1>7, <1>8, <1>10, <1>11
<1>14. w.op \notin {"leave", "delete"}
  BY <1>2, <1>4, <1>7 DEF Sound, SoundQueue, Harmless
<1>15. Effect(u, w, server[c], new)
  BY <1>9, <1>10, <1>11, <1>14, ApplyEffect
<1>16. server'[c] = new /\ \A o \in Codes \ {c} : server'[o] = server[o]
  BY <1>1, <1>13 DEF TypeOK
<1>17. PICK x : x = [w EXCEPT !.counter = n, !.reply = a]
  OBVIOUS
<1>18. x.op = w.op /\ x.code = c /\ x.reply = a
  BY <1>8, <1>17 DEF Writes
<1>19. PICK r : r = [q EXCEPT ![i] = x]
  OBVIOUS
<1>20. PICK qs : qs = [dev[u].queue EXCEPT ![b] = r]
  OBVIOUS
<1>21. PICK d : d = [dev[u] EXCEPT !.queue = qs]
  OBVIOUS
<1>22. dev' = [dev EXCEPT ![u] = d]
  BY <1>4, <1>5, <1>7, <1>8, <1>10, <1>12, <1>17, <1>19, <1>20, <1>21
<1>23. DOMAIN r = DOMAIN q /\ r[i] = x /\ \A j \in DOMAIN q \ {i} : r[j] = q[j]
  BY <1>4, <1>19
<1>24. qs[TRUE] = r /\ qs[FALSE] = dev[u].queue[FALSE]
  BY <1>2, <1>6, <1>20, DeviceParts
<1>25. d.queue = qs /\ d.user = dev[u].user /\ d.inbox = dev[u].inbox
  BY <1>2, <1>21 DEF Devices
<1>26. Executes(dev[u], i, d)
  <2>1. \A j \in DOMAIN q : j < i => q[j].reply # "none"
    BY <1>4, <1>5
  <2>2. a \in {"ok", "failed"}
    BY <1>12
  <2>3. dev[u].queue[TRUE] = q /\ d.queue[TRUE] = r /\ d.queue[FALSE] = dev[u].queue[FALSE]
    BY <1>4, <1>6, <1>24, <1>25
  <2> QED
    BY <1>5, <1>7, <1>8, <1>18, <1>23, <1>25, <2>1, <2>2, <2>3 DEF Executes
<1>27. /\ dev[u].queue[TRUE][i].op = w.op /\ dev[u].queue[TRUE][i].code = c
       /\ d.queue[TRUE][i].reply = a
  BY <1>4, <1>6, <1>7, <1>8, <1>18, <1>23, <1>24, <1>25
<1>28. w.op = "create" => server[c] = NoDoc /\ u \in Hosts /\ store[u].sessionCode = c
  <2>1. w.op = "create" => Waits(q, i, "create")
    BY <1>5, <1>7 DEF Waits
  <2>2. q = dev[u].queue[TRUE] /\ i \in DOMAIN q /\ q[i].code = c /\ q[i].op = w.op
    BY <1>4, <1>6, <1>7, <1>8
  <2> QED
    BY <1>3, <2>1, <2>2 DEF Good, QueueOrder, Roles
<1>29. w.op = "join" => \A o \in Codes : ~MemberOf(u, server[o])
  <2>1. w.op = "join" => Waits(q, i, "join")
    BY <1>5, <1>7 DEF Waits
  <2>2. q = dev[u].queue[TRUE] /\ i \in DOMAIN q
    BY <1>4, <1>6
  <2> QED
    BY <1>3, <2>1, <2>2 DEF Good, QueueOrder
<1>30. PICK sv : sv = server'
  OBVIOUS
<1>31. sv[c] = new /\ \A o \in Codes \ {c} : sv[o] = server[o]
  BY <1>16, <1>30
<1>32. /\ \A v \in Users \ {u} : \A o \in Codes : MemberOf(v, sv[o]) <=> MemberOf(v, server[o])
       /\ Enrols(u, w.op, c, a, server, sv)
  <2>1. a = "ok" => w.op = "create" \/ server[c] # NoDoc
    BY <1>12, <1>14 DEF Replaces
  <2>2. Effect(u, w, server[c], sv[c])
    BY <1>15, <1>31
  <2>3. Turns(u, w, server, sv)
    BY <1>8, <1>28, <1>31, <2>2 DEF Turns
  <2> QED
    BY <1>8, <2>1, <2>3, EffectMembers
<1>33. /\ Good(u, d, store[u], screen[u], used[u]["join"], sv)
       /\ HandsIn(d, store[u]) <=> HandsIn(dev[u], store[u]) \/ w.op = "push"
       /\ w.op = "push" => ~HandsIn(dev[u], store[u]) /\ MemberOf(u, server[c])
  <2>1. Enrols(u, dev[u].queue[TRUE][i].op, dev[u].queue[TRUE][i].code,
               d.queue[TRUE][i].reply, server, sv)
    BY <1>27, <1>32, Zenon
  <2>2. PICK e \in Devices : e = dev[u]
    BY <1>2
  <2>3. PICK s \in Stores : s = store[u]
    BY <1>2
  <2>4. PICK top : top = screen[u]
    OBVIOUS
  <2>5. PICK joins : joins = used[u]["join"]
    OBVIOUS
  <2>6. Good(u, e, s, top, joins, server) /\ Executes(e, i, d)
    BY <1>3, <1>26, <2>2, <2>3, <2>4, <2>5
  <2>7. Enrols(u, e.queue[TRUE][i].op, e.queue[TRUE][i].code, d.queue[TRUE][i].reply, server, sv)
    BY <2>1, <2>2
  <2>8. /\ Good(u, d, s, top, joins, sv)
        /\ HandsIn(d, s) <=> HandsIn(e, s) \/ e.queue[TRUE][i].op = "push"
        /\ e.queue[TRUE][i].op = "push" => ~HandsIn(e, s) /\ MemberOf(u, server[e.queue[TRUE][i].code])
    BY <1>1, <2>6, <2>7, GoodExecuted
  <2> QED
    BY <1>27, <2>2, <2>3, <2>4, <2>5, <2>8
<1>34. /\ UNCHANGED <<store, screen, used>>
       /\ dev'[u] = d /\ \A v \in Users \ {u} : dev'[v] = dev[v]
  BY <1>1, <1>22 DEF Commit, TypeOK
<1>35. ASSUME NEW v \in Users
       PROVE  Good(v, dev'[v], store'[v], screen'[v], used'[v]["join"], server')
  <2>1. CASE v = u
    BY <1>30, <1>33, <1>34, <2>1
  <2>2. CASE v # u
    <3>1. /\ Good(v, dev[v], store[v], screen[v], used[v]["join"], server)
          /\ dev[v] \in Devices /\ store[v] \in Stores
      BY <1>1 DEF RInv, TypeOK
    <3>2. ASSUME NEW j \in DOMAIN dev[v].queue[TRUE], dev[v].queue[TRUE][j].op = "create",
                 server[dev[v].queue[TRUE][j].code] = NoDoc
          PROVE  sv[dev[v].queue[TRUE][j].code] = NoDoc
      <4>1. v \in Hosts
        BY <3>1, <3>2 DEF Good, Roles
      <4>2. w.op # "create"
        BY <1>28, <2>2, <4>1 DEF OneRound
      <4>3. dev[v].queue[TRUE][j].code \in Codes
        <5>1. PICK qv \in Seq(Writes) : qv = dev[v].queue[TRUE]
          BY <3>1, DeviceParts
        <5>2. j \in DOMAIN qv
          BY <5>1
        <5>3. qv[j] \in Writes
          BY <5>2
        <5> QED
          BY <5>1, <5>3, WriteParts
      <4> QED
        BY <1>32, <3>2, <4>2, <4>3 DEF Enrols
    <3>3. Good(v, dev[v], store[v], screen[v], used[v]["join"], sv)
      BY <1>32, <2>2, <3>1, <3>2, GoodOther
    <3> QED
      BY <1>30, <1>34, <2>2, <3>3
  <2> QED
    BY <2>1, <2>2
<1>36. OneSession'
  <2> SUFFICES ASSUME NEW o \in Codes, sv[o] # NoDoc
               PROVE  \E v \in Hosts : store[v].sessionCode = o
    BY <1>30, <1>34 DEF OneSession
  <2>1. CASE server[o] # NoDoc
    BY <2>1 DEF RInv, OneSession
  <2>2. CASE server[o] = NoDoc
    BY <1>28, <1>31, <1>32, <2>2 DEF Enrols
  <2> QED
    BY <2>1, <2>2
<1>37. Tallies'
  <2> SUFFICES ASSUME NEW o \in Codes, server'[o] # NoDoc
               PROVE  /\ IsFiniteSet(DOMAIN server'[o].likes)
                      /\ server'[o].participants = Cardinality(DOMAIN server'[o].likes)
                      /\ server'[o].finishedPushing =
                           Cardinality({v \in DOMAIN server'[o].likes : HandsIn(dev'[v], store'[v])})
    BY DEF Tallies, HandsIn
  <2>a. store' = store
    BY <1>34
  <2>b. {v \in DOMAIN server'[o].likes : HandsIn(dev'[v], store'[v])} =
          {v \in DOMAIN sv[o].likes : HandsIn(dev'[v], store[v])}
    BY <1>30, <2>a
  <2> SUFFICES /\ IsFiniteSet(DOMAIN sv[o].likes)
               /\ sv[o].participants = Cardinality(DOMAIN sv[o].likes)
               /\ sv[o].finishedPushing =
                    Cardinality({v \in DOMAIN sv[o].likes : HandsIn(dev'[v], store[v])})
    BY <1>30, <2>b
  <2> sv[o] # NoDoc
    BY <1>30
  <2>1. \A x0 \in Docs : DOMAIN x0.likes \subseteq Users
    BY DEF Docs, LikesMaps
  <2>2. \A o2 \in Codes : server[o2] # NoDoc /\ server[o] # NoDoc => o2 = o
    BY DEF RInv, OneSession, OneRound
  <2>3. HandsIn(dev[u], store[u]) => \E o2 \in Codes : MemberOf(u, server[o2])
    BY <1>3 DEF Good, Part
  <2>4. PICK S : S = {v \in DOMAIN server[o].likes : HandsIn(dev[v], store[v])}
    OBVIOUS
  <2>5. PICK S2 : S2 = {v \in DOMAIN sv[o].likes : HandsIn(dev'[v], store[v])}
    OBVIOUS
  <2>6. \A v \in Users \ {u} : HandsIn(dev'[v], store[v]) <=> HandsIn(dev[v], store[v])
    BY <1>34
  <2>7. HandsIn(dev'[u], store[u]) <=> HandsIn(dev[u], store[u]) \/ w.op = "push"
    BY <1>33, <1>34
  <2>8. server[o] # NoDoc =>
           /\ server[o] \in Docs /\ DOMAIN server[o].likes \subseteq Users
           /\ IsFiniteSet(DOMAIN server[o].likes)
           /\ server[o].participants = Cardinality(DOMAIN server[o].likes)
           /\ server[o].finishedPushing = Cardinality(S)
    BY <1>1, <2>1, <2>4 DEF TypeOK, RInv, Tallies
  <2>9. CASE o # c
    <3>1. sv[o] = server[o] /\ server[o] # NoDoc
      BY <1>31, <2>9
    <3>2. w.op # "push"
      BY <1>33, <2>2, <2>9, <3>1 DEF MemberOf
    <3>3. S2 = S
      BY <2>4, <2>5, <2>6, <2>7, <2>8, <3>1, <3>2
    <3> QED
      BY <2>5, <2>8, <3>1, <3>3
  <2>10. CASE o = c /\ w.op = "create"
    <3>1. /\ DOMAIN sv[o].likes = {u} /\ sv[o].participants = 1 /\ sv[o].finishedPushing = 0
      BY <1>15, <1>31, <2>10 DEF Effect
    <3>2. \A o2 \in Codes : ~MemberOf(u, server[o2])
      <4> SUFFICES ASSUME NEW o2 \in Codes, server[o2] # NoDoc PROVE FALSE
        BY DEF MemberOf
      <4>1. PICK h \in Hosts : store[h].sessionCode = o2
        BY DEF RInv, OneSession
      <4>2. h = u
        BY <1>28, <2>10 DEF OneRound
      <4> QED
        BY <1>28, <2>10, <4>1, <4>2
    <3>3. S2 = {}
      BY <2>3, <2>5, <2>7, <2>10, <3>1, <3>2
    <3>4. Cardinality(S2) = 0
      BY <3>3, FS_EmptySet
    <3>5. IsFiniteSet({u}) /\ Cardinality({u}) = 1
      BY FS_Singleton
    <3> QED
      BY <2>5, <3>1, <3>4, <3>5
  <2>11. CASE o = c /\ w.op # "create"
    <3>1. server[c] # NoDoc
      BY <1>15, <1>31, <2>11 DEF Effect
    <3>2. PICK D : D = DOMAIN server[c].likes
      OBVIOUS
    <3>3. PICK D2 : D2 = DOMAIN new.likes
      OBVIOUS
    <3>4. /\ D2 = IF w.op \in {"join", "push"} THEN D \cup {u} ELSE D
          /\ new.participants = IF w.op = "join" THEN server[c].participants + 1
                                ELSE server[c].participants
          /\ new.finishedPushing = IF w.op = "push" THEN server[c].finishedPushing + 1
                                   ELSE server[c].finishedPushing
      BY <1>15, <2>11, <3>1, <3>2, <3>3 DEF Effect
    <3>5. w.op = "join" => u \notin D /\ ~HandsIn(dev[u], store[u])
      BY <1>29, <2>3, <3>1, <3>2 DEF MemberOf
    <3>6. S \in SUBSET D /\ D \subseteq Users /\ IsFiniteSet(D)
      BY <2>4, <2>8, <2>11, <3>1, <3>2
    <3>7. w.op = "push" => u \in D /\ u \notin S
      BY <1>33, <2>4, <3>2 DEF MemberOf
    <3>8. S2 = IF w.op = "push" THEN S \cup {u} ELSE S
      <4>1. S = {v \in D : HandsIn(dev[v], store[v])}
        BY <2>4, <2>11, <3>2
      <4>2. S2 = {v \in D2 : HandsIn(dev'[v], store[v])}
        BY <1>31, <2>5, <2>11, <3>3
      <4>3. CASE w.op = "push"
        BY <2>6, <2>7, <3>4, <3>6, <3>7, <4>1, <4>2, <4>3
      <4>4. CASE w.op = "join"
        BY <2>6, <2>7, <3>4, <3>5, <3>6, <4>1, <4>2, <4>4
      <4>5. CASE w.op \notin {"join", "push"}
        BY <2>6, <2>7, <3>4, <3>6, <4>1, <4>2, <4>5
      <4> QED
        BY <4>3, <4>4, <4>5
    <3>9. /\ IsFiniteSet(D2)
          /\ Cardinality(D2) = IF w.op = "join" THEN Cardinality(D) + 1 ELSE Cardinality(D)
          /\ Cardinality(S2) = IF w.op = "push" THEN Cardinality(S) + 1 ELSE Cardinality(S)
      <4>1. Moves(u, w.op, D, S, D2, S2)
        BY <3>4, <3>5, <3>6, <3>7, <3>8 DEF Moves
      <4> QED
        BY <4>1, Tally
    <3> QED
      BY <1>31, <2>5, <2>8, <2>11, <3>1, <3>2, <3>3, <3>4, <3>9
  <2> QED
    BY <2>9, <2>10, <2>11
<1> QED
  BY <1>35, <1>36, <1>37 DEF RInv

------------------------------------------------------------------------------

LEMMA RInvariance == ASSUME OneRound PROVE Spec => []RInv
<1>1. Init => RInv
  <2> SUFFICES ASSUME Init PROVE RInv
    OBVIOUS
  <2>1. \A c \in Codes : server[c] = NoDoc
    BY DEF Init
  <2>2. ASSUME NEW u \in Users
        PROVE  Good(u, dev[u], store[u], screen[u], used[u]["join"], server)
    <3>1. /\ dev[u] = NewDevice /\ store[u] = NewStore(TRUE) /\ screen[u] = "home"
      BY DEF Init
    <3>2. /\ dev[u].user = TRUE /\ dev[u].queue[TRUE] = <<>> /\ dev[u].queue[FALSE] = <<>>
          /\ dev[u].inbox = <<>>
      BY <3>1 DEF NewDevice
    <3>3. store[u].sessionCode = NoCode /\ ~store[u].pushed
      BY <3>1 DEF NewStore
    <3>4. DOMAIN dev[u].queue[TRUE] = {} /\ DOMAIN dev[u].inbox = {}
      BY <3>2
    <3>5. QueueOrder(u, dev[u].queue[TRUE], server)
      BY <3>4 DEF QueueOrder
    <3>6. Roles(u, dev[u], store[u], screen[u])
      BY <3>1, <3>2, <3>4 DEF Roles
    <3>7. Part(u, dev[u], store[u], server)
      BY <3>3, <3>4 DEF Part, HandsIn
    <3>8. Unjoined(u, dev[u], server, used[u]["join"])
      BY <2>1, <3>4 DEF Unjoined, MemberOf
    <3> QED
      BY <3>5, <3>6, <3>7, <3>8 DEF Good
  <2> QED
    BY <2>1, <2>2 DEF RInv, OneSession, Tallies
<1>2. IInv /\ MInv /\ CInv /\ RInv /\ [Next]_vars => RInv'
  <2> SUFFICES ASSUME IInv, MInv, CInv, RInv, [Next]_vars PROVE RInv'
    OBVIOUS
  <2>1. CASE UNCHANGED vars
    BY <2>1 DEF vars, RInv, OneSession, Tallies, HandsIn
  <2>2. CASE Next
    <3>1. PICK u \in Users :
            \/ OpenCreate(u) \/ OpenJoin(u)
            \/ LeaveCreateScreen(u) \/ LeaveJoinScreen(u)
            \/ SignOut(u) \/ HearSignOut(u) \/ SignIn(u) \/ Quit(u) \/ Launch(u)
            \/ \E c \in Codes : CreateSession(u, c)
            \/ \E c \in Codes : JoinSession(u, c)
            \/ \E t \in TimeLimits, r \in Radii : Start(u, t, r)
            \/ ReceiveRestaurants(u) \/ FetchFails(u)
            \/ \E r \in Restaurants : LikeRestaurant(u, r)
            \/ EndSession(u)
            \/ Joined(u) \/ Left(u) \/ Deleted(u) \/ SnapshotGone(u) \/ SnapshotData(u)
            \/ \E b \in BOOLEAN : Commit(u, b)
            \/ Ack(u)
            \/ \E c \in Codes : Sync(u, c) \/ GoOffline(u, c)
      BY <2>2, Zenon DEF Next
    <3>2. ~Left(u) /\ ~Deleted(u) /\ ~SnapshotGone(u)
      BY OnlyWelcome
    <3> QED
      BY <3>1, <3>2, NavigationRound, OperationRound, JoinedRound, SnapshotDataRound,
         CommitRound, DeliveryRound, Zenon
  <2> QED
    BY <2>1, <2>2
<1>3. OneRound => Calm
  BY DEF OneRound
<1> QED
  BY <1>1, <1>2, <1>3, Invariance, MInvariance, CInvariance, PTL DEF Spec

\* In a round with one host, in which nobody goes away and nobody taps Join twice,
\* "participants" is the number of members and "finishedPushing" the number of members
\* whose final likes the server has, at every moment and for every number of guests:
\* the comparison of the two at SessionStore.swift:194 means that everybody is done.
THEOREM CountsEverybody == ASSUME OneRound PROVE Spec => []CountersAgree
<1>1. IInv /\ RInv => CountersAgree
  <2> SUFFICES ASSUME IInv, RInv, NEW c \in Codes, server[c] # NoDoc
               PROVE  /\ server[c].participants = Cardinality(DOMAIN server[c].likes)
                      /\ server[c].finishedPushing =
                           Cardinality({u \in DOMAIN server[c].likes :
                                            store[u].pushed /\ ~HasPending(u, "push")})
    BY DEF CountersAgree
  <2>1. DOMAIN server[c].likes \subseteq Users
    <3>1. server[c] \in Docs
      BY DEF IInv, TypeOK
    <3> QED
      BY <3>1 DEF Docs, LikesMaps
  <2>2. ASSUME NEW u \in Users
        PROVE  HandsIn(dev[u], store[u]) <=> store[u].pushed /\ ~HasPending(u, "push")
    <3>1. DOMAIN dev[u].queue[FALSE] = {}
      <4>1. dev[u].queue[FALSE] = <<>>
        BY DEF RInv, Good, Roles
      <4> QED
        BY <4>1
    <3>2. HasPending(u, "push") <=>
            \E i \in DOMAIN dev[u].queue[TRUE] : Waits(dev[u].queue[TRUE], i, "push")
      BY <3>1 DEF HasPending, Waits
    <3> QED
      BY <3>2 DEF HandsIn
  <2>3. {u \in DOMAIN server[c].likes : store[u].pushed /\ ~HasPending(u, "push")} =
        {u \in DOMAIN server[c].likes : HandsIn(dev[u], store[u])}
    BY <2>1, <2>2
  <2> QED
    BY <2>3 DEF RInv, Tallies
<1> QED
  BY <1>1, Invariance, RInvariance, PTL
==============================================================================
