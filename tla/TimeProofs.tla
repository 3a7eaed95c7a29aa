------------------------------ MODULE TimeProofs ------------------------------
(***************************************************************************)
(* With one host who stays signed in, the countdown of a live session      *)
(* starts from the time that the host chose: CountsDownChosenTime for every*)
(* set of users, codes and restaurants and for every bound, whoever goes   *)
(* back, closes the app or is offline and whichever guest signs out.  A    *)
(* host who signs out turns to a second queue, and the argument below is   *)
(* about one.                                                              *)
(*                                                                         *)
(* The argument: start() queues the time, the radius and the start next to *)
(* each other, and a queue is executed, answered and acknowledged in order;*)
(* so where the start has been executed or is shown, the time has been too,*)
(* or the document is missing and the start changes nothing.  Only the     *)
(* host's own writes make a new document, whose time is the default, and   *)
(* they are in the same queue.                                             *)
(***************************************************************************)
EXTENDS MirrorProofs

\* The writes that make or remove a document, set its time or make it live.
HostOps == {"create", "delete", "time", "start"}

\* A document that may go live: its time is one that the host chose.
Chosen(x) == Missing(x) \/ x.time \in TimeLimits

\* A document that is not live with another time than a chosen one.
Timed(x) == Missing(x) \/ ~x.live \/ x.time \in TimeLimits

\* After the i-th write of the queue q the same document is replaced by a write
\* with one of the answers R.
Renewed(q, i, R) == \E j \in DOMAIN q : /\ j > i /\ Replaces(q[j])
                                        /\ q[j].code = q[i].code /\ q[j].reply \in R

\* A queue is executed in order, and the documents sent include the executed
\* writes in order.
Ordered(q) == \A i, j \in DOMAIN q : i < j =>
                  /\ q[i].reply = "none" => q[j].reply = "none"
                  /\ q[i].code = q[j].code /\ q[j].reply = "seen" => q[i].reply # "ok"

\* start() queues its three writes next to each other; the first ones may have
\* been acknowledged.
Grouped(q) == \A i \in DOMAIN q :
                  /\ q[i].op = "time" => /\ q[i].num \in TimeLimits
                                         /\ q[i].reply # "none" => q[i].counter \in TimeLimits
                  /\ q[i].op = "start" =>
                        /\ i > 1 => q[i - 1].op = "radius"
                        /\ i > 2 => q[i - 2].op = "time" /\ q[i - 2].code = q[i].code
                  /\ Replaces(q[i]) => q[i].reply # "failed"

\* The time before the start at i has been acknowledged, or has an answer of R.
TimeIs(q, i, R) == q[i].op = "start" /\ (i > 2 => q[i - 2].reply \in R)

TimeFailed(q, i) == q[i].op = "time" /\ q[i].reply = "failed"

\* What the executed writes of the queue q have made of the server's documents sv.
Executed(q, sv) ==
    \A i \in DOMAIN q : ~Renewed(q, i, {"ok", "seen"}) =>
        /\ TimeIs(q, i, {"ok", "seen", "failed"}) => Chosen(sv[q[i].code])
        /\ TimeFailed(q, i) => sv[q[i].code] = NoDoc

Succeeded(w, op, c) == w.op = op /\ w.code = c /\ w.reply = "ok"

\* With the answers to the writes before the n-th the cache will not have c.
Gone(q, cache, c, n) ==
    /\ ~Missing(cache[c]) => \E k \in DOMAIN q : k < n /\ Succeeded(q[k], "delete", c)
    /\ \A i \in DOMAIN q : i < n /\ Succeeded(q[i], "create", c) =>
          \E k \in DOMAIN q : i < k /\ k < n /\ Succeeded(q[k], "delete", c)

\* What the acknowledged and seen writes have made of the cache.
Cached(q, cache) ==
    \A i \in DOMAIN q : ~Renewed(q, i, {"seen"}) =>
        /\ TimeIs(q, i, {"seen"}) => Chosen(cache[q[i].code])
        /\ TimeFailed(q, i) => Gone(q, cache, q[i].code, i)

Queued(q, cache, sv) == Ordered(q) /\ Grouped(q) /\ Executed(q, sv) /\ Cached(q, cache)

\* What a device has of the documents.
Views(d) == /\ \A c \in Codes : Timed(d.cache[c]) /\ Timed(d.shown[c])
            /\ \A i \in DOMAIN d.inbox : Timed(d.inbox[i].data)

\* The queues of user u's device and its cache when the server has the documents
\* sv.  Only the host's queue has host writes; it has removed what the server lacks.
Orderly(u, queue, cache, sv) ==
    /\ \A b \in BOOLEAN : Queued(queue[b], cache, sv)
    /\ \A b \in BOOLEAN : \A i \in DOMAIN queue[b] :
          queue[b][i].op \in HostOps => b = TRUE /\ u \in Hosts
    /\ u \in Hosts => \A c \in Codes : sv[c] = NoDoc =>
          Gone(queue[TRUE], cache, c, Len(queue[TRUE]) + 1)

Timely(u, d, sv) == Views(d) /\ Orderly(u, d.queue, d.cache, sv)

\* Only a host has the CreateSession screen, and is signed in.
Authorised(u, d, s, x) == /\ u \in Hosts => s.session /\ d.user
                          /\ x = "create" => u \in Hosts

\* There is one host at most, and nobody signs the host out.
OneHost == \A u \in Hosts : Limit[u]["sign"] = 0 /\ \A v \in Hosts : u = v

TInv == /\ \A c \in Codes : Timed(server[c])
        /\ \A u \in Users : /\ Timely(u, dev[u], server)
                            /\ Authorised(u, dev[u], store[u], screen[u])
                            /\ store[u].sessionLive => store[u].time \in TimeLimits

------------------------------------------------------------------------------
(* Documents *)

\* What a patch makes of the fields "live" and "time".
LEMMA PatchTime ==
    ASSUME NEW u \in Users, NEW w \in Writes, NEW n \in Int, NEW d \in Docs, ~Replaces(w)
    PROVE  /\ Patch(u, w, n, d).live = IF w.op = "start" THEN TRUE
                                       ELSE IF w.op = "end" THEN FALSE ELSE d.live
           /\ Patch(u, w, n, d).time = IF w.op = "time" THEN n ELSE d.time
<1>1. w.op \in {"join", "leave", "push", "end", "result", "start", "list", "time", "radius"}
  BY WriteParts DEF Ops, Replaces
<1>2. CASE w.op = "join"
  BY <1>2 DEF Patch, Docs
<1>3. CASE w.op = "leave"
  BY <1>3 DEF Patch, Docs
<1>4. CASE w.op = "push"
  BY <1>4 DEF Patch, Docs
<1>5. CASE w.op \in {"end", "start", "list"}
  BY <1>5 DEF Patch, Docs
<1>6. CASE w.op \in {"result", "time", "radius"}
  BY <1>6 DEF Patch, Docs
<1> QED
  BY <1>1, <1>2, <1>3, <1>4, <1>5, <1>6

\* A new document is not live, and it is one.
LEMMA NewDocTimed ==
    ASSUME NEW u \in Users
    PROVE  NewDoc(u) \in Docs /\ ~Missing(NewDoc(u)) /\ Timed(NewDoc(u)) /\ ~NewDoc(u).live
<1>1. NewDoc(u) \in Docs
  BY NewDocType
<1>2. ~NewDoc(u).live
  BY DEF NewDoc
<1> QED
  BY <1>1, <1>2, MissingAssumption DEF Missing, Timed

\* The write w may be applied to the document x with the number n.
Applicable(w, n, x) == /\ w \in Writes /\ n \in Int /\ x \in CachedDocs
                       /\ w.op = "time" => n \in TimeLimits

\* What a write makes of the document x.
LEMMA ApplyTime ==
    ASSUME NEW u \in Users, NEW w, NEW n, NEW x, Applicable(w, n, x)
    PROVE  /\ Timed(x) /\ (w.op = "start" => Chosen(x)) => Timed(Apply(u, w, n, x))
           /\ w.op # "create" /\ Chosen(x) => Chosen(Apply(u, w, n, x))
           /\ w.op = "time" => Chosen(Apply(u, w, n, x))
           /\ w.op \notin {"create", "delete"} => (Missing(Apply(u, w, n, x)) <=> Missing(x))
           /\ w.op \notin {"create", "delete"} /\ Missing(x) => Apply(u, w, n, x) = x
           /\ w.op = "create" => ~Missing(Apply(u, w, n, x))
           /\ w.op = "delete" => Apply(u, w, n, x) = NoDoc
<1>1. w \in Writes /\ n \in Int /\ x \in CachedDocs /\ (w.op = "time" => n \in TimeLimits)
  BY DEF Applicable
<1>2. CASE w.op = "create"
  <2>1. Apply(u, w, n, x) = NewDoc(u)
    BY <1>2 DEF Apply, Replaces
  <2> QED
    BY <1>2, <2>1, NewDocTimed
<1>3. CASE w.op = "delete"
  <2>1. Apply(u, w, n, x) = NoDoc
    BY <1>3 DEF Apply, Replaces
  <2> QED
    BY <1>3, <2>1 DEF Missing, Timed, Chosen
<1>4. CASE ~Replaces(w) /\ Missing(x)
  <2>1. Apply(u, w, n, x) = x
    BY <1>4 DEF Apply, Replaces
  <2> QED
    BY <1>4, <2>1 DEF Timed, Chosen, Replaces
<1>5. CASE ~Replaces(w) /\ ~Missing(x)
  <2>1. x \in Docs
    BY <1>1, <1>5 DEF CachedDocs, Missing
  <2>2. PICK y : y = Patch(u, w, n, x)
    OBVIOUS
  <2>3. Apply(u, w, n, x) = y
    BY <1>5, <2>2 DEF Apply, Replaces
  <2>4. y \in Docs
    BY <1>1, <1>5, <2>1, <2>2, PatchType
  <2>5. ~Missing(y)
    BY <2>4, MissingAssumption DEF Missing
  <2>6. /\ y.live = IF w.op = "start" THEN TRUE ELSE IF w.op = "end" THEN FALSE ELSE x.live
        /\ y.time = IF w.op = "time" THEN n ELSE x.time
    BY <1>1, <1>5, <2>1, <2>2, PatchTime
  <2> QED
    BY <1>1, <1>5, <2>3, <2>5, <2>6 DEF Timed, Chosen, Replaces
<1> QED
  BY <1>2, <1>3, <1>4, <1>5 DEF Replaces

\* A device shows no document that is live without a chosen time.
LEMMA OverlayTimed ==
    ASSUME NEW u \in Users, NEW q \in Seq(Writes), NEW c \in Codes, NEW cache \in [Codes -> CachedDocs],
           Timed(cache[c]), Grouped(q), Cached(q, cache)
    PROVE  Timed(Overlay(u, q, c, cache[c]))
<1> DEFINE remote == cache[c]
           on == {i \in DOMAIN q : q[i].code = c}
           whole == {i \in on : Replaces(q[i])}
           start == IF whole = {} THEN remote ELSE Apply(u, q[Max(whole)], 0, NoDoc)
           By(f) == {i \in on : f \in Assigns(q[i]) /\ \A j \in whole : j < i}
           Field(f) == IF By(f) = {} THEN start[f]
                       ELSE LET w == q[Max(By(f))] IN Patch(u, w, w.num, start)[f]
<1>1. DOMAIN q = 1 .. Len(q) /\ Len(q) \in Nat /\ \A i \in 1 .. Len(q) : q[i] \in Writes
  OBVIOUS
<1>2. start \in CachedDocs /\ Timed(start) /\ (whole # {} => Missing(start) \/ ~start.live)
  <2>1. CASE whole = {}
    BY <2>1
  <2>2. CASE whole # {}
    <3>1. whole \in SUBSET (1 .. Len(q))
      BY <1>1
    <3>2. PICK m : m = Max(whole)
      OBVIOUS
    <3>3. m \in whole
      <4> HIDE DEF whole
      <4> QED
        BY <1>1, <2>2, <3>1, <3>2, MaxType
    <3>4. q[m] \in Writes /\ q[m].op \in {"create", "delete"}
      BY <1>1, <3>1, <3>3 DEF Replaces
    <3>5. start = NewDoc(u) \/ start = NoDoc
      BY <2>2, <3>2, <3>4 DEF Apply, Replaces
    <3> HIDE DEF start, whole
    <3> QED
      BY <3>5, NewDocTimed DEF CachedDocs, Missing, Timed
  <2> QED
    BY <2>1, <2>2
<1>3. Overlay(u, q, c, remote) =
        IF Missing(start) THEN start
        ELSE [participants    |-> Field("participants"),
              live            |-> Field("live"),
              likes           |-> Field("likes"),
              result          |-> Field("result"),
              finished        |-> Field("finished"),
              restaurantList  |-> Field("restaurantList"),
              finishedPushing |-> Field("finishedPushing"),
              time            |-> Field("time"),
              radius          |-> Field("radius")]
  BY Zenon DEF Overlay
<1>4. CASE Missing(start)
  BY <1>2, <1>3, <1>4
<1>5. CASE ~Missing(start)
  <2>1. start \in Docs
    BY <1>2, <1>5 DEF Missing, CachedDocs
  <2>2. ASSUME NEW f, By(f) # {}
        PROVE  /\ Max(By(f)) \in By(f)
               /\ Field(f) = Patch(u, q[Max(By(f))], q[Max(By(f))].num, start)[f]
    <3>1. By(f) \in SUBSET (1 .. Len(q))
      BY <1>1
    <3>2. Max(By(f)) \in By(f)
      <4> HIDE DEF By
      <4> QED
        BY <1>1, <2>2, <3>1, MaxType
    <3>3. Field(f) = Patch(u, q[Max(By(f))], q[Max(By(f))].num, start)[f]
      BY <2>2, Zenon
    <3> QED
      BY <3>2, <3>3
  <2>3. By("time") # {} => Field("time") \in TimeLimits
    <3> SUFFICES ASSUME By("time") # {} PROVE Field("time") \in TimeLimits
      OBVIOUS
    <3>1. PICK k : k = Max(By("time"))
      OBVIOUS
    <3>2. k \in By("time") /\ Field("time") = Patch(u, q[k], q[k].num, start)["time"]
      BY <2>2, <3>1
    <3>3. q[k] \in Writes /\ "time" \in Assigns(q[k]) /\ k \in DOMAIN q
      BY <1>1, <3>2
    <3>4. q[k].op = "time"
      BY <3>3 DEF Assigns
    <3>5. Patch(u, q[k], q[k].num, start).time = q[k].num
      <4>1. q[k].num \in Int /\ ~Replaces(q[k])
        BY <3>3, <3>4, WriteParts DEF Replaces
      <4> HIDE DEF start
      <4> QED
        BY <2>1, <3>3, <3>4, <4>1, PatchTime
    <3>6. q[k].num \in TimeLimits
      BY <3>3, <3>4 DEF Grouped
    <3> HIDE DEF Field, start, By
    <3> QED
      BY <3>2, <3>5, <3>6
  <2>4. By("time") = {} => Field("time") = start.time
    OBVIOUS
  <2>5. ASSUME Field("live") PROVE Field("time") \in TimeLimits
    <3>1. CASE By("live") = {}
      <4>1. Field("live") = start.live
        BY <3>1
      <4>2. start.time \in TimeLimits
        BY <1>2, <1>5, <2>5, <4>1 DEF Timed
      <4> HIDE DEF Field, start, By
      <4> QED
        BY <2>3, <2>4, <4>2
    <3>2. CASE By("live") # {}
      <4>1. PICK m : m = Max(By("live"))
        OBVIOUS
      <4>2. m \in By("live") /\ Field("live") = Patch(u, q[m], q[m].num, start)["live"]
        BY <2>2, <3>2, <4>1
      <4>3. /\ q[m] \in Writes /\ "live" \in Assigns(q[m]) /\ m \in 1 .. Len(q) /\ q[m].code = c
            /\ \A j \in whole : j < m
        BY <1>1, <4>2
      <4>4. q[m].op \in {"start", "end"}
        BY <4>3 DEF Assigns
      <4>5. q[m].op = "start"
        <5>0. q[m].num \in Int /\ ~Replaces(q[m])
          BY <4>3, <4>4, WriteParts DEF Replaces
        <5> HIDE DEF Field, start, By
        <5>1. q[m].op = "end" => Patch(u, q[m], q[m].num, start).live = FALSE
          <6>1. PICK w \in Writes : w = q[m]
            BY <4>3
          <6>2. PICK x \in Docs : x = start
            BY <2>1
          <6>3. PICK n \in Int : n = w.num
            BY <5>0, <6>1
          <6>4. ~Replaces(w)
            BY <5>0, <6>1
          <6>5. w.op = "end" => Patch(u, w, n, x).live = FALSE
            BY <6>4, PatchTime
          <6> QED
            BY <6>1, <6>2, <6>3, <6>5
        <5> QED
          BY <2>5, <4>2, <4>4, <5>1
      <4>6. CASE m > 2
        <5>1. /\ m - 2 \in DOMAIN q /\ m - 1 \in DOMAIN q /\ q[m - 1].op = "radius"
              /\ q[m - 2].op = "time" /\ q[m - 2].code = c
          BY <1>1, <4>3, <4>5, <4>6 DEF Grouped
        <5>2. "time" \in Assigns(q[m - 2])
          BY <5>1 DEF Assigns
        <5>3. \A j \in whole : j < m - 2
          <6> SUFFICES ASSUME NEW j \in whole PROVE j < m - 2
            OBVIOUS
          <6>1. j \in 1 .. Len(q) /\ j < m /\ q[j].op \in {"create", "delete"}
            BY <1>1, <4>3 DEF Replaces
          <6>2. j # m - 1 /\ j # m - 2
            BY <5>1, <6>1
          <6> QED
            BY <4>3, <6>1, <6>2
        <5>4. m - 2 \in By("time")
          BY <5>1, <5>2, <5>3
        <5> HIDE DEF Field, start, By
        <5> QED
          BY <2>3, <5>4
      <4>7. CASE m <= 2
        <5>1. whole = {}
          <6> SUFFICES ASSUME NEW j \in whole PROVE FALSE
            OBVIOUS
          <6>1. j \in 1 .. Len(q) /\ j < m /\ q[j].op \in {"create", "delete"}
            BY <1>1, <4>3 DEF Replaces
          <6>2. m = 2 /\ j = 1
            BY <4>3, <4>7, <6>1
          <6>3. q[1].op = "radius"
            BY <1>1, <4>3, <4>5, <6>2 DEF Grouped
          <6> QED
            BY <6>1, <6>2, <6>3
        <5>2. ~Renewed(q, m, {"seen"})
          <6> SUFFICES ASSUME NEW j \in DOMAIN q, j > m, Replaces(q[j]), q[j].code = q[m].code
                       PROVE  FALSE
            BY DEF Renewed
          <6>1. j \in whole
            BY <4>3
          <6> HIDE DEF whole
          <6> QED
            BY <5>1, <6>1
        <5>3. TimeIs(q, m, {"seen"})
          BY <4>3, <4>5, <4>7 DEF TimeIs
        <5>4. Chosen(remote)
          BY <4>3, <5>2, <5>3 DEF Cached
        <5>5. start.time \in TimeLimits
          BY <1>5, <5>1, <5>4 DEF Chosen
        <5> HIDE DEF Field, start, By
        <5>6. CASE By("time") = {}
          BY <2>4, <5>5, <5>6, Zenon
        <5> QED
          BY <2>3, <5>6, Zenon
      <4>8. m > 2 \/ m <= 2
        BY <4>3
      <4> QED
        BY <4>6, <4>7, <4>8, Zenon
    <3> QED
      BY <3>1, <3>2
  <2> HIDE DEF Field, start
  <2>6. Overlay(u, q, c, remote).live = Field("live") /\ Overlay(u, q, c, remote).time = Field("time")
    BY <1>3, <1>5
  <2> QED
    BY <2>5, <2>6 DEF Timed
<1> QED
  BY <1>4, <1>5

------------------------------------------------------------------------------
(* Queues *)

\* The queue q2 is q with the write w at its end.
Longer(q, q2, w) == /\ Len(q) \in Nat /\ DOMAIN q = 1 .. Len(q) /\ DOMAIN q2 = 1 .. Len(q) + 1
                    /\ \A i \in 1 .. Len(q) : q2[i] = q[i]
                    /\ q2[Len(q) + 1] = w

\* The write w may be queued after q.
Proper(q, w) == /\ w.reply = "none"
                /\ w.op = "time" => w.num \in TimeLimits
                /\ w.op = "start" => /\ Len(q) >= 2 /\ q[Len(q)].op = "radius"
                                     /\ q[Len(q) - 1].op = "time" /\ q[Len(q) - 1].reply = "none"
                                     /\ q[Len(q) - 1].code = w.code

\* A write is queued.
LEMMA AppendQueued ==
    ASSUME NEW q, NEW q2, NEW w, NEW cache, NEW sv, Queued(q, cache, sv), Longer(q, q2, w), Proper(q, w)
    PROVE  /\ Queued(q2, cache, sv)
           /\ \A c \in Codes : Gone(q, cache, c, Len(q) + 1) => Gone(q2, cache, c, Len(q) + 2)
<1>1. PICK n \in Nat : n = Len(q)
  BY DEF Longer
<1>2. /\ DOMAIN q = 1 .. n /\ DOMAIN q2 = 1 .. n + 1
      /\ \A i \in 1 .. n : q2[i] = q[i]
      /\ q2[n + 1] = w /\ w.reply = "none"
  BY <1>1 DEF Longer, Proper
<1>3. Ordered(q) /\ Grouped(q) /\ Executed(q, sv) /\ Cached(q, cache)
  BY DEF Queued
<1>4. Ordered(q2)
  BY <1>2, <1>3 DEF Ordered
<1>5. Grouped(q2)
  <2> SUFFICES ASSUME NEW i \in 1 .. n + 1
               PROVE  /\ q2[i].op = "time" => /\ q2[i].num \in TimeLimits
                                              /\ q2[i].reply # "none" => q2[i].counter \in TimeLimits
                      /\ q2[i].op = "start" =>
                            /\ i > 1 => q2[i - 1].op = "radius"
                            /\ i > 2 => q2[i - 2].op = "time" /\ q2[i - 2].code = q2[i].code
                      /\ Replaces(q2[i]) => q2[i].reply # "failed"
    BY <1>2 DEF Grouped
  <2>1. CASE i \in 1 .. n
    <3>1. q2[i] = q[i] /\ (i > 1 => q2[i - 1] = q[i - 1]) /\ (i > 2 => q2[i - 2] = q[i - 2])
      BY <1>2, <2>1
    <3> QED
      BY <1>2, <1>3, <2>1, <3>1 DEF Grouped
  <2>2. CASE i = n + 1
    <3>1. n >= 2 => q2[n] = q[n] /\ q2[n - 1] = q[n - 1]
      BY <1>2
    <3> QED
      BY <1>1, <1>2, <2>2, <3>1 DEF Proper
  <2> QED
    BY <2>1, <2>2
<1>6. \A R : "none" \notin R => \A i \in 1 .. n : Renewed(q, i, R) => Renewed(q2, i, R)
  BY <1>2 DEF Renewed
<1>7. ASSUME NEW i \in 1 .. n + 1
      PROVE  /\ TimeFailed(q2, i) => i \in 1 .. n /\ TimeFailed(q, i)
             /\ \A R : "none" \notin R /\ TimeIs(q2, i, R) => i \in 1 .. n /\ TimeIs(q, i, R)
  <2>1. CASE i \in 1 .. n
    <3>1. q2[i] = q[i] /\ (i > 2 => q2[i - 2] = q[i - 2])
      BY <1>2, <2>1
    <3> QED
      BY <2>1, <3>1 DEF TimeFailed, TimeIs
  <2>2. CASE i = n + 1
    <3>1. w.op = "start" => n - 1 \in 1 .. n /\ q2[n - 1].reply = "none" /\ i > 2 /\ i - 2 = n - 1
      BY <1>1, <1>2, <2>2 DEF Proper
    <3> QED
      BY <1>2, <2>2, <3>1 DEF TimeFailed, TimeIs
  <2> QED
    BY <2>1, <2>2
<1>8. Executed(q2, sv)
  <2> SUFFICES ASSUME NEW i \in 1 .. n + 1, ~Renewed(q2, i, {"ok", "seen"})
               PROVE  /\ TimeIs(q2, i, {"ok", "seen", "failed"}) => Chosen(sv[q2[i].code])
                      /\ TimeFailed(q2, i) => sv[q2[i].code] = NoDoc
    BY <1>2 DEF Executed
  <2>1. i \in 1 .. n => ~Renewed(q, i, {"ok", "seen"}) /\ q2[i] = q[i]
    BY <1>2, <1>6
  <2> QED
    BY <1>2, <1>3, <1>7, <2>1 DEF Executed
<1>9. ASSUME NEW c, NEW m \in 1 .. n + 1, Gone(q, cache, c, m)
      PROVE  \A k \in {m, m + 1} : (m = n + 1 \/ k = m) => Gone(q2, cache, c, k)
  BY <1>2, <1>9 DEF Gone, Succeeded
<1>10. Cached(q2, cache)
  <2> SUFFICES ASSUME NEW i \in 1 .. n + 1, ~Renewed(q2, i, {"seen"})
               PROVE  /\ TimeIs(q2, i, {"seen"}) => Chosen(cache[q2[i].code])
                      /\ TimeFailed(q2, i) => Gone(q2, cache, q2[i].code, i)
    BY <1>2 DEF Cached
  <2>1. i \in 1 .. n => ~Renewed(q, i, {"seen"}) /\ q2[i] = q[i]
    BY <1>2, <1>6
  <2>2. TimeIs(q2, i, {"seen"}) => Chosen(cache[q2[i].code])
    BY <1>2, <1>3, <1>7, <2>1 DEF Cached
  <2>3. TimeFailed(q2, i) => Gone(q, cache, q2[i].code, i)
    BY <1>2, <1>3, <1>7, <2>1 DEF Cached
  <2> QED
    BY <1>9, <2>2, <2>3
<1>11. ASSUME NEW c \in Codes, Gone(q, cache, c, n + 1) PROVE Gone(q2, cache, c, n + 2)
  BY <1>9, <1>11
<1> QED
  BY <1>1, <1>4, <1>5, <1>8, <1>10, <1>11 DEF Queued

\* The queue q2 is q without its first write.
Shorter(q, q2) == /\ Len(q) \in Nat /\ Len(q) > 0 /\ DOMAIN q = 1 .. Len(q)
                  /\ DOMAIN q2 = 1 .. Len(q) - 1
                  /\ \A i \in 1 .. Len(q) - 1 : q2[i] = q[i + 1]

\* What the acknowledgement of w makes of the cached document x.
Absorbed(w, x, y) == /\ w.reply # "none"
                     /\ w.reply # "ok" => y = x
                     /\ w.op # "create" /\ Chosen(x) => Chosen(y)
                     /\ w.op = "time" /\ w.reply = "ok" => Chosen(y)
                     /\ w.op \notin {"create", "delete"} /\ Missing(x) => Missing(y)
                     /\ w.op = "delete" /\ w.reply = "ok" => Missing(y)

\* The oldest write is acknowledged.
LEMMA TailQueued ==
    ASSUME NEW q \in Seq(Writes), NEW q2, NEW cache, NEW cache2, NEW sv, Queued(q, cache, sv), Shorter(q, q2),
           Absorbed(q[1], cache[q[1].code], cache2[q[1].code]),
           \A c \in Codes : c # q[1].code => cache2[c] = cache[c]
    PROVE  /\ Queued(q2, cache2, sv)
           /\ \A c \in Codes : Gone(q, cache, c, Len(q) + 1) => Gone(q2, cache2, c, Len(q2) + 1)
<1>1. PICK n \in Nat : n = Len(q)
  BY DEF Shorter
<1>2. /\ n > 0 /\ DOMAIN q = 1 .. n /\ DOMAIN q2 = 1 .. n - 1
      /\ \A i \in 1 .. n - 1 : q2[i] = q[i + 1] /\ i + 1 \in 1 .. n
  BY <1>1 DEF Shorter
<1>3. Ordered(q) /\ Grouped(q) /\ Executed(q, sv) /\ Cached(q, cache)
  BY DEF Queued
<1>4. Ordered(q2)
  <2> SUFFICES ASSUME NEW i \in 1 .. n - 1, NEW j \in 1 .. n - 1, i < j
               PROVE  /\ q2[i].reply = "none" => q2[j].reply = "none"
                      /\ q2[i].code = q2[j].code /\ q2[j].reply = "seen" => q2[i].reply # "ok"
    BY <1>2 DEF Ordered
  <2>1. PICK a \in 1 .. n, b \in 1 .. n : a = i + 1 /\ b = j + 1 /\ a < b
    BY <1>2
  <2>2. q2[i] = q[a] /\ q2[j] = q[b]
    BY <1>2, <2>1
  <2>3. a \in DOMAIN q /\ b \in DOMAIN q
    BY <1>2
  <2> QED
    BY <1>3, <2>1, <2>2, <2>3 DEF Ordered
<1>5. Grouped(q2)
  <2> SUFFICES ASSUME NEW i \in 1 .. n - 1
               PROVE  /\ q2[i].op = "time" => /\ q2[i].num \in TimeLimits
                                              /\ q2[i].reply # "none" => q2[i].counter \in TimeLimits
                      /\ q2[i].op = "start" =>
                            /\ i > 1 => q2[i - 1].op = "radius"
                            /\ i > 2 => q2[i - 2].op = "time" /\ q2[i - 2].code = q2[i].code
                      /\ Replaces(q2[i]) => q2[i].reply # "failed"
    BY <1>2 DEF Grouped
  <2>1. PICK a \in DOMAIN q : a = i + 1 /\ q2[i] = q[a]
    BY <1>2
  <2>2. (i > 1 => q2[i - 1] = q[a - 1]) /\ (i > 2 => q2[i - 2] = q[a - 2])
    BY <1>2, <2>1
  <2>3. /\ q[a].op = "time" => /\ q[a].num \in TimeLimits
                               /\ q[a].reply # "none" => q[a].counter \in TimeLimits
        /\ q[a].op = "start" =>
              /\ a > 1 => q[a - 1].op = "radius"
              /\ a > 2 => q[a - 2].op = "time" /\ q[a - 2].code = q[a].code
        /\ Replaces(q[a]) => q[a].reply # "failed"
    BY <1>3 DEF Grouped
  <2>4. i > 1 => a > 2
    BY <2>1
  <2>5. a > 1 /\ (i > 2 => i > 1)
    BY <2>1
  <2>6. q2[i].op = "start" /\ i > 1 => q2[i - 1].op = "radius"
    BY <2>1, <2>2, <2>3, <2>5, Zenon
  <2>7. q2[i].op = "start" /\ i > 2 => q2[i - 2].op = "time" /\ q2[i - 2].code = q2[i].code
    BY <2>1, <2>2, <2>3, <2>4, <2>5, Zenon
  <2>8. /\ q2[i].op = "time" => /\ q2[i].num \in TimeLimits
                                /\ q2[i].reply # "none" => q2[i].counter \in TimeLimits
        /\ Replaces(q2[i]) => q2[i].reply # "failed"
    BY <2>1, <2>3, Zenon
  <2>9. q2[i].op = "start" => /\ i > 1 => q2[i - 1].op = "radius"
                              /\ i > 2 => q2[i - 2].op = "time" /\ q2[i - 2].code = q2[i].code
    <3> HAVE q2[i].op = "start"
    <3> QED
      BY <2>6, <2>7
  <2> QED
    BY <2>8, <2>9, Zenon
<1>6. \A R : \A i \in 1 .. n - 1 : Renewed(q, i + 1, R) => Renewed(q2, i, R)
  <2> SUFFICES ASSUME NEW R, NEW i \in 1 .. n - 1, Renewed(q, i + 1, R) PROVE Renewed(q2, i, R)
    OBVIOUS
  <2>1. PICK j \in 1 .. n : j > i + 1 /\ Replaces(q[j]) /\ q[j].code = q[i + 1].code /\ q[j].reply \in R
    BY <1>2 DEF Renewed
  <2>2. j - 1 \in 1 .. n - 1 /\ j - 1 > i /\ q2[j - 1] = q[j] /\ q2[i] = q[i + 1]
    BY <1>2, <2>1
  <2> QED
    BY <1>2, <2>1, <2>2 DEF Renewed
<1>7. ASSUME NEW i \in 1 .. n - 1, NEW R
      PROVE  TimeIs(q2, i, R) => \/ TimeIs(q, i + 1, R)
                                 \/ q[i + 1].op = "start" /\ i = 2 /\ q[1].op = "time" /\ q[1].code = q[i + 1].code
  <2>1. q2[i] = q[i + 1] /\ (i > 2 => q2[i - 2] = q[(i + 1) - 2])
    BY <1>2
  <2>2. i = 2 /\ q[i + 1].op = "start" => q[1].op = "time" /\ q[1].code = q[i + 1].code
    BY <1>2, <1>3 DEF Grouped
  <2> QED
    BY <2>1, <2>2 DEF TimeIs
<1>8. ASSUME NEW i \in 1 .. n - 1 PROVE TimeFailed(q2, i) <=> TimeFailed(q, i + 1)
  BY <1>2 DEF TimeFailed
<1>9. /\ 1 \in 1 .. n /\ q[1].reply \in {"ok", "seen", "failed"}
      /\ \A i \in 1 .. n : q[i] \in Writes /\ q[i].code \in Codes
  <2>1. \A i \in 1 .. n : q[i] \in Writes
    BY <1>2
  <2> QED
    BY <1>2, <2>1, WriteParts DEF Absorbed
<1>10. Executed(q2, sv)
  <2> SUFFICES ASSUME NEW i \in 1 .. n - 1, ~Renewed(q2, i, {"ok", "seen"})
               PROVE  /\ TimeIs(q2, i, {"ok", "seen", "failed"}) => Chosen(sv[q2[i].code])
                      /\ TimeFailed(q2, i) => sv[q2[i].code] = NoDoc
    BY <1>2 DEF Executed
  <2>1. q2[i] = q[i + 1] /\ i + 1 \in 1 .. n /\ ~Renewed(q, i + 1, {"ok", "seen"})
    BY <1>2, <1>6
  <2>2. TimeIs(q2, i, {"ok", "seen", "failed"}) => TimeIs(q, i + 1, {"ok", "seen", "failed"})
    <3>1. i = 2 => q[(i + 1) - 2] = q[1]
      OBVIOUS
    <3>2. i = 2 /\ q[i + 1].op = "start" => TimeIs(q, i + 1, {"ok", "seen", "failed"})
      BY <1>9, <3>1 DEF TimeIs
    <3> QED
      BY <1>7, <3>2
  <2> QED
    BY <1>2, <1>3, <1>8, <2>1, <2>2 DEF Executed
\* a document that the answers remove, or that is not in the cache
<1>11. ASSUME NEW c \in Codes, NEW m \in 1 .. n, Gone(q, cache, c, m + 1) PROVE Gone(q2, cache2, c, m)
  <2>1. ASSUME NEW k \in 1 .. n, k < m + 1, k > 1, Succeeded(q[k], "delete", c)
        PROVE  k - 1 \in DOMAIN q2 /\ k - 1 < m /\ Succeeded(q2[k - 1], "delete", c)
    BY <1>2, <2>1
  <2>2. \A i \in DOMAIN q2 : i < m /\ Succeeded(q2[i], "create", c) =>
           \E k \in DOMAIN q2 : i < k /\ k < m /\ Succeeded(q2[k], "delete", c)
    <3> SUFFICES ASSUME NEW i \in 1 .. n - 1, i < m, Succeeded(q2[i], "create", c)
                 PROVE  \E k \in DOMAIN q2 : i < k /\ k < m /\ Succeeded(q2[k], "delete", c)
      BY <1>2
    <3>1. i + 1 \in DOMAIN q /\ i + 1 < m + 1 /\ Succeeded(q[i + 1], "create", c)
      BY <1>2
    <3>2. PICK k \in DOMAIN q : i + 1 < k /\ k < m + 1 /\ Succeeded(q[k], "delete", c)
      BY <1>11, <3>1 DEF Gone
    <3>3. k - 1 \in DOMAIN q2 /\ k - 1 < m /\ i < k - 1 /\ Succeeded(q2[k - 1], "delete", c)
      BY <1>2, <2>1, <3>2
    <3> QED
      BY <3>3
  <2>3. ASSUME ~Missing(cache2[c])
        PROVE  \E k \in DOMAIN q2 : k < m /\ Succeeded(q2[k], "delete", c)
    <3>1. \E k \in 1 .. n : k > 1 /\ k < m + 1 /\ Succeeded(q[k], "delete", c)
      <4>1. CASE Missing(cache[c])
        <5>1. q[1].code = c /\ q[1].op \in {"create", "delete"} /\ q[1].reply = "ok"
          BY <1>9, <2>3, <4>1 DEF Absorbed
        <5>2. q[1].op = "create"
          BY <2>3, <5>1 DEF Absorbed
        <5>3. Succeeded(q[1], "create", c) /\ 1 \in DOMAIN q /\ 1 < m + 1
          BY <1>2, <1>9, <5>1, <5>2 DEF Succeeded
        <5> QED
          BY <1>2, <1>11, <5>3 DEF Gone
      <4>2. CASE ~Missing(cache[c])
        <5>1. PICK k \in 1 .. n : k < m + 1 /\ Succeeded(q[k], "delete", c)
          BY <1>2, <1>11, <4>2 DEF Gone
        <5>2. k # 1
          BY <2>3, <5>1 DEF Succeeded, Absorbed
        <5>3. k > 1
          BY <5>2
        <5> QED
          BY <5>1, <5>3
      <4> QED
        BY <4>1, <4>2
    <3> QED
      BY <2>1, <3>1
  <2> QED
    BY <2>2, <2>3 DEF Gone
<1>12. ASSUME NEW i \in 1 .. n - 1, ~Renewed(q, i + 1, {"seen"}), TimeIs(q2, i, {"seen"})
       PROVE  Chosen(cache2[q[i + 1].code])
  <2>1. PICK c \in Codes : c = q[i + 1].code
    BY <1>2, <1>9
  <2>2. i + 1 \in DOMAIN q /\ q[i + 1].op = "start"
    BY <1>2, <1>12 DEF TimeIs
  <2>3. CASE TimeIs(q, i + 1, {"seen"})
    <3>1. Chosen(cache[c])
      BY <1>3, <1>12, <2>1, <2>2, <2>3 DEF Cached
    <3>2. q[1].code = c /\ q[1].reply = "ok" => q[1].op # "create"
      <4>1. i + 1 = 2 => q[1].op = "radius"
        BY <1>3, <2>2 DEF Grouped
      <4>2. i + 1 = 3 => q[1].reply = "seen"
        BY <2>3 DEF TimeIs
      <4>3. i + 1 > 3 => q[(i + 1) - 2].reply = "seen" /\ (i + 1) - 2 \in DOMAIN q /\ 1 < (i + 1) - 2
        BY <1>2, <2>3 DEF TimeIs
      <4>4. i + 1 > 3 => q[(i + 1) - 2].code = c
        BY <1>3, <2>1, <2>2 DEF Grouped
      <4>5. i + 1 > 3 => ~(q[1].code = c /\ q[1].reply = "ok")
        BY <1>2, <1>3, <1>9, <4>3, <4>4 DEF Ordered
      <4>6. i + 1 = 2 \/ i + 1 = 3 \/ i + 1 > 3
        OBVIOUS
      <4> QED
        BY <4>1, <4>2, <4>5, <4>6
    <3>3. CASE q[1].code = c
      BY <2>1, <3>1, <3>2, <3>3 DEF Absorbed
    <3> QED
      BY <2>1, <3>1, <3>3
  <2>4. CASE i = 2 /\ q[1].op = "time" /\ q[1].code = c
    <3>1. CASE q[1].reply = "ok"
      BY <2>1, <2>4, <3>1 DEF Absorbed
    <3>2. CASE q[1].reply = "seen"
      <4>1. TimeIs(q, i + 1, {"seen"})
        BY <2>2, <2>4, <3>2 DEF TimeIs
      <4> QED
        BY <2>3, <4>1
    <3>3. CASE q[1].reply = "failed"
      <4>1. ~Renewed(q, 1, {"seen"})
        <5> SUFFICES ASSUME NEW j \in 1 .. n, j > 1, Replaces(q[j]), q[j].code = c, q[j].reply = "seen"
                     PROVE  FALSE
          BY <1>2, <2>4 DEF Renewed
        <5>1. q[2].op = "radius"
          BY <1>2, <1>3, <2>2, <2>4 DEF Grouped
        <5>2. j # 2 /\ j # 3
          BY <2>2, <2>4, <5>1 DEF Replaces
        <5>3. j > i + 1
          BY <2>4, <5>2
        <5> QED
          BY <1>2, <1>12, <2>1, <5>3 DEF Renewed
      <4>2. Gone(q, cache, c, 1)
        BY <1>2, <1>3, <1>9, <2>4, <3>3, <4>1 DEF Cached, TimeFailed
      <4>3. Missing(cache[c])
        BY <1>2, <4>2 DEF Gone
      <4> QED
        BY <2>1, <2>4, <3>3, <4>3 DEF Absorbed, Chosen
    <3> QED
      BY <1>9, <3>1, <3>2, <3>3
  <2> QED
    BY <1>7, <1>12, <2>1, <2>3, <2>4
<1>13. Cached(q2, cache2)
  <2> SUFFICES ASSUME NEW i \in 1 .. n - 1, ~Renewed(q2, i, {"seen"})
               PROVE  /\ TimeIs(q2, i, {"seen"}) => Chosen(cache2[q2[i].code])
                      /\ TimeFailed(q2, i) => Gone(q2, cache2, q2[i].code, i)
    BY <1>2 DEF Cached
  <2>1. q2[i] = q[i + 1] /\ i + 1 \in 1 .. n /\ ~Renewed(q, i + 1, {"seen"})
    BY <1>2, <1>6
  <2>2. TimeIs(q2, i, {"seen"}) => Chosen(cache2[q2[i].code])
    BY <1>12, <2>1
  <2>3. TimeFailed(q2, i) => Gone(q, cache, q[i + 1].code, i + 1)
    BY <1>2, <1>3, <1>8, <2>1 DEF Cached
  <2>4. i \in 1 .. n /\ q[i + 1].code \in Codes
    BY <1>9, <2>1
  <2> QED
    BY <1>11, <2>1, <2>2, <2>3, <2>4
<1>14. Len(q2) = n - 1
  BY <1>2
<1>15. ASSUME NEW c \in Codes, Gone(q, cache, c, Len(q) + 1) PROVE Gone(q2, cache2, c, Len(q2) + 1)
  <2>1. Gone(q2, cache2, c, n)
    BY <1>1, <1>2, <1>11, <1>15
  <2> QED
    BY <1>14, <2>1
<1> QED
  BY <1>4, <1>5, <1>10, <1>13, <1>15 DEF Queued

\* The cache is changed by writes of another queue.
LEMMA CacheQueued ==
    ASSUME NEW q, NEW cache, NEW cache2, NEW sv, Queued(q, cache, sv),
           \A i \in DOMAIN q : q[i].code \in Codes,
           \A c \in Codes : /\ Chosen(cache[c]) => Chosen(cache2[c])
                            /\ Missing(cache[c]) => Missing(cache2[c])
    PROVE  /\ Queued(q, cache2, sv)
           /\ \A c \in Codes : \A n : Gone(q, cache, c, n) => Gone(q, cache2, c, n)
<1>1. \A c \in Codes : \A n : Gone(q, cache, c, n) => Gone(q, cache2, c, n)
  BY DEF Gone
<1>2. Cached(q, cache2)
  BY <1>1 DEF Queued, Cached
<1> QED
  BY <1>1, <1>2 DEF Queued

\* The server's documents are changed by writes of another queue.
LEMMA ServerQueued ==
    ASSUME NEW q, NEW cache, NEW sv, NEW sv2, Queued(q, cache, sv),
           \A i \in DOMAIN q : q[i].code \in Codes,
           \A c \in Codes : /\ Chosen(sv[c]) => Chosen(sv2[c])
                            /\ sv[c] = NoDoc => sv2[c] = NoDoc
    PROVE  Queued(q, cache, sv2)
<1>1. Executed(q, sv2)
  BY DEF Queued, Executed
<1> QED
  BY <1>1 DEF Queued

\* A queue without the host's writes is not concerned.
LEMMA IdleQueued ==
    ASSUME NEW q, NEW cache, NEW cache2, NEW sv, NEW sv2, Queued(q, cache, sv),
           \A i \in DOMAIN q : q[i].op \notin HostOps
    PROVE  Queued(q, cache2, sv2)
<1>1. \A i \in DOMAIN q : q[i].op \notin {"start", "time"}
  BY DEF HostOps
<1>2. Executed(q, sv2)
  BY <1>1 DEF Executed, TimeIs, TimeFailed
<1>3. Cached(q, cache2)
  BY <1>1 DEF Cached, TimeIs, TimeFailed
<1> QED
  BY <1>2, <1>3 DEF Queued

\* The writes w and w2 differ in their answer at most.
SameWrite(w, w2) == /\ w2.op = w.op /\ w2.code = w.code /\ w2.num = w.num

\* Nothing of the queue changes but handlers.
LEMMA SameQueued ==
    ASSUME NEW q, NEW q2, NEW cache, NEW sv, Queued(q, cache, sv), DOMAIN q2 = DOMAIN q,
           \A i \in DOMAIN q : SameWrite(q[i], q2[i]) /\ q2[i].reply = q[i].reply /\ q2[i].counter = q[i].counter,
           \A i \in DOMAIN q : i \in Nat /\ (i > 1 => i - 1 \in DOMAIN q) /\ (i > 2 => i - 2 \in DOMAIN q)
    PROVE  /\ Queued(q2, cache, sv)
           /\ \A c \in Codes : \A n : Gone(q, cache, c, n) => Gone(q2, cache, c, n)
<1>1. Ordered(q2)
  BY DEF Queued, Ordered, SameWrite
<1>2. Grouped(q2)
  BY DEF Queued, Grouped, SameWrite, Replaces
<1>3. \A R : \A i \in DOMAIN q : Renewed(q, i, R) => Renewed(q2, i, R)
  BY DEF Renewed, SameWrite, Replaces
<1>4. \A i \in DOMAIN q : /\ TimeFailed(q2, i) => TimeFailed(q, i)
                          /\ \A R : TimeIs(q2, i, R) => TimeIs(q, i, R)
                          /\ q2[i].code = q[i].code
  BY DEF TimeFailed, TimeIs, SameWrite
<1>5. Executed(q2, sv)
  BY <1>3, <1>4 DEF Queued, Executed
<1>6. \A c, n : Gone(q, cache, c, n) => Gone(q2, cache, c, n)
  BY DEF Gone, Succeeded, SameWrite
<1>7. Cached(q2, cache)
  BY <1>3, <1>4, <1>6 DEF Queued, Cached
<1> QED
  BY <1>1, <1>2, <1>5, <1>6, <1>7 DEF Queued

\* The queue q and the cache become q2 and cache2 when the server has sent document
\* c: the executed writes to it are seen.
Sees(q, q2, c, cache, cache2, sv) ==
    /\ cache2[c] = sv[c] /\ \A o \in Codes : o # c => cache2[o] = cache[o]
    /\ DOMAIN q2 = DOMAIN q
    /\ \A i \in DOMAIN q : /\ SameWrite(q[i], q2[i]) /\ q2[i].counter = q[i].counter
                           /\ q2[i].reply = IF q[i].code = c /\ q[i].reply = "ok" THEN "seen"
                                            ELSE q[i].reply

\* The server has sent document c.
LEMMA SeenQueued ==
    ASSUME NEW q \in Seq(Writes), NEW q2, NEW cache, NEW cache2, NEW sv, NEW c \in Codes, Queued(q, cache, sv),
           Sees(q, q2, c, cache, cache2, sv)
    PROVE  /\ Queued(q2, cache2, sv)
           /\ sv[c] = NoDoc => \A n : Gone(q2, cache2, c, n)
           /\ \A o \in Codes : \A n : o # c /\ Gone(q, cache, o, n) => Gone(q2, cache2, o, n)
<1> USE DEF Sees
<1>0. PICK m \in Nat : m = Len(q) /\ DOMAIN q = 1 .. m
  OBVIOUS
<1>1. /\ \A i \in 1 .. m : q[i] \in Writes /\ q[i].code \in Codes /\ q[i].reply \in {"none", "ok", "seen", "failed"}
      /\ \A i \in 1 .. m : (i > 1 => i - 1 \in 1 .. m) /\ (i > 2 => i - 2 \in 1 .. m)
  <2>1. \A i \in 1 .. m : q[i] \in Writes
    BY <1>0
  <2> QED
    BY <2>1, WriteParts
<1>2. Ordered(q2)
  BY <1>0 DEF Queued, Ordered, SameWrite
<1>3. Grouped(q2)
  BY <1>0, <1>1 DEF Queued, Grouped, SameWrite, Replaces
<1>4. \A i \in 1 .. m : Renewed(q, i, {"ok", "seen"}) => Renewed(q2, i, {"ok", "seen"})
  BY <1>0 DEF Renewed, SameWrite, Replaces
<1>5. \A i \in 1 .. m : q[i].code = c /\ Renewed(q, i, {"ok", "seen"}) => Renewed(q2, i, {"seen"})
  BY <1>0 DEF Renewed, SameWrite, Replaces
<1>6. \A i \in 1 .. m : Renewed(q, i, {"seen"}) => Renewed(q2, i, {"seen"})
  BY <1>0 DEF Renewed, SameWrite, Replaces
<1>7. \A i \in 1 .. m : /\ TimeFailed(q2, i) => TimeFailed(q, i)
                        /\ TimeIs(q2, i, {"ok", "seen", "failed"}) => TimeIs(q, i, {"ok", "seen", "failed"})
                        /\ q2[i].code = q[i].code
  BY <1>0, <1>1 DEF TimeFailed, TimeIs, SameWrite
<1>8. Executed(q2, sv)
  BY <1>0, <1>4, <1>7 DEF Queued, Executed
<1>9. ASSUME sv[c] = NoDoc PROVE \A n : Gone(q2, cache2, c, n)
  BY <1>9 DEF Gone, Succeeded, SameWrite, Missing
<1>10. ASSUME NEW o \in Codes, NEW n, o # c, Gone(q, cache, o, n) PROVE Gone(q2, cache2, o, n)
  BY <1>10 DEF Gone, Succeeded, SameWrite
<1>11. Cached(q2, cache2)
  <2> SUFFICES ASSUME NEW i \in 1 .. m, ~Renewed(q2, i, {"seen"})
               PROVE  /\ TimeIs(q2, i, {"seen"}) => Chosen(cache2[q2[i].code])
                      /\ TimeFailed(q2, i) => Gone(q2, cache2, q2[i].code, i)
    BY <1>0 DEF Cached
  <2>1. CASE q[i].code = c
    <3>1. ~Renewed(q, i, {"ok", "seen"})
      BY <1>5, <2>1
    <3>2. TimeIs(q2, i, {"seen"}) => TimeIs(q2, i, {"ok", "seen", "failed"})
      BY DEF TimeIs
    <3>3. TimeIs(q2, i, {"seen"}) => Chosen(sv[c])
      BY <1>0, <1>7, <2>1, <3>1, <3>2 DEF Queued, Executed
    <3>4. TimeFailed(q2, i) => sv[c] = NoDoc
      BY <1>0, <1>7, <2>1, <3>1 DEF Queued, Executed
    <3> QED
      BY <1>7, <1>9, <2>1, <3>3, <3>4
  <2>2. CASE q[i].code # c
    <3>1. ~Renewed(q, i, {"seen"}) /\ q[i].code \in Codes
      BY <1>1, <1>6
    <3>2. TimeIs(q2, i, {"seen"}) => TimeIs(q, i, {"seen"})
      <4>1. q2[i].op = q[i].op
        BY <1>0 DEF SameWrite
      <4>2. q[i].op = "start" /\ i > 2 => q[i - 2].code = q[i].code /\ i - 2 \in DOMAIN q
        BY <1>0, <1>1 DEF Queued, Grouped
      <4>3. q[i].op = "start" /\ i > 2 => q2[i - 2].reply = q[i - 2].reply
        BY <2>2, <4>2
      <4> QED
        BY <4>1, <4>3 DEF TimeIs
    <3>3. TimeIs(q2, i, {"seen"}) => Chosen(cache[q[i].code])
      BY <1>0, <3>1, <3>2 DEF Queued, Cached
    <3>4. TimeFailed(q2, i) => Gone(q, cache, q[i].code, i)
      BY <1>0, <1>7, <3>1 DEF Queued, Cached
    <3> QED
      BY <1>7, <1>10, <2>2, <3>1, <3>3, <3>4
  <2> QED
    BY <2>1, <2>2
<1> QED
  BY <1>2, <1>3, <1>8, <1>9, <1>10, <1>11 DEF Queued

\* What the server makes of its document x when it executes w with the answer r.
Served(w, r, x, y) == /\ r = IF Replaces(w) \/ x # NoDoc THEN "ok" ELSE "failed"
                      /\ w.op # "create" /\ Chosen(x) => Chosen(y)
                      /\ w.op = "time" => Chosen(y)
                      /\ ~Replaces(w) => (x = NoDoc <=> y = NoDoc)
                      /\ w.op = "create" => y # NoDoc
                      /\ w.op = "delete" => y = NoDoc

\* The k-th write of q is the next one to be executed; then the queue is q2 and
\* the server has the documents sv2.
Serves(q, q2, k, sv, sv2) ==
    /\ k \in DOMAIN q /\ q[k].reply = "none" /\ \A j \in DOMAIN q : j < k => q[j].reply # "none"
    /\ DOMAIN q2 = DOMAIN q /\ \A j \in DOMAIN q : j # k => q2[j] = q[j]
    /\ SameWrite(q[k], q2[k])
    /\ q[k].op = "time" => q2[k].counter \in TimeLimits
    /\ Served(q[k], q2[k].reply, sv[q[k].code], sv2[q[k].code])
    /\ \A c \in Codes : c # q[k].code => sv2[c] = sv[c]

\* A start is executed on a document with a chosen time, or without effect.
LEMMA StartsChosen ==
    ASSUME NEW q \in Seq(Writes), NEW cache, NEW sv, Queued(q, cache, sv), NEW k \in DOMAIN q,
           q[k].op = "start", q[k].reply = "none", \A j \in DOMAIN q : j < k => q[j].reply # "none"
    PROVE  Chosen(sv[q[k].code])
<1>0. PICK m \in Nat : m = Len(q) /\ DOMAIN q = 1 .. m
  OBVIOUS
<1>1. \A i \in 1 .. m : q[i].reply \in {"none", "ok", "seen", "failed"}
  <2>1. \A i \in 1 .. m : q[i] \in Writes
    BY <1>0
  <2> QED
    BY <2>1, WriteParts
<1>2. k \in 1 .. m /\ (k > 2 => k - 2 \in 1 .. m /\ k - 2 < k)
  BY <1>0
<1>3. TimeIs(q, k, {"ok", "seen", "failed"})
  BY <1>0, <1>1, <1>2 DEF TimeIs
<1>4. ~Renewed(q, k, {"ok", "seen"})
  BY <1>0, <1>2 DEF Renewed, Queued, Ordered
<1> QED
  BY <1>3, <1>4 DEF Queued, Executed

\* The next write of a queue is executed.
LEMMA ServeQueued ==
    ASSUME NEW q \in Seq(Writes), NEW q2, NEW k, NEW cache, NEW sv, NEW sv2, Queued(q, cache, sv),
           Serves(q, q2, k, sv, sv2),
           q[k].op = "time" /\ sv[q[k].code] = NoDoc => Gone(q, cache, q[k].code, Len(q) + 1)
    PROVE  /\ Queued(q2, cache, sv2)
           /\ \A o \in Codes : (sv[o] = NoDoc => Gone(q, cache, o, Len(q) + 1)) =>
                                 (sv2[o] = NoDoc => Gone(q2, cache, o, Len(q) + 1))
<1>0. PICK m \in Nat : m = Len(q) /\ DOMAIN q = 1 .. m
  OBVIOUS
<1>1. /\ \A i \in 1 .. m : q[i].code \in Codes /\ q[i].reply \in {"none", "ok", "seen", "failed"}
      /\ \A i \in 1 .. m : (i > 1 => i - 1 \in 1 .. m) /\ (i > 2 => i - 2 \in 1 .. m)
  <2>1. \A i \in 1 .. m : q[i] \in Writes
    BY <1>0
  <2> QED
    BY <2>1, WriteParts
<1>2. PICK c \in Codes : c = q[k].code
  BY <1>0, <1>1 DEF Serves
<1>3. /\ k \in 1 .. m /\ q[k].reply = "none" /\ \A j \in 1 .. m : j < k => q[j].reply # "none"
      /\ DOMAIN q2 = 1 .. m /\ \A j \in 1 .. m : j # k => q2[j] = q[j]
      /\ \A j \in 1 .. m : q2[j].op = q[j].op /\ q2[j].code = q[j].code /\ q2[j].num = q[j].num
      /\ q[k].op = "time" => q2[k].counter \in TimeLimits
      /\ \A o \in Codes : o # c => sv2[o] = sv[o]
  BY <1>0, <1>2 DEF Serves, SameWrite
<1>4. /\ q2[k].reply = IF Replaces(q[k]) \/ sv[c] # NoDoc THEN "ok" ELSE "failed"
      /\ q[k].op # "create" /\ Chosen(sv[c]) => Chosen(sv2[c])
      /\ q[k].op = "time" => Chosen(sv2[c])
      /\ ~Replaces(q[k]) => (sv[c] = NoDoc <=> sv2[c] = NoDoc)
      /\ q[k].op = "create" => sv2[c] # NoDoc
      /\ q[k].op = "delete" => sv2[c] = NoDoc
  BY <1>2 DEF Serves, Served
<1>5. q2[k].reply \in {"ok", "failed"}
  BY <1>4
<1>6. \A j \in 1 .. m : j > k => q[j].reply = "none" /\ q2[j].reply = "none"
  BY <1>0, <1>3 DEF Queued, Ordered
<1>7. Ordered(q2)
  <2> SUFFICES ASSUME NEW i \in 1 .. m, NEW j \in 1 .. m, i < j
               PROVE  /\ q2[i].reply = "none" => q2[j].reply = "none"
                      /\ q2[i].code = q2[j].code /\ q2[j].reply = "seen" => q2[i].reply # "ok"
    BY <1>3 DEF Ordered
  <2>1. CASE i = k
    BY <1>5, <1>6, <2>1
  <2>2. CASE i # k
    <3>1. q2[i] = q[i]
      BY <1>3, <2>2
    <3>2. CASE j = k
      BY <1>3, <1>5, <3>1, <3>2
    <3>3. CASE j # k
      BY <1>0, <1>3, <3>1, <3>3 DEF Queued, Ordered
    <3> QED
      BY <3>2, <3>3
  <2> QED
    BY <2>1, <2>2
<1>8. Grouped(q2)
  <2> SUFFICES ASSUME NEW i \in 1 .. m
               PROVE  /\ q2[i].op = "time" =>
                            /\ q2[i].num \in TimeLimits
                            /\ q2[i].reply # "none" => q2[i].counter \in TimeLimits
                      /\ q2[i].op = "start" =>
                            /\ i > 1 => q2[i - 1].op = "radius"
                            /\ i > 2 => q2[i - 2].op = "time" /\ q2[i - 2].code = q2[i].code
                      /\ Replaces(q2[i]) => q2[i].reply # "failed"
    BY <1>3 DEF Grouped
  <2>0. /\ q[i].op = "time" => /\ q[i].num \in TimeLimits
                               /\ q[i].reply # "none" => q[i].counter \in TimeLimits
        /\ q[i].op = "start" => /\ i > 1 => q[i - 1].op = "radius"
                                /\ i > 2 => q[i - 2].op = "time" /\ q[i - 2].code = q[i].code
        /\ i \in DOMAIN q
    BY <1>0 DEF Queued, Grouped
  <2>1. q2[i].op = "time" => q2[i].num \in TimeLimits
    BY <1>3, <2>0
  <2>2. q2[i].op = "time" /\ q2[i].reply # "none" => q2[i].counter \in TimeLimits
    <3>1. CASE i = k
      BY <1>3, <3>1
    <3>2. CASE i # k
      BY <1>3, <2>0, <3>2
    <3> QED
      BY <3>1, <3>2
  <2>3. q2[i].op = "start" /\ i > 1 => q2[i - 1].op = "radius"
    BY <1>1, <1>3, <2>0
  <2>4. q2[i].op = "start" /\ i > 2 => q2[i - 2].op = "time" /\ q2[i - 2].code = q2[i].code
    BY <1>1, <1>3, <2>0
  <2>5. Replaces(q2[i]) => q2[i].reply # "failed"
    BY <1>0, <1>3, <1>4 DEF Queued, Grouped, Replaces
  <2> QED
    BY <2>1, <2>2, <2>3, <2>4, <2>5
<1>9. \A i \in 1 .. m : /\ Renewed(q, i, {"ok", "seen"}) => Renewed(q2, i, {"ok", "seen"})
                        /\ Renewed(q, i, {"seen"}) => Renewed(q2, i, {"seen"})
  BY <1>0, <1>3 DEF Renewed, Replaces
<1>10. \A i \in 1 .. m : i < k /\ q[i].code = c /\ Replaces(q[k]) => Renewed(q2, i, {"ok", "seen"})
  BY <1>2, <1>3, <1>4 DEF Renewed, Replaces
<1>11. ASSUME NEW o \in Codes, sv[o] = NoDoc => Gone(q, cache, o, m + 1), sv2[o] = NoDoc
       PROVE  Gone(q2, cache, o, m + 1)
  <2>1. CASE o = c /\ q[k].op = "delete"
    <3>1. Succeeded(q2[k], "delete", c) /\ k < m + 1
      BY <1>2, <1>3, <1>4, <2>1 DEF Succeeded, Replaces
    <3>2. \A i \in 1 .. m : Succeeded(q2[i], "create", c) => i < k
      BY <1>3, <1>6, <2>1 DEF Succeeded
    <3> QED
      BY <1>3, <2>1, <3>1, <3>2 DEF Gone
  <2>2. CASE ~(o = c /\ q[k].op = "delete")
    <3>1. ~(o = c /\ q[k].op = "create")
      BY <1>4, <1>11
    <3>2. sv[o] = NoDoc
      BY <1>3, <1>4, <1>11, <2>2, <3>1 DEF Replaces
    <3>3. Gone(q, cache, o, m + 1)
      BY <1>11, <3>2
    <3>4. \A i \in 1 .. m : \A op \in {"create", "delete"} :
             Succeeded(q2[i], op, o) <=> Succeeded(q[i], op, o)
      <4> SUFFICES ASSUME NEW i \in 1 .. m, NEW op \in {"create", "delete"}
                   PROVE  Succeeded(q2[i], op, o) <=> Succeeded(q[i], op, o)
        OBVIOUS
      <4>1. CASE i = k
        BY <1>2, <1>3, <2>2, <3>1, <4>1 DEF Succeeded
      <4>2. CASE i # k
        BY <1>3, <4>2
      <4> QED
        BY <4>1, <4>2
    <3> QED
      BY <1>0, <1>3, <3>3, <3>4 DEF Gone
  <2> QED
    BY <2>1, <2>2
<1>12. Executed(q2, sv2)
  <2> SUFFICES ASSUME NEW i \in 1 .. m, ~Renewed(q2, i, {"ok", "seen"})
               PROVE  /\ TimeIs(q2, i, {"ok", "seen", "failed"}) => Chosen(sv2[q2[i].code])
                      /\ TimeFailed(q2, i) => sv2[q2[i].code] = NoDoc
    BY <1>3 DEF Executed
  <2>1. ~Renewed(q, i, {"ok", "seen"}) /\ q2[i].code = q[i].code /\ q[i].code \in Codes
    BY <1>1, <1>3, <1>9
  <2>2. ASSUME TimeIs(q2, i, {"ok", "seen", "failed"}) PROVE Chosen(sv2[q[i].code])
    <3>1. q[i].op = "start" /\ (i > 2 => i - 2 \in 1 .. m /\ q[i - 2].op = "time" /\ q[i - 2].code = q[i].code)
      BY <1>0, <1>1, <1>3, <2>2 DEF TimeIs, Queued, Grouped
    <3>2. CASE i > 2 /\ k = i - 2
      BY <1>2, <1>4, <3>1, <3>2
    <3>3. CASE ~(i > 2 /\ k = i - 2)
      <4>1. TimeIs(q, i, {"ok", "seen", "failed"})
        BY <1>3, <2>2, <3>1, <3>3 DEF TimeIs
      <4>2. Chosen(sv[q[i].code])
        BY <1>0, <2>1, <4>1 DEF Queued, Executed
      <4>3. q[i].code = c => q[k].op # "create"
        <5>1. CASE i < k
          BY <1>10, <5>1 DEF Replaces
        <5>2. CASE i = k
          BY <3>1, <5>2
        <5>3. CASE i > k
          <6>1. i > 1 => q[i - 1].op = "radius"
            BY <1>0, <3>1 DEF Queued, Grouped
          <6>2. i > 2 => k > i - 2
            <7> SUFFICES ASSUME i > 2, k < i - 2 PROVE FALSE
              BY <1>3, <3>3
            <7>1. q[i - 2].reply = "none"
              BY <1>6, <3>1
            <7> QED
              BY <4>1, <7>1 DEF TimeIs
          <6>3. k = i - 1
            BY <1>3, <5>3, <6>2
          <6> QED
            BY <1>3, <6>1, <6>3
        <5> QED
          BY <1>3, <5>1, <5>2, <5>3
      <4> QED
        BY <1>3, <1>4, <2>1, <4>2, <4>3
    <3> QED
      BY <3>2, <3>3
  <2>3. ASSUME TimeFailed(q2, i) PROVE sv2[q[i].code] = NoDoc
    <3>1. CASE i = k
      BY <1>2, <1>3, <1>4, <2>3, <3>1 DEF TimeFailed, Replaces
    <3>2. CASE i # k
      <4>1. TimeFailed(q, i)
        BY <1>3, <2>3, <3>2 DEF TimeFailed
      <4>2. sv[q[i].code] = NoDoc
        BY <1>0, <2>1, <4>1 DEF Queued, Executed
      <4>3. i < k
        BY <1>3, <1>6, <3>2, <4>1 DEF TimeFailed
      <4>4. q[i].code = c => ~Replaces(q[k])
        BY <1>10, <4>3
      <4> QED
        BY <1>3, <1>4, <2>1, <4>2, <4>4
    <3> QED
      BY <3>1, <3>2
  <2> QED
    BY <2>1, <2>2, <2>3
<1>13. Cached(q2, cache)
  <2> SUFFICES ASSUME NEW i \in 1 .. m, ~Renewed(q2, i, {"seen"})
               PROVE  /\ TimeIs(q2, i, {"seen"}) => Chosen(cache[q2[i].code])
                      /\ TimeFailed(q2, i) => Gone(q2, cache, q2[i].code, i)
    BY <1>3 DEF Cached
  <2>1. ~Renewed(q, i, {"seen"}) /\ q2[i].code = q[i].code /\ q[i].code \in Codes
    BY <1>1, <1>3, <1>9
  <2>2. TimeIs(q2, i, {"seen"}) => TimeIs(q, i, {"seen"})
    BY <1>1, <1>3, <1>5 DEF TimeIs
  <2>3. TimeIs(q2, i, {"seen"}) => Chosen(cache[q[i].code])
    BY <1>0, <2>1, <2>2 DEF Queued, Cached
  <2>4. ASSUME TimeFailed(q2, i) PROVE Gone(q2, cache, q[i].code, i)
    <3>1. i <= k
      BY <1>3, <1>6, <2>4 DEF TimeFailed
    <3>2. Gone(q, cache, q[i].code, i)
      <4>1. CASE i = k
        <5>1. q[k].op = "time" /\ sv[c] = NoDoc
          BY <1>3, <1>4, <2>4, <4>1 DEF TimeFailed
        <5>2. Gone(q, cache, c, m + 1)
          BY <1>0, <1>2, <5>1
        <5>3. \A j \in 1 .. m : \A op : Succeeded(q[j], op, c) => j < k
          BY <1>3, <1>6 DEF Succeeded
        <5>4. \A j \in 1 .. m : j < m + 1
          OBVIOUS
        <5> QED
          BY <1>0, <1>2, <4>1, <5>2, <5>3, <5>4 DEF Gone
      <4>2. CASE i # k
        <5>1. TimeFailed(q, i)
          BY <1>3, <2>4, <4>2 DEF TimeFailed
        <5> QED
          BY <1>0, <2>1, <5>1 DEF Queued, Cached
      <4> QED
        BY <4>1, <4>2
    <3>3. \A j \in 1 .. m : j < i => q2[j] = q[j]
      BY <1>3, <3>1
    <3> QED
      BY <1>0, <1>3, <3>2, <3>3 DEF Gone
  <2> QED
    BY <2>1, <2>3, <2>4
<1> QED
  BY <1>0, <1>7, <1>8, <1>11, <1>12, <1>13 DEF Queued

------------------------------------------------------------------------------
(* Devices *)

\* Callbacks with the event e are dispatched.
LEMMA CalledTimed ==
    ASSUME NEW q \in Seq(Events), NEW n \in Nat, NEW e \in Events, Timed(e.data),
           \A i \in DOMAIN q : Timed(q[i].data)
    PROVE  \A i \in DOMAIN Called(q, n, e) : Timed(Called(q, n, e)[i].data)
<1> DEFINE r == Called(q, n, e)
<1>1. /\ Len(q) \in Nat /\ DOMAIN q = 1 .. Len(q)
      /\ DOMAIN r = 1 .. Len(q) + n
      /\ \A i \in 1 .. Len(q) : r[i] = q[i]
      /\ \A i \in Len(q) + 1 .. Len(q) + n : r[i] = e
  BY CalledParts
<1> HIDE DEF r
<1> SUFFICES ASSUME NEW i \in DOMAIN r PROVE Timed(r[i].data)
  BY DEF r
<1>2. CASE i \in 1 .. Len(q)
  BY <1>1, <1>2
<1>3. CASE i \notin 1 .. Len(q)
  <2>1. i \in Len(q) + 1 .. Len(q) + n
    BY <1>1, <1>3
  <2> QED
    BY <1>1, <2>1
<1> QED
  BY <1>2, <1>3

LEMMA SnapshotTimed ==
    ASSUME NEW c \in Codes, NEW x \in Docs \cup {NoDoc}, Timed(x)
    PROVE  Snapshot(c, x) \in Events /\ Timed(Snapshot(c, x).data)
  BY DEF Snapshot, Events

\* What the device sees of document c.
LEMMA LocalTimed ==
    ASSUME NEW u \in Users, NEW d \in Devices, NEW c \in Codes, NEW sv, Timely(u, d, sv)
    PROVE  Timed(Visible(Local(u, d, c)))
<1>1. PICK q \in Seq(Writes) : q = Pending(d)
  BY DeviceParts DEF Pending
<1>2. Queued(q, d.cache, sv)
  BY <1>1, DeviceParts DEF Pending, Timely, Orderly
<1>3. d.cache \in [Codes -> CachedDocs] /\ Timed(d.cache[c])
  BY DeviceParts DEF Timely, Views
<1>4. Timed(Overlay(u, q, c, d.cache[c]))
  BY <1>2, <1>3, OverlayTimed DEF Queued
<1> QED
  BY <1>1, <1>4 DEF Local, Visible, Timed, Missing

\* A device with the documents and the queues of d, and with other callbacks.
LEMMA ToldTimely ==
    ASSUME NEW u \in Users, NEW d \in Devices, NEW sv, Timely(u, d, sv), NEW n \in Nat, NEW c \in Codes,
           NEW x \in Docs \cup {NoDoc}, Timed(x), NEW d2, d2.queue = d.queue, d2.cache = d.cache,
           \A o \in Codes : d2.shown[o] = x \/ d2.shown[o] = d.shown[o],
           d2.inbox = Called(d.inbox, n, Snapshot(c, x))
    PROVE  Timely(u, d2, sv)
<1>1. PICK e : e = Snapshot(c, x)
  OBVIOUS
<1>2. PICK q : q = d.inbox
  OBVIOUS
<1>3. e \in Events /\ Timed(e.data)
  BY <1>1, SnapshotTimed
<1>4. q \in Seq(Events) /\ \A i \in DOMAIN q : Timed(q[i].data)
  BY <1>2, DeviceParts DEF Timely, Views
<1>5. d2.inbox = Called(q, n, e)
  BY <1>1, <1>2
<1>6. \A i \in DOMAIN d2.inbox : Timed(d2.inbox[i].data)
  BY <1>3, <1>4, <1>5, CalledTimed
<1>7. \A o \in Codes : Timed(d2.cache[o]) /\ Timed(d2.shown[o])
  BY DEF Timely, Views
<1> QED
  BY <1>6, <1>7 DEF Timely, Views

\* The view of a document is computed again.
LEMMA RefreshTimely ==
    ASSUME NEW u \in Users, NEW d \in Devices, NEW c \in Codes, NEW sv, Timely(u, d, sv)
    PROVE  /\ Timely(u, Refresh(u, d, c), sv)
           /\ Refresh(u, d, c).queue = d.queue /\ Refresh(u, d, c).user = d.user
<1>1. PICK d2 : d2 = Refresh(u, d, c)
  OBVIOUS
<1>2. PICK x \in Docs \cup {NoDoc} : x = Visible(Local(u, d, c))
  BY LocalType
<1>3. /\ d2.queue = d.queue /\ d2.user = d.user /\ d2.cache = d.cache
      /\ \A o \in Codes \ {c} : d2.shown[o] = d.shown[o]
      /\ d2 = d \/ (d2.shown[c] = x /\ d2.inbox = Called(d.inbox, d.listeners[c], Snapshot(c, x)))
  BY <1>1, <1>2, RefreshValues
<1>4. Timed(x)
  BY <1>2, LocalTimed
<1>5. CASE d2 = d
  BY <1>1, <1>5
<1>6. CASE d2.shown[c] = x /\ d2.inbox = Called(d.inbox, d.listeners[c], Snapshot(c, x))
  <2>1. PICK n \in Nat : n = d.listeners[c]
    BY DeviceParts
  <2>2. \A o \in Codes : d2.shown[o] = x \/ d2.shown[o] = d.shown[o]
    BY <1>3, <1>6
  <2>3. d2.inbox = Called(d.inbox, n, Snapshot(c, x)) /\ d2.queue = d.queue /\ d2.cache = d.cache
    BY <1>3, <1>6, <2>1
  <2>4. Timely(u, d2, sv)
    BY <1>4, <2>2, <2>3, ToldTimely
  <2> QED
    BY <1>1, <1>3, <2>4
<1> QED
  BY <1>1, <1>3, <1>5, <1>6

\* Another user's queue is turned to.
LEMMA SwitchedTimely ==
    ASSUME NEW u \in Users, NEW d \in Devices, NEW b \in BOOLEAN, NEW d2 \in Switched(u, d, b),
           NEW sv, Timely(u, d, sv)
    PROVE  Timely(u, d2, sv) /\ d2.user = b
<1> SUFFICES ASSUME d.user # b
             PROVE  Timely(u, d2, sv) /\ d2.user = b
  BY DEF Switched
<1>1. PICK c \in Codes, o \in Codes : d2 = Refresh(u, Refresh(u, [d EXCEPT !.user = b], c), o)
  BY DEF Switched
<1>2. PICK turned : turned = [d EXCEPT !.user = b]
  OBVIOUS
<1>3. /\ turned \in Devices /\ turned.queue = d.queue /\ turned.cache = d.cache
      /\ turned.shown = d.shown /\ turned.inbox = d.inbox /\ turned.user = b
  BY <1>2 DEF Devices
<1>4. Timely(u, turned, sv)
  BY <1>3 DEF Timely, Views
<1>5. PICK e : e = Refresh(u, turned, c)
  OBVIOUS
<1>6. e \in Devices /\ Timely(u, e, sv) /\ e.user = b
  BY <1>3, <1>4, <1>5, RefreshType, RefreshTimely
<1> QED
  BY <1>1, <1>2, <1>5, <1>6, RefreshTimely

\* A write is issued.
LEMMA IssueTimely ==
    ASSUME NEW u \in Users, NEW d \in Devices, NEW sv, Timely(u, d, sv), NEW w \in Writes,
           Proper(d.queue[d.user], w), w.op \in HostOps => d.user = TRUE /\ u \in Hosts
    PROVE  /\ Timely(u, Issue(u, d, w), sv)
           /\ Issue(u, d, w).user = d.user
           /\ \E x \in Writes : /\ SameWrite([w EXCEPT !.num = x.num], x) /\ x.reply = "none"
                                /\ Issue(u, d, w).queue[d.user] = Append(d.queue[d.user], x)
<1>1. w.code \in Codes
  BY WriteParts
<1>2. PICK n \in Int : n = NumberFor(w, Local(u, d, w.code))
  BY <1>1, LocalType, NumberForType
<1>3. PICK x \in Writes : x = [w EXCEPT !.num = n]
  BY DEF Writes
<1>4. x.code = w.code /\ x.op = w.op /\ x.reply = "none" /\ (w.op = "time" => x.num = w.num) /\ x.num = n
  BY <1>2, <1>3 DEF Writes, NumberFor, Counts, Proper
<1>5. PICK old \in Seq(Writes) : old = d.queue[d.user]
  BY DeviceParts
<1>6. PICK r : r = Append(old, x)
  OBVIOUS
<1>7. /\ r \in Seq(Writes) /\ Len(r) = Len(old) + 1
      /\ \A i \in 1 .. Len(old) : r[i] = old[i]
      /\ r[Len(old) + 1] = x
  BY <1>6, AppendProperties
<1>8. Longer(old, r, x) /\ Proper(old, x)
  BY <1>4, <1>5, <1>7 DEF Longer, Proper
<1>9. PICK q : q = [d.queue EXCEPT ![d.user] = r]
  OBVIOUS
<1>10. /\ q \in [BOOLEAN -> Seq(Writes)] /\ q[d.user] = r /\ d.user \in BOOLEAN
       /\ \A b \in BOOLEAN \ {d.user} : q[b] = d.queue[b]
  BY <1>7, <1>9, DeviceParts
<1>11. PICK d2 : d2 = [d EXCEPT !.queue = q]
  OBVIOUS
<1>12. /\ d2 \in Devices /\ d2.queue = q /\ d2.user = d.user /\ d2.cache = d.cache
       /\ d2.shown = d.shown /\ d2.inbox = d.inbox
  BY <1>10, <1>11 DEF Devices
<1>13. Issue(u, d, w) = Refresh(u, d2, w.code)
  BY <1>2, <1>3, <1>5, <1>6, <1>9, <1>11 DEF Issue
<1>14. Orderly(u, d.queue, d.cache, sv)
  BY DEF Timely
<1>15. /\ Queued(r, d.cache, sv)
       /\ \A c \in Codes : Gone(old, d.cache, c, Len(old) + 1) => Gone(r, d.cache, c, Len(r) + 1)
  <2>1. Queued(old, d.cache, sv)
    BY <1>5, <1>10, <1>14 DEF Orderly
  <2>2. \A c \in Codes : Gone(old, d.cache, c, Len(old) + 1) => Gone(r, d.cache, c, Len(old) + 2)
    BY <1>8, <2>1, AppendQueued
  <2>3. Len(old) + 2 = Len(r) + 1
    BY <1>7
  <2> QED
    BY <1>8, <2>1, <2>2, <2>3, AppendQueued
<1>16. Orderly(u, q, d.cache, sv)
  <2>1. \A b \in BOOLEAN : Queued(q[b], d.cache, sv)
    BY <1>10, <1>14, <1>15 DEF Orderly
  <2>2. ASSUME NEW b \in BOOLEAN, NEW i \in DOMAIN q[b], q[b][i].op \in HostOps
        PROVE  b = TRUE /\ u \in Hosts
    <3>1. CASE b = d.user /\ i = Len(old) + 1
      <4>1. q[b][i].op = w.op
        BY <1>4, <1>7, <1>10, <3>1
      <4> QED
        BY <2>2, <3>1, <4>1
    <3>2. CASE ~(b = d.user /\ i = Len(old) + 1)
      <4>1. i \in DOMAIN d.queue[b] /\ q[b][i] = d.queue[b][i]
        BY <1>5, <1>7, <1>10, <2>2, <3>2
      <4> QED
        BY <1>14, <2>2, <4>1 DEF Orderly
    <3> QED
      BY <3>1, <3>2
  <2>3. ASSUME u \in Hosts, NEW c \in Codes, sv[c] = NoDoc
        PROVE  Gone(q[TRUE], d.cache, c, Len(q[TRUE]) + 1)
    <3>1. Gone(d.queue[TRUE], d.cache, c, Len(d.queue[TRUE]) + 1)
      BY <1>14, <2>3 DEF Orderly
    <3>2. CASE d.user = TRUE
      <4>1. old = d.queue[TRUE] /\ q[TRUE] = r
        BY <1>5, <1>10, <3>2
      <4> QED
        BY <1>15, <3>1, <4>1
    <3>3. CASE d.user # TRUE
      BY <1>10, <3>1, <3>3
    <3> QED
      BY <3>2, <3>3
  <2> QED
    BY <2>1, <2>2, <2>3 DEF Orderly
<1>17. Timely(u, d2, sv)
  BY <1>12, <1>16 DEF Timely, Views
<1>18. /\ Timely(u, Refresh(u, d2, w.code), sv) /\ Refresh(u, d2, w.code).queue = q
       /\ Refresh(u, d2, w.code).user = d.user
  BY <1>1, <1>12, <1>17, RefreshTimely
<1>19. SameWrite([w EXCEPT !.num = x.num], x)
  BY <1>3, <1>4 DEF SameWrite
<1> QED
  BY <1>4, <1>5, <1>6, <1>10, <1>13, <1>18, <1>19

\* A new listener.
LEMMA WatchTimely ==
    ASSUME NEW u \in Users, NEW d \in Devices, NEW sv, Timely(u, d, sv), NEW c \in Codes
    PROVE  Timely(u, Watch(u, d, c), sv) /\ Watch(u, d, c).user = d.user
<1>1. d.listeners \in [Codes -> Nat] /\ d.shown \in [Codes -> Docs \cup {NoDoc}]
  BY DeviceParts
<1>2. PICK x : x = IF d.listeners[c] = 0 THEN Visible(Local(u, d, c)) ELSE d.shown[c]
  OBVIOUS
<1>3. x \in Docs \cup {NoDoc}
  BY <1>1, <1>2, LocalType
<1>4. Timed(x)
  <2>1. Timed(Visible(Local(u, d, c)))
    BY LocalTimed
  <2>2. Timed(d.shown[c])
    BY DEF Timely, Views
  <2> QED
    BY <1>2, <2>1, <2>2
<1>5. PICK heard \in BOOLEAN : heard = (x # NoDoc \/ d.link[c] # "connecting")
  OBVIOUS
<1>6. PICK n \in Nat : n = IF heard THEN 1 ELSE 0
  OBVIOUS
<1>7. PICK l : l = [d.listeners EXCEPT ![c] = d.listeners[c] + 1]
  OBVIOUS
<1>8. PICK v : v = [d.shown EXCEPT ![c] = x]
  OBVIOUS
<1>9. PICK f : f = [d.fresh EXCEPT ![c] = IF heard THEN @ ELSE @ + 1]
  OBVIOUS
<1>10. PICK i : i = Called(d.inbox, n, Snapshot(c, x))
  OBVIOUS
<1>11. PICK d2 : d2 = [d EXCEPT !.listeners = l, !.shown = v, !.fresh = f, !.inbox = i]
  OBVIOUS
<1>12. Watch(u, d, c) = d2
  BY <1>2, <1>5, <1>6, <1>7, <1>8, <1>9, <1>10, <1>11 DEF Watch
<1>13. d2.shown = v /\ d2.inbox = i /\ d2.queue = d.queue /\ d2.user = d.user /\ d2.cache = d.cache
  BY <1>11 DEF Devices
<1>14. \A o \in Codes : v[o] = x \/ v[o] = d.shown[o]
  BY <1>1, <1>8
<1>15. Timely(u, d2, sv)
  BY <1>3, <1>4, <1>10, <1>13, <1>14, ToldTimely
<1> QED
  BY <1>12, <1>13, <1>15

\* Listening gets somewhere.
LEMMA ReachTimely ==
    ASSUME NEW u \in Users, NEW d \in Devices, NEW sv, Timely(u, d, sv), NEW c \in Codes, NEW l \in Links
    PROVE  Timely(u, Reach(d, c, l), sv) /\ Reach(d, c, l).user = d.user
<1>1. PICK x : x = d.shown[c]
  OBVIOUS
<1>2. x \in Docs \cup {NoDoc} /\ Timed(x)
  BY <1>1, DeviceParts DEF Timely, Views
<1>3. PICK n \in Nat : n = d.fresh[c]
  BY DeviceParts
<1>4. PICK k : k = [d.link EXCEPT ![c] = l]
  OBVIOUS
<1>5. PICK f : f = [d.fresh EXCEPT ![c] = 0]
  OBVIOUS
<1>6. PICK i : i = Called(d.inbox, n, Snapshot(c, x))
  OBVIOUS
<1>7. PICK d2 : d2 = [d EXCEPT !.link = k, !.fresh = f, !.inbox = i]
  OBVIOUS
<1>8. Reach(d, c, l) = d2
  BY <1>1, <1>3, <1>4, <1>5, <1>6, <1>7 DEF Reach
<1>9. d2.shown = d.shown /\ d2.inbox = i /\ d2.queue = d.queue /\ d2.user = d.user /\ d2.cache = d.cache
  BY <1>7 DEF Devices
<1>10. Timely(u, d2, sv)
  BY <1>2, <1>6, <1>9, ToldTimely
<1> QED
  BY <1>8, <1>9, <1>10

\* A callback is run.
LEMMA HandledTimely ==
    ASSUME NEW u \in Users, NEW d \in Devices, NEW sv, Timely(u, d, sv), d.inbox # <<>>
    PROVE  /\ Handled(d) \in Devices /\ Timely(u, Handled(d), sv)
           /\ Handled(d).user = d.user /\ Timed(Head(d.inbox).data)
<1>1. PICK q \in Seq(Events) : q = d.inbox
  BY DeviceParts
<1>2. PICK t : t = Tail(q)
  OBVIOUS
<1>3. /\ t \in Seq(Events) /\ Len(t) = Len(q) - 1
      /\ \A i \in 1 .. Len(t) : t[i] = q[i + 1]
  BY <1>1, <1>2, HeadTailProperties, Zenon
<1>4. /\ Len(q) \in Nat /\ DOMAIN q = 1 .. Len(q) /\ DOMAIN t = 1 .. Len(t)
      /\ Head(q) = q[1] /\ Len(q) > 0
  BY <1>1, <1>3, EmptySeq
<1>5. \A i \in DOMAIN q : Timed(q[i].data)
  BY <1>1 DEF Timely, Views
<1>6. \A i \in DOMAIN t : Timed(t[i].data)
  <2> SUFFICES ASSUME NEW i \in DOMAIN t PROVE Timed(t[i].data)
    OBVIOUS
  <2>1. i + 1 \in DOMAIN q /\ t[i] = q[i + 1]
    BY <1>3, <1>4
  <2> QED
    BY <1>5, <2>1
<1>7. Timed(Head(d.inbox).data)
  BY <1>1, <1>4, <1>5
<1>8. PICK d2 : d2 = [d EXCEPT !.inbox = t]
  OBVIOUS
<1>9. Handled(d) = d2
  BY <1>1, <1>2, <1>8 DEF Handled
<1>10. /\ d2 \in Devices /\ d2.queue = d.queue /\ d2.cache = d.cache
       /\ d2.shown = d.shown /\ d2.user = d.user /\ d2.inbox = t
  BY <1>3, <1>8 DEF Devices
<1>11. Timely(u, d2, sv)
  BY <1>6, <1>10 DEF Timely, Views
<1> QED
  BY <1>7, <1>9, <1>10, <1>11

\* The process ends: the cache and the queues stay.
LEMMA OnDiskTimely ==
    ASSUME NEW u \in Users, NEW d \in Devices, NEW sv, Timely(u, d, sv), NEW signedIn \in BOOLEAN
    PROVE  Timely(u, OnDisk(d, signedIn), sv) /\ OnDisk(d, signedIn).user = signedIn
<1>1. PICK q : q = [b \in BOOLEAN |-> [i \in DOMAIN d.queue[b] |->
                                         [d.queue[b][i] EXCEPT !.handler = FALSE]]]
  OBVIOUS
<1>2. OnDisk(d, signedIn) = [NewDevice EXCEPT !.user = signedIn, !.queue = q,
                                              !.cache = d.cache, !.acked = d.acked]
  BY <1>1 DEF OnDisk
<1>3. PICK d2 : d2 = OnDisk(d, signedIn)
  OBVIOUS
<1>4. /\ d2.user = signedIn /\ d2.queue = q /\ d2.cache = d.cache
      /\ \A c \in Codes : d2.shown[c] = NoDoc
      /\ d2.inbox = <<>>
  BY <1>2, <1>3 DEF NewDevice
<1>5. Orderly(u, d.queue, d.cache, sv)
  BY DEF Timely
<1>6. ASSUME NEW b \in BOOLEAN
      PROVE  /\ Queued(q[b], d.cache, sv)
             /\ DOMAIN q[b] = DOMAIN d.queue[b] /\ Len(q[b]) = Len(d.queue[b])
             /\ \A i \in DOMAIN d.queue[b] : q[b][i].op = d.queue[b][i].op
             /\ \A c \in Codes : \A n : Gone(d.queue[b], d.cache, c, n) => Gone(q[b], d.cache, c, n)
  <2>1. PICK old \in Seq(Writes) : old = d.queue[b]
    BY DeviceParts
  <2>2. PICK r : r = [i \in DOMAIN old |-> [old[i] EXCEPT !.handler = FALSE]]
    OBVIOUS
  <2>3. q[b] = r
    BY <1>1, <2>1, <2>2
  <2>4. \A w \in Writes : LET x == [w EXCEPT !.handler = FALSE]
                          IN  SameWrite(w, x) /\ x.reply = w.reply /\ x.counter = w.counter
    BY DEF Writes, SameWrite
  <2>5. \A i \in DOMAIN old : old[i] \in Writes
    OBVIOUS
  <2>6. /\ DOMAIN r = DOMAIN old
        /\ \A i \in DOMAIN old : SameWrite(old[i], r[i]) /\ r[i].reply = old[i].reply /\ r[i].counter = old[i].counter
    BY <2>2, <2>4, <2>5
  <2>7. \A i \in DOMAIN old : i \in Nat /\ (i > 1 => i - 1 \in DOMAIN old) /\ (i > 2 => i - 2 \in DOMAIN old)
    OBVIOUS
  <2>8. Queued(old, d.cache, sv)
    BY <1>5, <2>1 DEF Orderly
  <2>9. /\ Queued(r, d.cache, sv)
        /\ \A c \in Codes : \A n : Gone(old, d.cache, c, n) => Gone(r, d.cache, c, n)
    BY <2>6, <2>7, <2>8, SameQueued
  <2>10. \A i \in DOMAIN old : r[i].op = old[i].op
    BY <2>6 DEF SameWrite
  <2>11. Len(r) = Len(old)
    BY <2>2
  <2> QED
    BY <2>1, <2>3, <2>6, <2>9, <2>10, <2>11
<1>7. Orderly(u, q, d.cache, sv)
  <2>1. \A b \in BOOLEAN : Queued(q[b], d.cache, sv)
    BY <1>6
  <2>2. \A b \in BOOLEAN : \A i \in DOMAIN q[b] : q[b][i].op \in HostOps => b = TRUE /\ u \in Hosts
    BY <1>5, <1>6 DEF Orderly
  <2>3. u \in Hosts => \A c \in Codes : sv[c] = NoDoc => Gone(q[TRUE], d.cache, c, Len(q[TRUE]) + 1)
    BY <1>5, <1>6 DEF Orderly
  <2> QED
    BY <2>1, <2>2, <2>3 DEF Orderly
<1>8. Views(d2)
  BY <1>4 DEF Timely, Views, Timed, Missing
<1> QED
  BY <1>3, <1>4, <1>7, <1>8 DEF Timely

\* The answer to the oldest write reaches the device.
LEMMA AcknowledgeTimely ==
    ASSUME NEW u \in Users, NEW d \in Devices, NEW sv, Timely(u, d, sv), Pending(d) # <<>>,
           Head(Pending(d)).reply # "none"
    PROVE  Timely(u, Acknowledge(u, d), sv) /\ Acknowledge(u, d).user = d.user
<1>1. PICK old \in Seq(Writes) : old = d.queue[d.user]
  BY DeviceParts
<1>2. Pending(d) = old /\ old # <<>> /\ d.user \in BOOLEAN
  BY <1>1, DeviceParts DEF Pending
<1>3. PICK r : r = Tail(old)
  OBVIOUS
<1>4. /\ r \in Seq(Writes) /\ Len(r) = Len(old) - 1
      /\ \A i \in 1 .. Len(r) : r[i] = old[i + 1]
  BY <1>2, <1>3, HeadTailProperties, Zenon
<1>5. PICK w \in Writes : w = Head(old)
  BY <1>2, HeadTailProperties, Zenon
<1>6. /\ Len(old) \in Nat /\ DOMAIN old = 1 .. Len(old) /\ DOMAIN r = 1 .. Len(r)
      /\ w = old[1] /\ Len(old) > 0
  BY <1>2, <1>4, <1>5, EmptySeq
<1>7. Shorter(old, r)
  BY <1>4, <1>6 DEF Shorter
<1>8. PICK c \in Codes : c = w.code
  BY WriteParts
<1>9. Orderly(u, d.queue, d.cache, sv) /\ Views(d)
  BY DEF Timely
<1>10. Queued(old, d.cache, sv)
  BY <1>1, <1>2, <1>9 DEF Orderly
<1>11. /\ w.reply # "none" /\ w.reply \in {"none", "ok", "seen", "failed"}
       /\ w.op = "time" => w.counter \in TimeLimits
       /\ Replaces(w) => w.reply # "failed"
  BY <1>2, <1>5, <1>6, <1>10, WriteParts DEF Queued, Grouped
<1>12. w.op = "start" /\ w.reply = "ok" => Chosen(d.cache[c])
  <2> SUFFICES ASSUME w.op = "start", w.reply = "ok" PROVE Chosen(d.cache[c])
    OBVIOUS
  <2>1. 1 \in DOMAIN old /\ TimeIs(old, 1, {"seen"})
    BY <1>6 DEF TimeIs
  <2>2. ~Renewed(old, 1, {"seen"})
    BY <1>6, <1>10 DEF Renewed, Queued, Ordered
  <2> QED
    BY <1>6, <1>8, <1>10, <2>1, <2>2 DEF Queued, Cached
<1>13. d.cache[c] \in CachedDocs /\ Timed(d.cache[c]) /\ w.counter \in Int
  BY <1>9, DeviceParts, WriteParts DEF Views
<1>14. PICK new \in BOOLEAN : new = (w.reply = "ok")
  OBVIOUS
<1>15. PICK x : x = IF ~Replaces(w) /\ Missing(d.cache[c]) THEN Unknown
                    ELSE Apply(u, w, w.counter, d.cache[c])
  OBVIOUS
<1>16. Applicable(w, w.counter, d.cache[c])
  BY <1>11, <1>13 DEF Applicable
<1>17. /\ x \in CachedDocs
       /\ (w.op = "start" => Chosen(d.cache[c])) => Timed(x)
       /\ w.op # "create" /\ Chosen(d.cache[c]) => Chosen(x)
       /\ w.op = "time" => Chosen(x)
       /\ w.op \notin {"create", "delete"} /\ Missing(d.cache[c]) => Missing(x)
       /\ w.op = "delete" => Missing(x)
  <2>1. CASE ~Replaces(w) /\ Missing(d.cache[c])
    BY <1>15, <2>1 DEF CachedDocs, Timed, Chosen, Missing, Replaces
  <2>2. CASE ~(~Replaces(w) /\ Missing(d.cache[c]))
    <3>1. x = Apply(u, w, w.counter, d.cache[c])
      BY <1>15, <2>2
    <3>2. x \in CachedDocs
      BY <1>13, <3>1, ApplyType
    <3> QED
      BY <1>13, <1>16, <3>1, <3>2, ApplyTime DEF Missing
  <2> QED
    BY <2>1, <2>2
<1>18. PICK k : k = [d.cache EXCEPT ![c] = IF new THEN x ELSE @]
  OBVIOUS
<1>19. /\ k \in [Codes -> CachedDocs]
       /\ k[c] = IF new THEN x ELSE d.cache[c]
       /\ \A o \in Codes \ {c} : k[o] = d.cache[o]
  BY <1>17, <1>18, DeviceParts
<1>20. Absorbed(w, d.cache[c], k[c]) /\ Timed(k[c])
  BY <1>11, <1>12, <1>13, <1>14, <1>17, <1>19 DEF Absorbed
<1>21. \A o \in Codes : o # c => k[o] = d.cache[o]
  BY <1>19
<1>22. /\ Queued(r, k, sv)
       /\ \A o \in Codes : Gone(old, d.cache, o, Len(old) + 1) => Gone(r, k, o, Len(r) + 1)
  BY <1>6, <1>7, <1>8, <1>10, <1>20, <1>21, TailQueued
<1>23. PICK q : q = [d.queue EXCEPT ![d.user] = r]
  OBVIOUS
<1>24. /\ q \in [BOOLEAN -> Seq(Writes)] /\ q[d.user] = r
       /\ \A b \in BOOLEAN \ {d.user} : q[b] = d.queue[b]
  BY <1>4, <1>23, DeviceParts
<1>25. ASSUME NEW b \in BOOLEAN, b # d.user
       PROVE  /\ Queued(d.queue[b], k, sv)
              /\ b = TRUE => \A o \in Codes : \A n : Gone(d.queue[b], d.cache, o, n) => Gone(d.queue[b], k, o, n)
  <2>1. PICK p \in Seq(Writes) : p = d.queue[b]
    BY DeviceParts
  <2>2. Queued(p, d.cache, sv)
    BY <1>9, <2>1 DEF Orderly
  <2>3. CASE b = TRUE
    <3>1. 1 \in DOMAIN d.queue[d.user] /\ d.queue[d.user][1] = w
      BY <1>1, <1>6
    <3>2. w.op \notin HostOps
      BY <1>2, <1>9, <1>25, <2>3, <3>1 DEF Orderly
    <3>3. w.op # "create" /\ w.op # "delete"
      BY <3>2 DEF HostOps
    <3>4. \A o \in Codes : /\ Chosen(d.cache[o]) => Chosen(k[o])
                           /\ Missing(d.cache[o]) => Missing(k[o])
      BY <1>20, <1>21, <3>3 DEF Absorbed
    <3>5. \A i \in DOMAIN p : p[i] \in Writes
      OBVIOUS
    <3>6. \A i \in DOMAIN p : p[i].code \in Codes
      BY <3>5, WriteParts
    <3> QED
      BY <2>1, <2>2, <3>4, <3>6, CacheQueued
  <2>4. CASE b # TRUE
    <3>1. \A i \in DOMAIN p : p[i].op \notin HostOps
      BY <1>9, <2>1, <2>4 DEF Orderly
    <3> QED
      BY <2>1, <2>2, <2>4, <3>1, IdleQueued
  <2> QED
    BY <2>3, <2>4
<1>26. Orderly(u, q, k, sv)
  <2>1. \A b \in BOOLEAN : Queued(q[b], k, sv)
    BY <1>22, <1>24, <1>25
  <2>2. ASSUME NEW b \in BOOLEAN, NEW i \in DOMAIN q[b], q[b][i].op \in HostOps
        PROVE  b = TRUE /\ u \in Hosts
    <3>1. CASE b = d.user
      <4>1. i \in 1 .. Len(r) /\ q[b][i] = r[i]
        BY <1>6, <1>24, <3>1
      <4>2. PICK j : j = i + 1
        OBVIOUS
      <4>3. j \in DOMAIN old /\ r[i] = old[j]
        BY <1>4, <1>6, <4>1, <4>2
      <4>4. j \in DOMAIN d.queue[b] /\ q[b][i] = d.queue[b][j]
        BY <1>1, <3>1, <4>1, <4>3
      <4> QED
        BY <1>9, <2>2, <4>4 DEF Orderly
    <3>2. CASE b # d.user
      BY <1>9, <1>24, <2>2, <3>2 DEF Orderly
    <3> QED
      BY <3>1, <3>2
  <2>3. ASSUME u \in Hosts, NEW o \in Codes, sv[o] = NoDoc
        PROVE  Gone(q[TRUE], k, o, Len(q[TRUE]) + 1)
    <3>1. Gone(d.queue[TRUE], d.cache, o, Len(d.queue[TRUE]) + 1)
      BY <1>9, <2>3 DEF Orderly
    <3>2. CASE d.user = TRUE
      <4>1. old = d.queue[TRUE] /\ q[TRUE] = r
        BY <1>1, <1>24, <3>2
      <4> QED
        BY <1>22, <3>1, <4>1
    <3>3. CASE d.user # TRUE
      <4>1. q[TRUE] = d.queue[TRUE]
        BY <1>24, <3>3
      <4> QED
        BY <1>25, <3>1, <3>3, <4>1
    <3> QED
      BY <3>2, <3>3
  <2> QED
    BY <2>1, <2>2, <2>3 DEF Orderly
<1>27. PICK i : i = Called(d.inbox, IF Completes(w) THEN 1 ELSE 0, Completion(w))
  OBVIOUS
<1>28. i \in Seq(Events) /\ \A j \in DOMAIN i : Timed(i[j].data)
  <2>1. PICK p \in Seq(Events) : p = d.inbox
    BY DeviceParts
  <2>2. \A j \in DOMAIN p : Timed(p[j].data)
    BY <1>9, <2>1 DEF Views
  <2>3. CASE Completes(w)
    <3>1. PICK e : e = Completion(w)
      OBVIOUS
    <3>2. e \in Events /\ Timed(e.data)
      BY <2>3, <3>1 DEF Completes, Completion, Events, Writes, Timed, Missing
    <3>3. i = Called(p, 1, e)
      BY <1>27, <2>1, <2>3, <3>1
    <3> QED
      BY <2>2, <3>2, <3>3, CalledType, CalledTimed
  <2>4. CASE ~Completes(w)
    <3>1. i = p \o [j \in 1 .. 0 |-> Completion(w)]
      BY <1>27, <2>1, <2>4 DEF Called
    <3>2. [j \in 1 .. 0 |-> Completion(w)] = <<>>
      OBVIOUS
    <3>3. i = p
      BY <3>1, <3>2, ConcatEmptySeq
    <3> QED
      BY <2>2, <3>3
  <2> QED
    BY <2>3, <2>4
<1>29. PICK a : a = [d.acked EXCEPT ![c] = @ \/ new]
  OBVIOUS
<1>30. a \in [Codes -> BOOLEAN]
  BY <1>29, DeviceParts
<1>31. PICK d2 : d2 = [d EXCEPT !.queue = q, !.cache = k, !.acked = a, !.inbox = i]
  OBVIOUS
<1>32. /\ d2 \in Devices /\ d2.queue = q /\ d2.cache = k /\ d2.inbox = i
       /\ d2.shown = d.shown /\ d2.user = d.user
  BY <1>19, <1>24, <1>28, <1>30, <1>31 DEF Devices, CachedDocs
<1>33. Acknowledge(u, d) = Refresh(u, d2, c)
  <2>1. w = Head(Pending(d)) /\ r = Tail(d.queue[d.user])
    BY <1>1, <1>2, <1>3, <1>5
  <2> QED
    BY <1>8, <1>14, <1>15, <1>18, <1>23, <1>27, <1>29, <1>31, <2>1 DEF Acknowledge
<1>34. Views(d2)
  BY <1>9, <1>20, <1>21, <1>28, <1>32 DEF Views
<1>35. Timely(u, d2, sv)
  BY <1>26, <1>32, <1>34 DEF Timely
<1> QED
  BY <1>32, <1>33, <1>35, RefreshTimely

\* The server's document of c reaches the device.
LEMMA ReceiveTimely ==
    ASSUME NEW u \in Users, NEW d \in Devices, NEW sv \in [Codes -> Docs \cup {NoDoc}], Timely(u, d, sv),
           NEW c \in Codes, Timed(sv[c])
    PROVE  Timely(u, Receive(u, d, c, sv[c]), sv) /\ Receive(u, d, c, sv[c]).user = d.user
<1> DEFINE Seen(w) == IF w.code = c /\ w.reply = "ok" THEN [w EXCEPT !.reply = "seen"] ELSE w
<1>1. PICK q : q = [b \in BOOLEAN |-> [i \in DOMAIN d.queue[b] |-> Seen(d.queue[b][i])]]
  OBVIOUS
<1>2. \A w \in Writes : /\ Seen(w) \in Writes /\ SameWrite(w, Seen(w)) /\ Seen(w).counter = w.counter
                        /\ Seen(w).reply = IF w.code = c /\ w.reply = "ok" THEN "seen" ELSE w.reply
  BY DEF Writes, SameWrite
<1>3. PICK k : k = [d.cache EXCEPT ![c] = sv[c]]
  OBVIOUS
<1>4. PICK a : a = [d.acked EXCEPT ![c] = FALSE]
  OBVIOUS
<1>5. /\ k \in [Codes -> CachedDocs] /\ a \in [Codes -> BOOLEAN] /\ k[c] = sv[c]
      /\ \A o \in Codes : o # c => k[o] = d.cache[o]
  BY <1>3, <1>4, DeviceParts DEF CachedDocs
<1>6. PICK known : known = [d EXCEPT !.cache = k, !.acked = a, !.queue = q]
  OBVIOUS
<1>7. Receive(u, d, c, sv[c]) = Reach(Refresh(u, known, c), c, "synced")
  BY <1>1, <1>3, <1>4, <1>6, Zenon DEF Receive, Seen
<1> HIDE DEF Seen
<1>8. Orderly(u, d.queue, d.cache, sv) /\ Views(d)
  BY DEF Timely
<1>9. ASSUME NEW b \in BOOLEAN
      PROVE  /\ q[b] \in Seq(Writes) /\ DOMAIN q[b] = DOMAIN d.queue[b] /\ Len(q[b]) = Len(d.queue[b])
             /\ Queued(q[b], k, sv)
             /\ \A i \in DOMAIN d.queue[b] : q[b][i].op = d.queue[b][i].op
             /\ sv[c] = NoDoc => \A n : Gone(q[b], k, c, n)
             /\ \A o \in Codes : \A n : o # c /\ Gone(d.queue[b], d.cache, o, n) => Gone(q[b], k, o, n)
  <2>1. PICK old \in Seq(Writes) : old = d.queue[b]
    BY DeviceParts
  <2>2. /\ DOMAIN old = 1 .. Len(old) /\ Len(old) \in Nat
        /\ \A i \in 1 .. Len(old) : old[i] \in Writes
    OBVIOUS
  <2>3. PICK r : r = [i \in 1 .. Len(old) |-> Seen(old[i])]
    OBVIOUS
  <2>4. r \in [1 .. Len(old) -> Writes]
    BY <1>2, <2>2, <2>3
  <2>5. q[b] = r
    BY <1>1, <2>1, <2>2, <2>3, Zenon
  <2>6. r \in Seq(Writes) /\ DOMAIN r = DOMAIN old /\ Len(r) = Len(old)
    BY <2>2, <2>4, SeqOf
  <2>7. \A i \in DOMAIN old : r[i] = Seen(old[i]) /\ old[i] \in Writes
    BY <2>2, <2>3
  <2>8. \A i \in DOMAIN old : /\ SameWrite(old[i], r[i]) /\ r[i].counter = old[i].counter
                              /\ r[i].reply = IF old[i].code = c /\ old[i].reply = "ok" THEN "seen"
                                              ELSE old[i].reply
    BY <1>2, <2>7
  <2>9. Queued(old, d.cache, sv)
    BY <1>8, <2>1 DEF Orderly
  <2>10. /\ Queued(r, k, sv)
         /\ sv[c] = NoDoc => \A n : Gone(r, k, c, n)
         /\ \A o \in Codes : \A n : o # c /\ Gone(old, d.cache, o, n) => Gone(r, k, o, n)
    <3>1. Sees(old, r, c, d.cache, k, sv)
      BY <1>5, <2>6, <2>8 DEF Sees
    <3> QED
      BY <2>9, <3>1, SeenQueued
  <2>11. \A i \in DOMAIN old : r[i].op = old[i].op
    BY <2>8 DEF SameWrite
  <2> QED
    BY <2>1, <2>5, <2>6, <2>10, <2>11
<1>10. q \in [BOOLEAN -> Seq(Writes)]
  BY <1>1, <1>9
<1>11. /\ known \in Devices /\ known.cache = k /\ known.queue = q /\ known.user = d.user
       /\ known.shown = d.shown /\ known.inbox = d.inbox
  BY <1>5, <1>6, <1>10 DEF Devices, CachedDocs
<1>12. Orderly(u, q, k, sv)
  <2>1. \A b \in BOOLEAN : Queued(q[b], k, sv)
    BY <1>9
  <2>2. \A b \in BOOLEAN : \A i \in DOMAIN q[b] : q[b][i].op \in HostOps => b = TRUE /\ u \in Hosts
    BY <1>8, <1>9 DEF Orderly
  <2>3. ASSUME u \in Hosts, NEW o \in Codes, sv[o] = NoDoc
        PROVE  Gone(q[TRUE], k, o, Len(q[TRUE]) + 1)
    <3>1. Gone(d.queue[TRUE], d.cache, o, Len(d.queue[TRUE]) + 1)
      BY <1>8, <2>3 DEF Orderly
    <3> QED
      BY <1>9, <2>3, <3>1
  <2> QED
    BY <2>1, <2>2, <2>3 DEF Orderly
<1>13. Views(known)
  BY <1>5, <1>8, <1>11 DEF Views
<1>14. Timely(u, known, sv)
  BY <1>11, <1>12, <1>13 DEF Timely
<1>15. PICK d3 : d3 = Refresh(u, known, c)
  OBVIOUS
<1>16. d3 \in Devices /\ Timely(u, d3, sv) /\ d3.user = d.user
  BY <1>11, <1>14, <1>15, RefreshType, RefreshTimely
<1>17. "synced" \in Links
  BY DEF Links
<1> QED
  BY <1>7, <1>15, <1>16, <1>17, ReachTimely

------------------------------------------------------------------------------
(* Steps *)

\* User u's device gets to d, the store to s and the screen to x; the others and the
\* server stay.
TurnsTo(u, d, s, x) ==
    /\ Timely(u, d, server) /\ Authorised(u, d, s, x)
    /\ s.sessionLive => s.time \in TimeLimits
    /\ dev' = [dev EXCEPT ![u] = d] /\ store' = [store EXCEPT ![u] = s]
    /\ screen' = [screen EXCEPT ![u] = x] /\ UNCHANGED server

\* A step of user u's that leaves the server alone.
LEMMA TLocalStep ==
    ASSUME IInv, TInv, NEW u \in Users, NEW d, NEW s, NEW x, TurnsTo(u, d, s, x)
    PROVE  TInv'
<1>1. /\ Timely(u, d, server) /\ Authorised(u, d, s, x)
      /\ s.sessionLive => s.time \in TimeLimits
      /\ UNCHANGED server
  BY DEF TurnsTo
<1>2. ASSUME NEW v \in Users
      PROVE  /\ Timely(v, dev'[v], server) /\ Authorised(v, dev'[v], store'[v], screen'[v])
             /\ store'[v].sessionLive => store'[v].time \in TimeLimits
  <2>1. CASE v = u
    <3>1. dev'[v] = d /\ store'[v] = s /\ screen'[v] = x
      BY <2>1 DEF IInv, TypeOK, TurnsTo
    <3> QED
      BY <1>1, <2>1, <3>1
  <2>2. CASE v # u
    <3>1. dev'[v] = dev[v] /\ store'[v] = store[v] /\ screen'[v] = screen[v]
      BY <2>2 DEF IInv, TypeOK, TurnsTo
    <3> QED
      BY <3>1 DEF TInv
  <2> QED
    BY <2>1, <2>2
<1> QED
  BY <1>1, <1>2 DEF TInv

\* The process of user u ends.
LEMMA TerminateTimely ==
    ASSUME IInv, TInv, NEW u \in Users, NEW d \in Devices, Timely(u, d, server),
           Terminate(u, d), UNCHANGED server
    PROVE  TInv'
<1>0. store[u].session \in BOOLEAN /\ (u \in Hosts => store[u].session)
  BY DEF IInv, TypeOK, Stores, TInv, Authorised
<1>1. PICK s : s = NewStore(store[u].session)
  OBVIOUS
<1>2. s.session = store[u].session /\ ~s.sessionLive
  BY <1>1 DEF NewStore
<1>3. PICK e : e = OnDisk(d, store[u].session)
  OBVIOUS
<1>4. Timely(u, e, server) /\ e.user = s.session
  BY <1>0, <1>2, <1>3, OnDiskTimely
<1>5. Authorised(u, e, s, "home")
  BY <1>0, <1>2, <1>4 DEF Authorised
<1>6. TurnsTo(u, e, s, "home")
  BY <1>1, <1>2, <1>3, <1>4, <1>5 DEF TurnsTo, Terminate
<1> QED
  BY <1>6, TLocalStep

\* A write other than the time and the start is issued.
LEMMA WritesTimely ==
    ASSUME NEW u \in Users, NEW d \in Devices, NEW sv, Timely(u, d, sv), NEW w \in Writes,
           w.reply = "none", w.op \notin {"time", "start"},
           w.op \in {"create", "delete"} => d.user = TRUE /\ u \in Hosts
    PROVE  /\ Issue(u, d, w) \in Devices /\ Timely(u, Issue(u, d, w), sv)
           /\ Issue(u, d, w).user = d.user
<1>1. Proper(d.queue[d.user], w)
  BY DEF Proper
<1>2. w.op \in HostOps => d.user = TRUE /\ u \in Hosts
  BY DEF HostOps
<1> QED
  BY <1>1, <1>2, IssueType, IssueTimely

\* Navigation and the end of a process preserve the invariant.
LEMMA NavigationTimely ==
    ASSUME OneHost, IInv, TInv, NEW u \in Users,
           \/ OpenCreate(u) \/ OpenJoin(u)
           \/ LeaveCreateScreen(u) \/ LeaveJoinScreen(u)
           \/ SignOut(u) \/ HearSignOut(u) \/ SignIn(u) \/ Quit(u) \/ Launch(u)
    PROVE  TInv'
<1>1. TypeOK
  BY DEF IInv
<1>2. /\ dev = [dev EXCEPT ![u] = dev[u]] /\ store = [store EXCEPT ![u] = store[u]]
      /\ screen = [screen EXCEPT ![u] = screen[u]]
      /\ dev[u] \in Devices /\ store[u] \in Stores
  BY <1>1 DEF TypeOK
<1>3. /\ Timely(u, dev[u], server) /\ Authorised(u, dev[u], store[u], screen[u])
      /\ store[u].sessionLive => store[u].time \in TimeLimits
  BY DEF TInv
<1>4. CASE OpenCreate(u)
  <2>1. PICK s : s = [store[u] EXCEPT !.createdSession = TRUE]
    OBVIOUS
  <2>2. s.session = store[u].session /\ s.sessionLive = store[u].sessionLive /\ s.time = store[u].time
    BY <1>2, <2>1 DEF Stores
  <2>3. /\ store' = [store EXCEPT ![u] = s] /\ screen' = [screen EXCEPT ![u] = "create"]
        /\ UNCHANGED <<server, dev>> /\ u \in Hosts
    BY <1>1, <1>4, <2>1 DEF OpenCreate, TypeOK
  <2>4. Authorised(u, dev[u], s, "create")
    BY <1>3, <2>2, <2>3 DEF Authorised
  <2>5. TurnsTo(u, dev[u], s, "create")
    BY <1>2, <1>3, <2>2, <2>3, <2>4 DEF TurnsTo
  <2> QED
    BY <2>5, TLocalStep
<1>5. CASE OpenJoin(u)
  <2>1. /\ screen' = [screen EXCEPT ![u] = "join"] /\ UNCHANGED <<server, dev, store>>
    BY <1>5 DEF OpenJoin
  <2>2. Authorised(u, dev[u], store[u], "join")
    BY <1>3, <2>1 DEF Authorised
  <2>3. TurnsTo(u, dev[u], store[u], "join")
    BY <1>2, <1>3, <2>1, <2>2 DEF TurnsTo
  <2> QED
    BY <2>3, TLocalStep
<1>6. ASSUME NEW d, Timely(u, d, server), d.user = dev[u].user, dev' = [dev EXCEPT ![u] = d],
             screen' = [screen EXCEPT ![u] = "home"], UNCHANGED <<server, store>>
      PROVE  TInv'
  <2>1. Authorised(u, d, store[u], "home")
    BY <1>3, <1>6 DEF Authorised
  <2>2. TurnsTo(u, d, store[u], "home")
    BY <1>2, <1>3, <1>6, <2>1 DEF TurnsTo
  <2> QED
    BY <2>2, TLocalStep
<1>7. ASSUME NEW op \in {"leave", "delete"}, NEW c \in Codes, op = "delete" => screen[u] = "create"
      PROVE  /\ Timely(u, Issue(u, dev[u], Write(op, c)), server)
             /\ Issue(u, dev[u], Write(op, c)).user = dev[u].user
  <2>1. PICK w : w = Write(op, c)
    OBVIOUS
  <2>2. op \in Ops
    BY DEF Ops
  <2>3. w \in Writes /\ w.op = op /\ w.reply = "none"
    BY <2>1, <2>2, WriteType DEF Write
  <2>4. op = "delete" => dev[u].user = TRUE /\ u \in Hosts
    BY <1>2, <1>3, <1>7, DeviceParts DEF Authorised
  <2> QED
    BY <1>2, <1>3, <2>1, <2>3, <2>4, WritesTimely
<1>8. store[u].sessionCode # NoCode => store[u].sessionCode \in Codes
  BY <1>2 DEF Stores
<1>9. CASE LeaveCreateScreen(u)
  <2>1. /\ screen[u] = "create" /\ screen' = [screen EXCEPT ![u] = "home"]
        /\ UNCHANGED <<server, store>>
    BY <1>9 DEF LeaveCreateScreen, ScreenGone
  <2>2. CASE ~store[u].sessionLive /\ store[u].sessionCode # NoCode
    <3>1. PICK d : d = Issue(u, dev[u], Write("delete", store[u].sessionCode))
      OBVIOUS
    <3>2. dev' = [dev EXCEPT ![u] = d]
      BY <1>9, <2>2, <3>1 DEF LeaveCreateScreen
    <3>3. Timely(u, d, server) /\ d.user = dev[u].user
      BY <1>7, <1>8, <2>1, <2>2, <3>1
    <3> QED
      BY <1>6, <2>1, <3>2, <3>3
  <2>3. CASE ~(~store[u].sessionLive /\ store[u].sessionCode # NoCode)
    <3>1. dev' = dev
      BY <1>9, <2>3 DEF LeaveCreateScreen
    <3> QED
      BY <1>2, <1>3, <1>6, <2>1, <3>1
  <2> QED
    BY <2>2, <2>3
<1>10. CASE LeaveJoinScreen(u)
  <2>1. CASE Terminate(u, dev[u])
    <3>1. UNCHANGED server
      BY <1>10 DEF LeaveJoinScreen
    <3> QED
      BY <1>2, <1>3, <2>1, <3>1, TerminateTimely
  <2>2. ASSUME ~Terminate(u, dev[u])
        PROVE  TInv'
    <3>1. screen' = [screen EXCEPT ![u] = "home"] /\ UNCHANGED <<server, store>>
      BY <1>10, <2>2 DEF LeaveJoinScreen, ScreenGone
    <3>2. CASE store[u].sessionCode # NoCode
      <4>1. PICK d : d = Issue(u, dev[u], Write("leave", store[u].sessionCode))
        OBVIOUS
      <4>2. dev' = [dev EXCEPT ![u] = d]
        BY <1>10, <2>2, <3>2, <4>1 DEF LeaveJoinScreen
      <4>3. Timely(u, d, server) /\ d.user = dev[u].user
        BY <1>7, <1>8, <3>2, <4>1
      <4> QED
        BY <1>6, <3>1, <4>2, <4>3
    <3>3. CASE store[u].sessionCode = NoCode
      <4>1. dev' = dev
        BY <1>10, <2>2, <3>3 DEF LeaveJoinScreen
      <4> QED
        BY <1>2, <1>3, <1>6, <3>1, <4>1
    <3> QED
      BY <3>2, <3>3
  <2> QED
    BY <2>1, <2>2
<1>11. ASSUME NEW d, Timely(u, d, server), NEW s, s.sessionLive = store[u].sessionLive,
              s.time = store[u].time, u \notin Hosts, UNCHANGED <<server, screen>>,
              dev' = [dev EXCEPT ![u] = d], store' = [store EXCEPT ![u] = s]
       PROVE  TInv'
  <2>1. Authorised(u, d, s, screen[u])
    BY <1>3, <1>11 DEF Authorised
  <2>2. TurnsTo(u, d, s, screen[u])
    BY <1>2, <1>3, <1>11, <2>1 DEF TurnsTo
  <2> QED
    BY <2>2, TLocalStep
<1>12. CASE SignOut(u)
  <2>1. PICK s : s = [store[u] EXCEPT !.session = FALSE]
    OBVIOUS
  <2>2. s.sessionLive = store[u].sessionLive /\ s.time = store[u].time
    BY <1>2, <2>1 DEF Stores
  <2>3. /\ store' = [store EXCEPT ![u] = s] /\ dev' = [dev EXCEPT ![u] = dev[u]]
        /\ UNCHANGED <<server, screen>>
    BY <1>1, <1>2, <1>12, <2>1 DEF SignOut
  <2>4. u \notin Hosts
    <3>1. Allowed(u, "sign") /\ used[u]["sign"] \in Nat
      BY <1>1, <1>12 DEF SignOut, TypeOK, Kinds
    <3> QED
      BY <3>1 DEF OneHost, Allowed
  <2> QED
    BY <1>3, <1>11, <2>2, <2>3, <2>4
<1>13. CASE HearSignOut(u) \/ SignIn(u)
  <2>1. u \notin Hosts
    BY <1>3, <1>13 DEF HearSignOut, SignIn, Authorised
  <2>2. PICK b \in BOOLEAN :
           \E s : /\ \E d \in Switched(u, dev[u], b) :
                         dev' = [dev EXCEPT ![u] = d] /\ store' = [store EXCEPT ![u] = s]
                  /\ \/ s = store[u]
                     \/ s = [store[u] EXCEPT !.session = TRUE, !.createdSession = FALSE]
    <3>1. CASE HearSignOut(u)
      <4>1. \E d \in Switched(u, dev[u], FALSE) :
                dev' = [dev EXCEPT ![u] = d] /\ store' = [store EXCEPT ![u] = store[u]]
        BY <1>2, <3>1 DEF HearSignOut
      <4> QED
        BY <4>1
    <3>2. CASE SignIn(u)
      <4>1. PICK s : s = [store[u] EXCEPT !.session = TRUE, !.createdSession = FALSE]
        OBVIOUS
      <4>2. \E d \in Switched(u, dev[u], TRUE) :
                dev' = [dev EXCEPT ![u] = d] /\ store' = [store EXCEPT ![u] = s]
        BY <3>2, <4>1 DEF SignIn, Do
      <4> QED
        BY <4>1, <4>2
    <3> QED
      BY <1>13, <3>1, <3>2
  <2>3. PICK s : /\ \E d \in Switched(u, dev[u], b) :
                        dev' = [dev EXCEPT ![u] = d] /\ store' = [store EXCEPT ![u] = s]
                 /\ \/ s = store[u]
                    \/ s = [store[u] EXCEPT !.session = TRUE, !.createdSession = FALSE]
    BY <2>2
  <2>4. s.sessionLive = store[u].sessionLive /\ s.time = store[u].time
    BY <1>2, <2>3 DEF Stores
  <2>5. PICK d \in Switched(u, dev[u], b) :
              dev' = [dev EXCEPT ![u] = d] /\ store' = [store EXCEPT ![u] = s]
    BY <2>3
  <2>6. Timely(u, d, server)
    BY <1>2, <1>3, <2>5, SwitchedTimely
  <2>7. UNCHANGED <<server, screen>>
    BY <1>13 DEF HearSignOut, SignIn
  <2> QED
    BY <1>11, <2>1, <2>4, <2>5, <2>6, <2>7
<1>14. CASE Quit(u)
  <2>1. Terminate(u, dev[u]) /\ UNCHANGED server
    BY <1>14 DEF Quit
  <2> QED
    BY <1>2, <1>3, <2>1, TerminateTimely
<1>15. CASE Launch(u)
  BY <1>15 DEF Launch, TInv
<1> QED
  BY <1>4, <1>5, <1>9, <1>10, <1>12, <1>13, <1>14, <1>15

\* The queue p is q with a write like w at its end.
Queues(q, w, p) == \E x \in Writes : /\ SameWrite([w EXCEPT !.num = x.num], x) /\ x.reply = "none"
                                     /\ p = Append(q, x)

\* One of the host's writes is issued.
LEMMA StartedTimely ==
    ASSUME NEW u \in Users, u \in Hosts, NEW d \in Devices, NEW sv, Timely(u, d, sv), d.user = TRUE,
           NEW w \in Writes, Proper(d.queue[TRUE], w), NEW e, e = Issue(u, d, w)
    PROVE  /\ e \in Devices /\ Timely(u, e, sv) /\ e.user = TRUE
           /\ Queues(d.queue[TRUE], w, e.queue[TRUE])
<1>1. Proper(d.queue[d.user], w)
  OBVIOUS
<1>2. Issue(u, d, w) \in Devices
  BY IssueType
<1>3. /\ Timely(u, Issue(u, d, w), sv)
      /\ Issue(u, d, w).user = d.user
      /\ \E x \in Writes : /\ SameWrite([w EXCEPT !.num = x.num], x) /\ x.reply = "none"
                           /\ Issue(u, d, w).queue[d.user] = Append(d.queue[d.user], x)
  BY <1>1, IssueTimely
<1> QED
  BY <1>2, <1>3 DEF Queues

\* The device d becomes e by the three writes of start().
Starts(u, d, c, t, r, e) ==
    \E d1, d2 : /\ d1 = Issue(u, d, [Write("time", c) EXCEPT !.num = t])
                /\ d2 = Issue(u, d1, [Write("radius", c) EXCEPT !.num = r])
                /\ e = Issue(u, d2, Write("start", c))

\* The three writes of start().
LEMMA StartTimely ==
    ASSUME NEW u \in Hosts, NEW d \in Devices, NEW sv, Timely(u, d, sv), d.user = TRUE,
           NEW t \in TimeLimits, NEW r \in Radii, NEW c \in Codes, NEW d3, Starts(u, d, c, t, r, d3)
    PROVE  d3 \in Devices /\ Timely(u, d3, sv) /\ d3.user = TRUE
<1>0. u \in Users /\ t \in Int /\ r \in Int /\ {"time", "radius", "start"} \subseteq Ops
  BY FirestoreAssumption, SessionStoreAssumption DEF Ops
<1>. PICK d1, d2 : /\ d1 = Issue(u, d, [Write("time", c) EXCEPT !.num = t])
                   /\ d2 = Issue(u, d1, [Write("radius", c) EXCEPT !.num = r])
                   /\ d3 = Issue(u, d2, Write("start", c))
  BY Zenon DEF Starts
<1>1. PICK wt : wt = [Write("time", c) EXCEPT !.num = t]
  OBVIOUS
<1>2. PICK wr : wr = [Write("radius", c) EXCEPT !.num = r]
  OBVIOUS
<1>3. PICK ws : ws = Write("start", c)
  OBVIOUS
<1>4. wt \in Writes /\ wt.op = "time" /\ wt.code = c /\ wt.reply = "none" /\ wt.num = t
  BY <1>0, <1>1, WriteType DEF Write
<1>5. wr \in Writes /\ wr.op = "radius" /\ wr.code = c /\ wr.reply = "none"
  BY <1>0, <1>2, WriteType DEF Write
<1>6. ws \in Writes /\ ws.op = "start" /\ ws.code = c /\ ws.reply = "none"
  BY <1>0, <1>3, WriteType DEF Write
<1>7. PICK q \in Seq(Writes) : q = d.queue[TRUE]
  BY DeviceParts
<1>8. Proper(q, wt)
  BY <1>4 DEF Proper
<1>9. /\ d1 \in Devices /\ Timely(u, d1, sv) /\ d1.user = TRUE
      /\ Queues(q, wt, d1.queue[TRUE])
  <2>1. d1 = Issue(u, d, wt)
    BY <1>1
  <2> QED
    BY <1>0, <1>4, <1>7, <1>8, <2>1, StartedTimely
<1>10. PICK xt \in Writes : /\ SameWrite([wt EXCEPT !.num = xt.num], xt) /\ xt.reply = "none"
                            /\ d1.queue[TRUE] = Append(q, xt)
  BY <1>9 DEF Queues
<1>11. xt.op = "time" /\ xt.code = c
  BY <1>4, <1>10 DEF SameWrite, Writes
<1>12. PICK q1 : q1 = Append(q, xt)
  OBVIOUS
<1>13. q1 \in Seq(Writes) /\ Len(q1) = Len(q) + 1 /\ q1[Len(q) + 1] = xt /\ Len(q) \in Nat
  BY <1>12, AppendProperties
<1>14. /\ d2 \in Devices /\ Timely(u, d2, sv) /\ d2.user = TRUE
       /\ Queues(q1, wr, d2.queue[TRUE])
  <2>1. d2 = Issue(u, d1, wr) /\ d1.queue[TRUE] = q1
    BY <1>2, <1>10, <1>12
  <2>2. Proper(q1, wr)
    BY <1>5 DEF Proper
  <2> QED
    BY <1>0, <1>5, <1>9, <2>1, <2>2, StartedTimely
<1>15. PICK xr \in Writes : /\ SameWrite([wr EXCEPT !.num = xr.num], xr) /\ xr.reply = "none"
                            /\ d2.queue[TRUE] = Append(q1, xr)
  BY <1>14 DEF Queues
<1>16. xr.op = "radius"
  BY <1>5, <1>15 DEF SameWrite, Writes
<1>17. PICK q2 : q2 = Append(q1, xr)
  OBVIOUS
<1>18. /\ q2 \in Seq(Writes) /\ Len(q2) = Len(q1) + 1 /\ q2[Len(q1) + 1] = xr
       /\ \A i \in 1 .. Len(q1) : q2[i] = q1[i]
  BY <1>13, <1>17, AppendProperties
<1>19. Proper(q2, ws)
  <2>1. /\ Len(q2) >= 2 /\ q2[Len(q2)] = xr /\ Len(q2) - 1 = Len(q1) /\ Len(q1) \in 1 .. Len(q1)
    BY <1>13, <1>18
  <2>2. q2[Len(q2) - 1] = xt
    BY <1>13, <1>18, <2>1
  <2> QED
    BY <1>6, <1>10, <1>11, <1>16, <2>1, <2>2 DEF Proper
<1>20. d3 = Issue(u, d2, ws) /\ d2.queue[TRUE] = q2
  BY <1>3, <1>15, <1>17
<1>21. Proper(d2.queue[TRUE], ws)
  BY <1>19, <1>20
<1>22. d2 \in Devices /\ Timely(u, d2, sv) /\ d2.user = TRUE
  BY <1>14
<1>23. u \in Users /\ u \in Hosts /\ ws \in Writes /\ d3 = Issue(u, d2, ws)
  BY <1>0, <1>6, <1>20
<1> QED
  BY <1>21, <1>22, <1>23, StartedTimely

\* The device gets to d; the store, the screen and the server stay.
LEMMA DeviceTimely ==
    ASSUME IInv, TInv, NEW u \in Users, NEW d, Timely(u, d, server), d.user = dev[u].user,
           dev' = [dev EXCEPT ![u] = d], UNCHANGED <<server, store, screen>>
    PROVE  TInv'
<1>1. /\ store = [store EXCEPT ![u] = store[u]] /\ screen = [screen EXCEPT ![u] = screen[u]]
      /\ Authorised(u, dev[u], store[u], screen[u])
      /\ store[u].sessionLive => store[u].time \in TimeLimits
  BY DEF IInv, TypeOK, TInv
<1>2. Authorised(u, d, store[u], screen[u])
  BY <1>1 DEF Authorised
<1>3. TurnsTo(u, d, store[u], screen[u])
  BY <1>1, <1>2 DEF TurnsTo
<1> QED
  BY <1>3, TLocalStep

\* The operations of a session preserve the invariant.
LEMMA OperationTimely ==
    ASSUME IInv, TInv, NEW u \in Users,
           \/ \E c \in Codes : CreateSession(u, c)
           \/ \E c \in Codes : JoinSession(u, c)
           \/ \E t \in TimeLimits, r \in Radii : Start(u, t, r)
           \/ ReceiveRestaurants(u) \/ FetchFails(u)
           \/ \E r \in Restaurants : LikeRestaurant(u, r)
           \/ EndSession(u)
    PROVE  TInv'
<1>1. TypeOK
  BY DEF IInv
<1>2. /\ dev = [dev EXCEPT ![u] = dev[u]] /\ store = [store EXCEPT ![u] = store[u]]
      /\ screen = [screen EXCEPT ![u] = screen[u]]
      /\ dev[u] \in Devices /\ store[u] \in Stores
  BY <1>1 DEF TypeOK
<1>3. /\ Timely(u, dev[u], server) /\ Authorised(u, dev[u], store[u], screen[u])
      /\ store[u].sessionLive => store[u].time \in TimeLimits
  BY DEF TInv
<1>4. store[u].sessionCode # NoCode => store[u].sessionCode \in Codes
  BY <1>2 DEF Stores
<1>5. screen[u] = "create" => dev[u].user = TRUE /\ u \in Hosts
  BY <1>2, <1>3, DeviceParts DEF Authorised
<1>6. ASSUME NEW op \in {"join", "list", "end", "create"}, NEW c \in Codes,
             op = "create" => screen[u] = "create"
      PROVE  LET d == Issue(u, dev[u], Write(op, c))
             IN  d \in Devices /\ Timely(u, d, server) /\ d.user = dev[u].user
  <2>1. PICK w : w = Write(op, c)
    OBVIOUS
  <2>2. op \in Ops
    BY DEF Ops
  <2>3. w \in Writes /\ w.op = op /\ w.reply = "none"
    BY <2>1, <2>2, WriteType DEF Write
  <2>4. w.op \notin {"time", "start"} /\ (w.op \in {"create", "delete"} => dev[u].user = TRUE /\ u \in Hosts)
    BY <1>5, <1>6, <2>3
  <2>5. PICK f \in Devices : f = dev[u]
    BY <1>2
  <2>6. Timely(u, f, server) /\ (w.op \in {"create", "delete"} => f.user = TRUE /\ u \in Hosts)
    BY <1>3, <2>4, <2>5
  <2>7. /\ Issue(u, f, w) \in Devices /\ Timely(u, Issue(u, f, w), server)
        /\ Issue(u, f, w).user = f.user
    BY <2>3, <2>4, <2>6, WritesTimely
  <2> QED
    BY <2>1, <2>5, <2>7
<1>7. ASSUME NEW c \in Codes, CreateSession(u, c) PROVE TInv'
  <2>1. PICK d : d = Issue(u, dev[u], Write("create", c))
    OBVIOUS
  <2>2. screen[u] = "create"
    BY <1>7 DEF CreateSession, CreateForm, OnTop
  <2>3. d \in Devices /\ Timely(u, d, server) /\ d.user = dev[u].user
    BY <1>6, <2>1, <2>2
  <2>4. PICK e : e = Watch(u, d, c)
    OBVIOUS
  <2>5. Timely(u, e, server) /\ e.user = dev[u].user
    BY <2>3, <2>4, WatchTimely
  <2>6. PICK s : s = [store[u] EXCEPT !.sessionCode = c]
    OBVIOUS
  <2>7. s.session = store[u].session /\ s.sessionLive = store[u].sessionLive /\ s.time = store[u].time
    BY <1>2, <2>6 DEF Stores
  <2>8. /\ dev' = [dev EXCEPT ![u] = e] /\ store' = [store EXCEPT ![u] = s]
        /\ UNCHANGED <<server, screen>>
    BY <1>7, <2>1, <2>4, <2>6 DEF CreateSession, Do
  <2>9. Authorised(u, e, s, screen[u])
    BY <1>3, <2>5, <2>7 DEF Authorised
  <2>10. TurnsTo(u, e, s, screen[u])
    BY <1>2, <1>3, <2>5, <2>7, <2>8, <2>9 DEF TurnsTo
  <2> QED
    BY <2>10, TLocalStep
<1>8. ASSUME NEW c \in Codes, JoinSession(u, c) PROVE TInv'
  <2>1. PICK d : d = Issue(u, dev[u], Write("join", c))
    OBVIOUS
  <2>2. Timely(u, d, server) /\ d.user = dev[u].user
    BY <1>6, <2>1
  <2>3. dev' = [dev EXCEPT ![u] = d] /\ UNCHANGED <<server, store, screen>>
    BY <1>8, <2>1 DEF JoinSession
  <2> QED
    BY <2>2, <2>3, DeviceTimely
<1>9. ASSUME NEW t \in TimeLimits, NEW r \in Radii, Start(u, t, r) PROVE TInv'
  <2>1. PICK c \in Codes : c = store[u].sessionCode
    BY <1>4, <1>9 DEF Start
  <2>2. PICK d1 : d1 = Issue(u, dev[u], [Write("time", c) EXCEPT !.num = t])
    OBVIOUS
  <2>3. PICK d2 : d2 = Issue(u, d1, [Write("radius", c) EXCEPT !.num = r])
    OBVIOUS
  <2>4. PICK d3 : d3 = Issue(u, d2, Write("start", c))
    OBVIOUS
  <2>5. PICK e : e = Watch(u, d3, c)
    OBVIOUS
  <2>6. dev[u].user = TRUE /\ u \in Hosts
    BY <1>5, <1>9 DEF Start, CreateForm, OnTop
  <2>7. d3 \in Devices /\ Timely(u, d3, server) /\ d3.user = dev[u].user
    <3>1. Starts(u, dev[u], c, t, r, d3)
      BY <2>2, <2>3, <2>4, Zenon DEF Starts
    <3>2. PICK f \in Devices : f = dev[u]
      BY <1>2
    <3>3. Timely(u, f, server) /\ f.user = TRUE /\ Starts(u, f, c, t, r, d3)
      BY <1>3, <2>6, <3>1, <3>2
    <3> QED
      BY <2>6, <3>2, <3>3, StartTimely
  <2>8. Timely(u, e, server) /\ e.user = dev[u].user
    BY <2>5, <2>7, WatchTimely
  <2>9. dev' = [dev EXCEPT ![u] = e] /\ UNCHANGED <<server, store, screen>>
    BY <1>9, <2>1, <2>2, <2>3, <2>4, <2>5 DEF Start
  <2> QED
    BY <2>8, <2>9, DeviceTimely
<1>11. CASE ReceiveRestaurants(u)
  <2>1. CASE store[u].sessionCode = NoCode
    <3>1. Terminate(u, dev[u]) /\ UNCHANGED server
      BY <1>11, <2>1 DEF ReceiveRestaurants
    <3> QED
      BY <1>2, <1>3, <3>1, TerminateTimely
  <2>2. CASE store[u].sessionCode # NoCode
    <3>1. PICK d : d = Issue(u, dev[u], Write("list", store[u].sessionCode))
      OBVIOUS
    <3>2. Timely(u, d, server) /\ d.user = dev[u].user
      BY <1>4, <1>6, <2>2, <3>1
    <3>3. dev' = [dev EXCEPT ![u] = d] /\ UNCHANGED <<server, store, screen>>
      BY <1>11, <2>2, <3>1 DEF ReceiveRestaurants
    <3> QED
      BY <3>2, <3>3, DeviceTimely
  <2> QED
    BY <2>1, <2>2
<1>12. CASE FetchFails(u)
  BY <1>12 DEF FetchFails, TInv
<1>13. ASSUME NEW r \in Restaurants, LikeRestaurant(u, r) PROVE TInv'
  <2>1. PICK l : l = store[u].likedRestaurants \cup {r}
    OBVIOUS
  <2>2. PICK s : s = [store[u] EXCEPT !.likedRestaurants = l]
    OBVIOUS
  <2>3. s.session = store[u].session /\ s.sessionLive = store[u].sessionLive /\ s.time = store[u].time
    BY <1>2, <2>2 DEF Stores
  <2>4. store' = [store EXCEPT ![u] = s] /\ UNCHANGED <<server, dev, screen>>
    BY <1>1, <1>13, <2>1, <2>2 DEF LikeRestaurant, TypeOK
  <2>5. Authorised(u, dev[u], s, screen[u])
    BY <1>3, <2>3 DEF Authorised
  <2>6. TurnsTo(u, dev[u], s, screen[u])
    BY <1>2, <1>3, <2>3, <2>4, <2>5 DEF TurnsTo
  <2> QED
    BY <2>6, TLocalStep
<1>14. CASE EndSession(u)
  <2>1. CASE store[u].sessionCode = NoCode
    <3>1. Terminate(u, dev[u]) /\ UNCHANGED server
      BY <1>14, <2>1 DEF EndSession
    <3> QED
      BY <1>2, <1>3, <3>1, TerminateTimely
  <2>2. CASE store[u].sessionCode # NoCode
    <3>1. PICK d : d = Issue(u, dev[u], Write("end", store[u].sessionCode))
      OBVIOUS
    <3>2. Timely(u, d, server) /\ d.user = dev[u].user
      BY <1>4, <1>6, <2>2, <3>1
    <3>3. dev' = [dev EXCEPT ![u] = d] /\ UNCHANGED <<server, store, screen>>
      BY <1>14, <2>2, <3>1 DEF EndSession
    <3> QED
      BY <3>2, <3>3, DeviceTimely
  <2> QED
    BY <2>1, <2>2
<1> QED
  BY <1>7, <1>8, <1>9, <1>11, <1>12, <1>13, <1>14

\* A snapshot with data: the store takes over a document whose time is chosen when
\* it is live.
LEMMA SnapshotDataTimely ==
    ASSUME IInv, TInv, NEW u \in Users, SnapshotData(u)
    PROVE  TInv'
<1>1. TypeOK
  BY DEF IInv
<1>2. /\ screen = [screen EXCEPT ![u] = screen[u]]
      /\ dev[u] \in Devices /\ store[u] \in Stores
  BY <1>1 DEF TypeOK
<1>3. Timely(u, dev[u], server) /\ Authorised(u, dev[u], store[u], screen[u])
  BY DEF TInv
<1>4. dev[u].inbox # <<>> /\ Head(dev[u].inbox).data # NoDoc
  BY DEF SnapshotData, Arrived, CallbackDue
<1>5. PICK popped : popped = Handled(dev[u])
  OBVIOUS
<1>6. PICK e \in Events : e = Head(dev[u].inbox)
  BY <1>4, HandledFits DEF IInv
<1>7. PICK d \in Docs : d = e.data
  BY <1>4, <1>6 DEF Events
<1>8. /\ popped \in Devices /\ Timely(u, popped, server) /\ popped.user = dev[u].user
      /\ Timed(d)
  BY <1>2, <1>3, <1>4, <1>5, <1>6, <1>7, HandledTimely DEF Authorised
<1>9. d.live => d.time \in TimeLimits
  BY <1>8, MissingAssumption DEF Timed, Missing
<1>10. PICK push \in BOOLEAN : push = MustPush(store[u], d)
  BY DEF MustPush
<1>11. PICK after : after = IF push THEN PushResults(u, popped) ELSE popped
  OBVIOUS
<1>12. PICK new : new = [Absorb(store[u], d) EXCEPT !.pushed = @ \/ push]
  OBVIOUS
<1>13. store[u].sessionCode # NoCode => store[u].sessionCode \in Codes
  BY <1>2 DEF Stores
<1>14. /\ \/ push /\ store[u].sessionCode = NoCode /\ Terminate(u, popped)
          \/ Terminate(u, popped)
          \/ /\ push => store[u].sessionCode # NoCode
             /\ Terminate(u, after)
          \/ /\ push => store[u].sessionCode # NoCode
             /\ Do(u, after, new) /\ UNCHANGED screen
          \/ /\ push => store[u].sessionCode # NoCode
             /\ store[u].sessionCode # NoCode
             /\ \E sel \in Selections(d.likes) : Do(u, CalcResult(u, after, sel), new)
             /\ UNCHANGED screen
       /\ UNCHANGED server
  BY <1>5, <1>6, <1>7, <1>10, <1>11, <1>12, Zenon DEF SnapshotData
<1>15. /\ new.session = store[u].session /\ new.sessionLive = d.live /\ new.time = d.time
  <2>1. PICK b \in BOOLEAN : b = (Absorb(store[u], d).pushed \/ push)
    OBVIOUS
  <2>2. new = [Absorb(store[u], d) EXCEPT !.pushed = b]
    BY <1>12, <2>1
  <2> QED
    BY <1>2, <2>2 DEF Absorb, Stores
<1>16. ASSUME push => store[u].sessionCode # NoCode
       PROVE  after \in Devices /\ Timely(u, after, server) /\ after.user = dev[u].user
  <2>1. CASE push
    <3>1. PICK l \in SUBSET Restaurants : l = store[u].likedRestaurants
      BY <1>2 DEF Stores
    <3>2. PICK c \in Codes : c = store[u].sessionCode
      BY <1>13, <1>16, <2>1
    <3>3. PICK w : w = [Write("push", c) EXCEPT !.liked = l]
      OBVIOUS
    <3>4. "push" \in Ops
      BY DEF Ops
    <3>5. w \in Writes /\ w.op = "push" /\ w.reply = "none"
      BY <3>3, <3>4, WriteType DEF Write
    <3>6. after = Issue(u, popped, w)
      BY <1>11, <2>1, <3>1, <3>2, <3>3 DEF PushResults
    <3> QED
      BY <1>8, <3>5, <3>6, WritesTimely
  <2>2. CASE ~push
    BY <1>8, <1>11, <2>2
  <2> QED
    BY <2>1, <2>2
<1>17. ASSUME NEW dd, Timely(u, dd, server), dd.user = dev[u].user, Do(u, dd, new),
              UNCHANGED <<server, screen>>
       PROVE  TInv'
  <2>1. Authorised(u, dd, new, screen[u])
    BY <1>3, <1>15, <1>17 DEF Authorised
  <2>2. TurnsTo(u, dd, new, screen[u])
    BY <1>2, <1>9, <1>15, <1>17, <2>1 DEF TurnsTo, Do
  <2> QED
    BY <2>2, TLocalStep
<1>18. CASE Terminate(u, popped)
  BY <1>8, <1>14, <1>18, TerminateTimely
<1>19. CASE (push => store[u].sessionCode # NoCode) /\ Terminate(u, after)
  BY <1>14, <1>16, <1>19, TerminateTimely
<1>20. CASE (push => store[u].sessionCode # NoCode) /\ Do(u, after, new) /\ UNCHANGED screen
  BY <1>14, <1>16, <1>17, <1>20
<1>21. ASSUME push => store[u].sessionCode # NoCode, store[u].sessionCode # NoCode,
              NEW sel \in Selections(d.likes), Do(u, CalcResult(u, after, sel), new), UNCHANGED screen
       PROVE  TInv'
  <2>1. sel \in Results
    BY DEF Selections, Consensus, Results
  <2>2. PICK c \in Codes : c = store[u].sessionCode
    BY <1>13, <1>21
  <2>3. PICK w : w = [Write("result", c) EXCEPT !.sel = sel]
    OBVIOUS
  <2>4. "result" \in Ops
    BY DEF Ops
  <2>5. w \in Writes /\ w.op = "result" /\ w.reply = "none"
    BY <2>1, <2>3, <2>4, WriteType DEF Write
  <2>6. PICK dd : dd = Issue(u, after, w)
    OBVIOUS
  <2>7. dd = CalcResult(u, after, sel)
    BY <2>2, <2>3, <2>6 DEF CalcResult
  <2>8. after \in Devices /\ Timely(u, after, server) /\ after.user = dev[u].user
    BY <1>16, <1>21
  <2>9. Timely(u, dd, server) /\ dd.user = dev[u].user
    BY <2>5, <2>6, <2>8, WritesTimely
  <2> QED
    BY <1>14, <1>17, <1>21, <2>7, <2>9
<1> QED
  BY <1>14, <1>18, <1>19, <1>20, <1>21

\* The callbacks preserve the invariant.
LEMMA CallbackTimely ==
    ASSUME IInv, TInv, NEW u \in Users, Callback(u)
    PROVE  TInv'
<1>1. TypeOK
  BY DEF IInv
<1>2. /\ screen = [screen EXCEPT ![u] = screen[u]]
      /\ dev[u] \in Devices /\ store[u] \in Stores
  BY <1>1 DEF TypeOK
<1>3. /\ Timely(u, dev[u], server) /\ Authorised(u, dev[u], store[u], screen[u])
      /\ store[u].sessionLive => store[u].time \in TimeLimits
  BY DEF TInv
<1>4. dev[u].inbox # <<>>
  BY DEF Callback, Joined, Left, Deleted, SnapshotGone, SnapshotData, Arrived, CallbackDue
<1>5. PICK e \in Events : e = Head(dev[u].inbox)
  BY <1>4, HandledFits DEF IInv
<1>6. PICK d : d = Handled(dev[u])
  OBVIOUS
<1>7. d \in Devices /\ Timely(u, d, server) /\ d.user = dev[u].user /\ e.code \in Codes
  BY <1>2, <1>3, <1>4, <1>6, HandledTimely DEF Events
<1>8. ASSUME NEW dd, NEW s, Timely(u, dd, server), dd.user = dev[u].user, Do(u, dd, s),
             s.session = store[u].session,
             ~s.sessionLive \/ (s.sessionLive = store[u].sessionLive /\ s.time = store[u].time),
             UNCHANGED <<server, screen>>
      PROVE  TInv'
  <2>1. Authorised(u, dd, s, screen[u]) /\ (s.sessionLive => s.time \in TimeLimits)
    BY <1>3, <1>8 DEF Authorised
  <2>2. TurnsTo(u, dd, s, screen[u])
    BY <1>2, <1>8, <2>1 DEF TurnsTo, Do
  <2> QED
    BY <2>2, TLocalStep
<1>9. Callback(u) /\ ~SnapshotData(u) => UNCHANGED <<server, screen>>
  BY DEF Callback, Joined, Left, Deleted, SnapshotGone
<1>10. CASE Joined(u) /\ e.ok
  <2>1. PICK dd : dd = Watch(u, d, e.code)
    OBVIOUS
  <2>2. Timely(u, dd, server) /\ dd.user = dev[u].user
    BY <1>7, <2>1, WatchTimely
  <2>3. PICK s : s = [store[u] EXCEPT !.sessionCode = e.code]
    OBVIOUS
  <2>4. s.session = store[u].session /\ s.sessionLive = store[u].sessionLive /\ s.time = store[u].time
    BY <1>2, <2>3 DEF Stores
  <2>5. Do(u, dd, s) /\ UNCHANGED <<server, screen>>
    BY <1>5, <1>6, <1>10, <2>1, <2>3 DEF Joined
  <2> QED
    BY <1>8, <2>2, <2>4, <2>5
<1>11. ASSUME NEW x, Do(u, d, [store[u] EXCEPT !.sessionError = x]), UNCHANGED <<server, screen>>
       PROVE  TInv'
  <2>1. PICK s : s = [store[u] EXCEPT !.sessionError = x]
    OBVIOUS
  <2>2. s.session = store[u].session /\ s.sessionLive = store[u].sessionLive /\ s.time = store[u].time
    BY <1>2, <2>1 DEF Stores
  <2> QED
    BY <1>7, <1>8, <1>11, <2>1, <2>2
<1>12. ASSUME Do(u, d, Cleared(store[u])), UNCHANGED <<server, screen>> PROVE TInv'
  <2>1. PICK s : s = Cleared(store[u])
    OBVIOUS
  <2>2. s.session = store[u].session /\ ~s.sessionLive
    BY <1>2, <2>1 DEF Cleared, Stores
  <2> QED
    BY <1>7, <1>8, <1>12, <2>1, <2>2
<1>13. CASE Joined(u) /\ ~e.ok
  <2>1. Do(u, d, [store[u] EXCEPT !.sessionError = "join"]) /\ UNCHANGED <<server, screen>>
    BY <1>5, <1>6, <1>13 DEF Joined
  <2> QED
    BY <1>11, <2>1
<1>14. CASE Left(u)
  <2>1. /\ \/ Do(u, d, Cleared(store[u]))
           \/ Do(u, d, [store[u] EXCEPT !.sessionError = "leave"])
        /\ UNCHANGED <<server, screen>>
    BY <1>6, <1>14 DEF Left
  <2> QED
    BY <1>11, <1>12, <2>1
<1>15. CASE Deleted(u)
  <2>1. Do(u, d, Cleared(store[u])) /\ UNCHANGED <<server, screen>>
    BY <1>6, <1>15 DEF Deleted
  <2> QED
    BY <1>12, <2>1
<1>16. CASE SnapshotGone(u)
  <2>1. PICK s : s = [store[u] EXCEPT !.sessionCode = NoCode, !.numParticipants = 0,
                              !.result = NoResult, !.sessionError = "deleted",
                              !.sessionDeleted = TRUE]
    OBVIOUS
  <2>2. s.session = store[u].session /\ s.sessionLive = store[u].sessionLive /\ s.time = store[u].time
    BY <1>2, <2>1 DEF Stores
  <2>3. Do(u, d, s) /\ UNCHANGED <<server, screen>>
    BY <1>6, <1>16, <2>1 DEF SnapshotGone
  <2> QED
    BY <1>7, <1>8, <2>2, <2>3
<1>17. CASE SnapshotData(u)
  BY <1>17, SnapshotDataTimely
<1> QED
  BY <1>10, <1>13, <1>14, <1>15, <1>16, <1>17 DEF Callback

\* The server's documents sv become sv2 by a write that is not one of the host's.
Spares(sv, sv2) == \A c \in Codes : /\ Chosen(sv[c]) => Chosen(sv2[c])
                                    /\ sv[c] = NoDoc <=> sv2[c] = NoDoc

\* The codes in a device's queue.
LEMMA QueueCodes ==
    ASSUME NEW d \in Devices, NEW b \in BOOLEAN
    PROVE  \A i \in DOMAIN d.queue[b] : d.queue[b][i].code \in Codes
<1>1. PICK q \in Seq(Writes) : q = d.queue[b]
  BY DeviceParts
<1>2. \A i \in DOMAIN q : q[i] \in Writes
  OBVIOUS
<1> QED
  BY <1>1, <1>2, WriteParts

\* A device whose queues are not touched, when another user's write is executed.
LEMMA OthersOrderly ==
    ASSUME NEW v \in Users, NEW d \in Devices, NEW sv, NEW sv2, Orderly(v, d.queue, d.cache, sv),
           v \notin Hosts \/ Spares(sv, sv2)
    PROVE  Orderly(v, d.queue, d.cache, sv2)
<1>1. CASE v \notin Hosts
  <2>1. \A b \in BOOLEAN : \A i \in DOMAIN d.queue[b] : d.queue[b][i].op \notin HostOps
    BY <1>1 DEF Orderly
  <2>2. \A b \in BOOLEAN : Queued(d.queue[b], d.cache, sv2)
    BY <2>1, IdleQueued DEF Orderly
  <2> QED
    BY <1>1, <2>2 DEF Orderly
<1>2. CASE Spares(sv, sv2)
  <2>1. \A c \in Codes : (Chosen(sv[c]) => Chosen(sv2[c])) /\ (sv[c] = NoDoc => sv2[c] = NoDoc)
    BY <1>2 DEF Spares
  <2>2. \A b \in BOOLEAN : Queued(d.queue[b], d.cache, sv2)
    BY <2>1, QueueCodes, ServerQueued DEF Orderly
  <2>3. \A c \in Codes : sv2[c] = NoDoc => sv[c] = NoDoc
    BY <1>2 DEF Spares
  <2> QED
    BY <2>2, <2>3 DEF Orderly
<1> QED
  BY <1>1, <1>2

\* The device whose write is executed: the queue b becomes r, the other one stays.
LEMMA ServedOrderly ==
    ASSUME NEW u \in Users, NEW d \in Devices, NEW sv, NEW sv2, Orderly(u, d.queue, d.cache, sv),
           NEW b \in BOOLEAN, NEW r, NEW k, Serves(d.queue[b], r, k, sv, sv2), Len(r) = Len(d.queue[b]),
           d.queue[b][k].op \notin HostOps => Spares(sv, sv2),
           NEW qs, qs[b] = r, \A o \in BOOLEAN \ {b} : qs[o] = d.queue[o]
    PROVE  Orderly(u, qs, d.cache, sv2)
<1>1. PICK q \in Seq(Writes) : q = d.queue[b]
  BY DeviceParts
<1>2. Serves(q, r, k, sv, sv2) /\ Len(r) = Len(q) /\ Queued(q, d.cache, sv)
  BY <1>1 DEF Orderly
<1>3. k \in DOMAIN q /\ DOMAIN r = DOMAIN q /\ \A i \in DOMAIN q : r[i].op = q[i].op
  BY <1>2 DEF Serves, SameWrite
<1>4. q[k].op \in HostOps => b = TRUE /\ u \in Hosts
  BY <1>1, <1>3 DEF Orderly
<1>5. q[k].op = "time" /\ sv[q[k].code] = NoDoc => Gone(q, d.cache, q[k].code, Len(q) + 1)
  <2> SUFFICES ASSUME q[k].op = "time", sv[q[k].code] = NoDoc
               PROVE  Gone(q, d.cache, q[k].code, Len(q) + 1)
    OBVIOUS
  <2>1. b = TRUE /\ u \in Hosts
    BY <1>4 DEF HostOps
  <2>2. q[k].code \in Codes
    BY <1>1, <1>3, QueueCodes
  <2> QED
    BY <1>1, <2>1, <2>2 DEF Orderly
<1>6. /\ Queued(r, d.cache, sv2)
      /\ \A o \in Codes : (sv[o] = NoDoc => Gone(q, d.cache, o, Len(q) + 1)) =>
                            (sv2[o] = NoDoc => Gone(r, d.cache, o, Len(q) + 1))
  BY <1>2, <1>5, ServeQueued
<1>7. ASSUME NEW o \in BOOLEAN, o # b PROVE Queued(d.queue[o], d.cache, sv2)
  <2>1. Queued(d.queue[o], d.cache, sv)
    BY DEF Orderly
  <2>2. CASE o = TRUE
    <3>1. q[k].op \notin HostOps
      BY <1>4, <1>7, <2>2
    <3>2. \A c \in Codes : (Chosen(sv[c]) => Chosen(sv2[c])) /\ (sv[c] = NoDoc => sv2[c] = NoDoc)
      BY <1>1, <3>1 DEF Spares
    <3> QED
      BY <2>1, <3>2, QueueCodes, ServerQueued
  <2>3. CASE o # TRUE
    <3>1. \A i \in DOMAIN d.queue[o] : d.queue[o][i].op \notin HostOps
      BY <2>3 DEF Orderly
    <3> QED
      BY <2>1, <3>1, IdleQueued
  <2> QED
    BY <2>2, <2>3
<1>8. \A o \in BOOLEAN : Queued(qs[o], d.cache, sv2)
  <2> SUFFICES ASSUME NEW o \in BOOLEAN PROVE Queued(qs[o], d.cache, sv2)
    OBVIOUS
  <2>1. CASE o = b
    BY <1>6, <2>1
  <2>2. CASE o # b
    BY <1>7, <2>2
  <2> QED
    BY <2>1, <2>2
<1>9. ASSUME NEW o \in BOOLEAN, NEW i \in DOMAIN qs[o], qs[o][i].op \in HostOps
      PROVE  o = TRUE /\ u \in Hosts
  <2>1. i \in DOMAIN d.queue[o] /\ d.queue[o][i].op = qs[o][i].op
    <3>1. CASE o = b
      BY <1>1, <1>3, <1>9, <3>1
    <3>2. CASE o # b
      BY <1>9, <3>2
    <3> QED
      BY <3>1, <3>2
  <2> QED
    BY <1>9, <2>1 DEF Orderly
<1>10. ASSUME u \in Hosts, NEW c \in Codes, sv2[c] = NoDoc
       PROVE  Gone(qs[TRUE], d.cache, c, Len(qs[TRUE]) + 1)
  <2>1. sv[c] = NoDoc => Gone(d.queue[TRUE], d.cache, c, Len(d.queue[TRUE]) + 1)
    BY <1>10 DEF Orderly
  <2>2. CASE b = TRUE
    <3>1. qs[TRUE] = r /\ d.queue[TRUE] = q
      BY <1>1, <2>2
    <3>2. Gone(r, d.cache, c, Len(q) + 1)
      BY <1>6, <1>10, <2>1, <3>1
    <3> QED
      BY <1>2, <3>1, <3>2
  <2>3. CASE b # TRUE
    <3>1. q[k].op \notin HostOps /\ qs[TRUE] = d.queue[TRUE]
      BY <1>4, <2>3
    <3>2. sv[c] = NoDoc
      BY <1>1, <1>10, <3>1 DEF Spares
    <3> QED
      BY <2>1, <3>1, <3>2
  <2> QED
    BY <2>2, <2>3
<1> QED
  BY <1>8, <1>9, <1>10 DEF Orderly

\* The server executes a write.
LEMMA CommitTimely ==
    ASSUME OneHost, IInv, TInv, NEW u \in Users, NEW b \in BOOLEAN, Commit(u, b)
    PROVE  TInv'
<1>1. TypeOK
  BY DEF IInv
<1>2. dev[u] \in Devices /\ Timely(u, dev[u], server)
  BY <1>1 DEF TypeOK, TInv
<1>3. PICK q \in Seq(Writes) : q = dev[u].queue[b]
  BY <1>2, DeviceParts
<1>4. PICK i \in DOMAIN q :
        /\ q[i].reply = "none" /\ \A j \in 1 .. i - 1 : q[j].reply # "none"
        /\ server' = [server EXCEPT ![q[i].code] =
                        Apply(u, q[i], NumberFor(q[i], server[q[i].code]), server[q[i].code])]
        /\ dev' = [dev EXCEPT ![u].queue[b][i] =
                     [q[i] EXCEPT !.counter = NumberFor(q[i], server[q[i].code]),
                                  !.reply = IF Replaces(q[i]) \/ server[q[i].code] # NoDoc
                                            THEN "ok" ELSE "failed"]]
  BY <1>3, ZenonT(40) DEF Commit
<1>5. PICK w \in Writes : w = q[i]
  BY <1>3
<1>6. PICK c \in Codes : c = w.code
  BY WriteParts
<1>7. server[c] \in Docs \cup {NoDoc} /\ Timed(server[c]) /\ server[c] \in CachedDocs
  BY <1>1 DEF TypeOK, TInv, CachedDocs
<1>8. PICK n \in Int : n = NumberFor(w, server[c])
  BY <1>7, NumberForType
<1>9. PICK new : new = Apply(u, w, n, server[c])
  OBVIOUS
<1>10. PICK a : a = IF Replaces(w) \/ server[c] # NoDoc THEN "ok" ELSE "failed"
  OBVIOUS
<1>11. server' = [server EXCEPT ![c] = new]
  BY <1>4, <1>5, <1>6, <1>8, <1>9
<1>12. Orderly(u, dev[u].queue, dev[u].cache, server) /\ Queued(q, dev[u].cache, server)
  BY <1>2, <1>3 DEF Timely, Orderly
<1>13. w.op = "time" => n \in TimeLimits
  BY <1>5, <1>8, <1>12 DEF Queued, Grouped, NumberFor, Counts
<1>14. \A j \in DOMAIN q : j < i => q[j].reply # "none"
  <2>1. \A j \in DOMAIN q : j < i => j \in 1 .. i - 1
    BY <1>3
  <2> QED
    BY <1>4, <2>1
<1>15. w.op = "start" => Chosen(server[c])
  BY <1>4, <1>5, <1>6, <1>12, <1>14, StartsChosen
<1>16. Applicable(w, n, server[c])
  BY <1>7, <1>13 DEF Applicable
<1>17. new \in Docs \cup {NoDoc}
  BY <1>7, <1>9, ApplyType
<1>18. Timed(new) /\ Served(w, a, server[c], new)
  <2>1. /\ Timed(server[c]) /\ (w.op = "start" => Chosen(server[c])) => Timed(new)
        /\ w.op # "create" /\ Chosen(server[c]) => Chosen(new)
        /\ w.op = "time" => Chosen(new)
        /\ w.op \notin {"create", "delete"} => (Missing(new) <=> Missing(server[c]))
        /\ w.op = "create" => ~Missing(new)
        /\ w.op = "delete" => new = NoDoc
    BY <1>9, <1>16, ApplyTime
  <2>2. (Missing(new) <=> new = NoDoc) /\ (Missing(server[c]) <=> server[c] = NoDoc)
    BY <1>7, <1>17, MissingAssumption DEF Missing
  <2> QED
    BY <1>7, <1>10, <1>15, <2>1, <2>2 DEF Served, Replaces
<1>19. PICK sv : sv = server'
  OBVIOUS
<1>20. sv[c] = new /\ \A o \in Codes : o # c => sv[o] = server[o]
  BY <1>1, <1>11, <1>19 DEF TypeOK
<1>21. \A o \in Codes : Timed(sv[o])
  BY <1>18, <1>20 DEF TInv
<1>22. w.op \notin HostOps => Spares(server, sv)
  BY <1>18, <1>20 DEF Spares, Served, HostOps, Replaces
<1>23. PICK x : x = [w EXCEPT !.counter = n, !.reply = a]
  OBVIOUS
<1>24. SameWrite(w, x) /\ x.counter = n /\ x.reply = a
  BY <1>23 DEF SameWrite, Writes
<1>25. PICK r : r = [q EXCEPT ![i] = x]
  OBVIOUS
<1>26. PICK qs : qs = [dev[u].queue EXCEPT ![b] = r]
  OBVIOUS
<1>27. PICK d : d = [dev[u] EXCEPT !.queue = qs]
  OBVIOUS
<1>28. dev' = [dev EXCEPT ![u] = d]
  BY <1>3, <1>4, <1>5, <1>6, <1>8, <1>10, <1>23, <1>25, <1>26, <1>27
<1>29. /\ DOMAIN r = DOMAIN q /\ r[i] = x /\ Len(r) = Len(q)
       /\ \A j \in DOMAIN q : j # i => r[j] = q[j]
  BY <1>3, <1>25
<1>30. qs[b] = r /\ \A o \in BOOLEAN \ {b} : qs[o] = dev[u].queue[o]
  BY <1>2, <1>26, DeviceParts
<1>31. /\ d.queue = qs /\ d.user = dev[u].user /\ d.cache = dev[u].cache
       /\ d.shown = dev[u].shown /\ d.inbox = dev[u].inbox
  BY <1>2, <1>27 DEF Devices
<1>32. Serves(q, r, i, server, sv)
  BY <1>4, <1>5, <1>6, <1>13, <1>14, <1>18, <1>20, <1>24, <1>29 DEF Serves
<1>33. Orderly(u, qs, dev[u].cache, sv)
  BY <1>2, <1>3, <1>5, <1>12, <1>22, <1>29, <1>30, <1>32, ServedOrderly
<1>34. Timely(u, d, sv)
  BY <1>2, <1>31, <1>33 DEF Timely, Views
<1>35. UNCHANGED <<store, screen>>
  BY DEF Commit
<1>36. w.op \in HostOps => u \in Hosts
  BY <1>3, <1>5, <1>12 DEF Orderly
<1>37. ASSUME NEW v \in Users
       PROVE  /\ Timely(v, dev'[v], sv) /\ Authorised(v, dev'[v], store'[v], screen'[v])
              /\ store'[v].sessionLive => store'[v].time \in TimeLimits
  <2>1. CASE v = u
    <3>1. dev'[v] = d
      BY <1>1, <1>28, <2>1 DEF TypeOK
    <3>2. Authorised(u, d, store[u], screen[u])
      BY <1>31 DEF TInv, Authorised
    <3> QED
      BY <1>34, <1>35, <2>1, <3>1, <3>2 DEF TInv
  <2>2. CASE v # u
    <3>1. dev'[v] = dev[v] /\ dev[v] \in Devices
      BY <1>1, <1>28, <2>2 DEF TypeOK
    <3>2. Views(dev[v]) /\ Orderly(v, dev[v].queue, dev[v].cache, server)
      BY DEF TInv, Timely
    <3>3. v \notin Hosts \/ Spares(server, sv)
      BY <1>22, <1>36, <2>2 DEF OneHost
    <3>4. Orderly(v, dev[v].queue, dev[v].cache, sv)
      BY <3>1, <3>2, <3>3, OthersOrderly
    <3> QED
      BY <1>35, <3>1, <3>2, <3>4 DEF TInv, Timely
  <2> QED
    BY <2>1, <2>2
<1> QED
  BY <1>19, <1>21, <1>37 DEF TInv

\* The network preserves the invariant.
LEMMA NetworkTimely ==
    ASSUME OneHost, IInv, TInv, NEW u \in Users,
           \/ \E b \in BOOLEAN : Commit(u, b)
           \/ Ack(u)
           \/ \E c \in Codes : Sync(u, c) \/ GoOffline(u, c)
    PROVE  TInv'
<1>1. dev[u] \in Devices /\ server \in [Codes -> Docs \cup {NoDoc}]
  BY DEF IInv, TypeOK
<1>2. Timely(u, dev[u], server)
  BY DEF TInv
<1>3. CASE \E b \in BOOLEAN : Commit(u, b)
  BY <1>3, CommitTimely
<1>4. CASE Ack(u)
  <2>1. PICK d : d = Acknowledge(u, dev[u])
    OBVIOUS
  <2>2. Pending(dev[u]) # <<>> /\ Head(Pending(dev[u])).reply # "none"
    BY <1>4 DEF Ack, AckDue
  <2>3. Timely(u, d, server) /\ d.user = dev[u].user
    BY <1>1, <1>2, <2>1, <2>2, AcknowledgeTimely
  <2>4. dev' = [dev EXCEPT ![u] = d] /\ UNCHANGED <<server, store, screen>>
    BY <1>4, <2>1 DEF Ack
  <2> QED
    BY <2>3, <2>4, DeviceTimely
<1>5. ASSUME NEW c \in Codes, Sync(u, c) PROVE TInv'
  <2>1. PICK d : d = Receive(u, dev[u], c, server[c])
    OBVIOUS
  <2>2. Timed(server[c])
    BY DEF TInv
  <2>3. Timely(u, d, server) /\ d.user = dev[u].user
    BY <1>1, <1>2, <2>1, <2>2, ReceiveTimely
  <2>4. dev' = [dev EXCEPT ![u] = d] /\ UNCHANGED <<server, store, screen>>
    BY <1>5, <2>1 DEF Sync
  <2> QED
    BY <2>3, <2>4, DeviceTimely
<1>6. ASSUME NEW c \in Codes, GoOffline(u, c) PROVE TInv'
  <2>1. PICK d : d = Reach(dev[u], c, "offline")
    OBVIOUS
  <2>2. "offline" \in Links
    BY DEF Links
  <2>3. Timely(u, d, server) /\ d.user = dev[u].user
    BY <1>1, <1>2, <2>1, <2>2, ReachTimely
  <2>4. dev' = [dev EXCEPT ![u] = d] /\ UNCHANGED <<server, store, screen>>
    BY <1>6, <2>1 DEF GoOffline
  <2> QED
    BY <2>3, <2>4, DeviceTimely
<1> QED
  BY <1>3, <1>4, <1>5, <1>6

------------------------------------------------------------------------------

\* With one host the inductive invariant is an invariant of the specification.
LEMMA TInvariance == ASSUME OneHost PROVE Spec => []TInv
<1>1. Init => TInv
  <2> SUFFICES ASSUME Init PROVE TInv
    OBVIOUS
  <2>1. \A c \in Codes : server[c] = NoDoc /\ Timed(server[c])
    BY DEF Init, Timed, Missing
  <2>2. ASSUME NEW u \in Users
        PROVE  /\ Timely(u, dev[u], server) /\ Authorised(u, dev[u], store[u], screen[u])
               /\ ~store[u].sessionLive
    <3>1. dev[u] = NewDevice /\ store[u].session = TRUE /\ ~store[u].sessionLive /\ screen[u] = "home"
      BY DEF Init, NewStore
    <3>2. /\ \A b \in BOOLEAN : dev[u].queue[b] = <<>>
          /\ \A c \in Codes : dev[u].cache[c] = Unknown /\ dev[u].shown[c] = NoDoc
          /\ dev[u].inbox = <<>> /\ dev[u].user = TRUE
      BY <3>1 DEF NewDevice
    <3>3. Views(dev[u])
      BY <3>2 DEF Views, Timed, Missing
    <3>4. Orderly(u, dev[u].queue, dev[u].cache, server)
      <4>1. PICK q : q = <<>>
        OBVIOUS
      <4>2. DOMAIN q = {}
        BY <4>1
      <4>3. \A b \in BOOLEAN : dev[u].queue[b] = q
        BY <3>2, <4>1
      <4>4. Queued(q, dev[u].cache, server)
        BY <4>2 DEF Queued, Ordered, Grouped, Executed, Cached
      <4>5. \A c \in Codes : \A n : Gone(q, dev[u].cache, c, n)
        BY <3>2, <4>2 DEF Gone, Missing
      <4> QED
        BY <4>2, <4>3, <4>4, <4>5 DEF Orderly
    <3> QED
      BY <3>1, <3>2, <3>3, <3>4 DEF Timely, Authorised
  <2> QED
    BY <2>1, <2>2 DEF TInv
<1>2. IInv /\ TInv /\ [Next]_vars => TInv'
  <2> SUFFICES ASSUME IInv, TInv, [Next]_vars PROVE TInv'
    OBVIOUS
  <2>1. CASE UNCHANGED vars
    BY <2>1 DEF vars, TInv
  <2>2. CASE Next
    <3>1. PICK u \in Users :
            \/ OpenCreate(u) \/ OpenJoin(u)
            \/ LeaveCreateScreen(u) \/ LeaveJoinScreen(u)
            \/ SignOut(u) \/ HearSignOut(u) \/ SignIn(u) \/ Quit(u) \/ Launch(u)
            \/ \E c \in Codes : CreateSession(u, c)
            \/ \E c \in Codes : JoinSession(u, c)
            \/ \E t \in TimeLimits, r \in Radii : Start(u, t, r)
            \/ ReceiveRestaurants(u) \/ FetchFails(u)
            \/ \E r \in Restaurants : LikeRestaurant(u, r)
            \/ EndSession(u)
            \/ Callback(u)
            \/ \E b \in BOOLEAN : Commit(u, b)
            \/ Ack(u)
            \/ \E c \in Codes : Sync(u, c) \/ GoOffline(u, c)
      BY <2>2, Zenon DEF Next, Callback
    <3> QED
      BY <3>1, NavigationTimely, OperationTimely, CallbackTimely, NetworkTimely, Zenon
  <2> QED
    BY <2>1, <2>2
<1> QED
  BY <1>1, <1>2, Invariance, PTL DEF Spec

\* With one host, whom nobody signs out, the countdown of every device starts from a
\* time that the host chose, whoever goes back, closes the app or is offline and
\* whichever guest signs out: start() writes the time before the session goes live
\* (CreateSession.swift:95-97, LiveSession.swift:79).
THEOREM StartsFromChosenTime == ASSUME OneHost PROVE Spec => []CountsDownChosenTime
<1>1. TInv => CountsDownChosenTime
  BY DEF TInv, CountsDownChosenTime, ShowsLive
<1> QED
  BY <1>1, TInvariance, PTL
==============================================================================
