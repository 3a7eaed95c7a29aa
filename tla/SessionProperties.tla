--------------------------- MODULE SessionProperties ---------------------------
(***************************************************************************)
(* What the session protocol of SessionStore.tla should guarantee, and the *)
(* fairness under which it should make progress.                           *)
(***************************************************************************)
EXTENDS SessionStore, FiniteSets

\* Something is left to do on u's device that does not depend on what people do: an
\* answer or a document to receive, a callback to run, a countdown to end, or a write
\* to send for the user that the SDK knows of.
WorkDue(u) == \/ AckDue(u) \/ CallbackDue(u) \/ EndDue(u)
              \/ \E c \in Codes : SyncDue(u, c)
              \/ /\ running[u]
                 /\ \E i \in DOMAIN Pending(dev[u]) :
                       /\ i <= MaxReplies /\ Pending(dev[u])[i].reply = "none"
                       /\ \A j \in 1 .. i - 1 : Pending(dev[u])[j].reply # "none"

\* Some of it is done.
Works(u) == /\ running[u] /\ dev'[u] # dev[u]
            /\ \/ Ack(u) \/ Callback(u) \/ EndSession(u)
               \/ \E c \in Codes : Sync(u, c)
               \/ Commit(u, dev[u].user)

\* A device that always has something left to do does something, again and again.
\* What it does first is open, so this is less than fairness of every action.
Fairness == \A u \in Users : []<>~WorkDue(u) \/ []<><<Works(u)>>_vars

FairSpec == Spec /\ Fairness

\* u's device has a write of kind op that the server has not executed yet.
HasPending(u, op) ==
    \E b \in BOOLEAN : \E i \in DOMAIN dev[u].queue[b] :
        dev[u].queue[b][i].op = op /\ dev[u].queue[b][i].reply = "none"

\* Step: u's device runs calcResult and queues its write.
Calculates(u) ==
    \E b \in BOOLEAN :
        LET q == dev'[u].queue[b]
        IN  Len(q) > Len(dev[u].queue[b]) /\ q[Len(q)].op = "result"

\* Nothing is under way between u's device and the server.
Settled(u) == /\ running[u]
              /\ \A b \in BOOLEAN : dev[u].queue[b] = <<>>
              /\ dev[u].inbox = <<>>
              /\ \A c \in Codes : dev[u].listeners[c] > 0 =>
                    /\ dev[u].link[c] = "synced"
                    /\ dev[u].cache[c] = server[c]
                    /\ ~dev[u].acked[c]

------------------------------------------------------------------------------

\* A session's two counters count what they are compared for: "participants" is
\* the number of keys of "likes", and "finishedPushing" the number of members
\* whose final likes the server has (the increments at SessionStore.swift:45 and
\* 137, compared at line 194).
CountersAgree ==
    \A c \in Codes : server[c] # NoDoc =>
        /\ server[c].participants = Cardinality(DOMAIN server[c].likes)
        /\ server[c].finishedPushing =
             Cardinality({u \in DOMAIN server[c].likes :
                              store[u].pushed /\ ~HasPending(u, "push")})

\* "After the timed session concludes, the liked restaurants are aggregated"
\* (README.md:2): when a device computes the result, every member of its copy of the
\* likes has pushed, and the copy holds exactly what that member liked on the member's
\* own device (SessionStore.swift:193-195).
AggregatesFinalLikes ==
    [][\A u \in Users : Calculates(u) =>
          \A p \in DOMAIN store'[u].likes :
              /\ store'[p].pushed
              /\ store'[u].likes[p] = store'[p].likedRestaurants]_vars

\* "the liked restaurants are aggregated" (README.md:2): a user who liked
\* something and is shown a restaurant is shown one of the restaurants that the
\* user liked (SessionStore.swift:104-122 and 171-176).
ResultCountsMyLikes ==
    \A u \in Users :
        ShowsResult(u) /\ store[u].result \in Restaurants /\ store[u].likedRestaurants # {}
            => store[u].result \in store[u].likedRestaurants

\* One restaurant is chosen per session: a result in a document is not replaced
\* by another one (the guard at SessionStore.swift:194).
ResultIsFinal ==
    [][\A c \in Codes :
          server[c] # NoDoc /\ server'[c] # NoDoc /\ server[c].result # NoResult
              => server'[c].result = server[c].result]_vars

\* The bodies of CreateSession and JoinSession are if/else-if chains without a
\* last else; while a user is signed in some branch applies (CreateSession.swift:64-76,
\* JoinSession.swift:20-43).
NeverBlank ==
    \A u \in Users : store[u].session /\ screen[u] # "home" /\ Settled(u) =>
        CreateForm(u) \/ JoinForm(u) \/ Waiting(u) \/ ShowsLive(u) \/ ShowsResult(u)

\* The countdown of a live session starts from the creator's choice and not from
\* the default of a new document: start() writes the time before it goes live
\* (CreateSession.swift:95-97, LiveSession.swift:79).
CountsDownChosenTime ==
    \A u \in Users : ShowsLive(u) => store[u].time \in TimeLimits

\* A device that is in a session is listening to it (watchSession() at
\* SessionStore.swift:54, 128 and 246).
WatchesItsSession ==
    \A u \in Users : running[u] /\ store[u].sessionCode # NoCode =>
        dev[u].listeners[store[u].sessionCode] > 0

\* Once everything is delivered, a device that has only ever watched its own
\* session shows that session's document.  A result and a restaurant list are
\* taken over but never taken back, so for them this is one-sided (the snapshot
\* handler, SessionStore.swift:144-203).
SettledMirrors ==
    \A u \in Users, c \in Codes :
        /\ Settled(u)
        /\ store[u].sessionCode = c
        /\ \A o \in Codes \ {c} : dev[u].listeners[o] = 0
        => /\ server[c] # NoDoc
           /\ store[u].numParticipants = server[c].participants
           /\ store[u].sessionLive = server[c].live
           /\ server[c].result # NoResult => store[u].result = server[c].result
           /\ store[u].finished = server[c].finished
           /\ server[c].restaurantList => store[u].restaurantList
           /\ store[u].likes = server[c].likes
           /\ store[u].time = server[c].time

\* "After the timed session concludes ... the most liked restaurant is chosen
\* and shown to the user" (README.md:2): in a session that is live with its
\* restaurants, there comes a moment at which every member who has not gone back to
\* the home screen is shown a result (the equality of the counters at
\* SessionStore.swift:194 is reached, and the result gets round).
ResultReached ==
    \A c \in Codes :
        (server[c] # NoDoc /\ server[c].live /\ server[c].restaurantList)
            ~> (server[c] # NoDoc
                /\ \A u \in DOMAIN server[c].likes : ShowsResult(u) \/ screen[u] = "home")

\* "After the timed session concludes, the liked restaurants are aggregated"
\* (README.md:2): once everything is delivered, "finishedPushing" of a finished
\* session counts each of its members, else its result is never computed
\* (pushResults, SessionStore.swift:131-140 and 186-194).
FinishedCountsAll ==
    \A c \in Codes : server[c] # NoDoc /\ server[c].finished /\ ~server[c].live =>
        server[c].finishedPushing >=
            Cardinality({u \in DOMAIN server[c].likes : Settled(u) /\ store[u].sessionCode = c})

\* No device stays in a session that was deleted (SessionStore.swift:149-158).
DeletionNoticed ==
    \A u \in Users, c \in Codes :
        (server[c] = NoDoc /\ store[u].sessionCode = c)
            ~> (server[c] # NoDoc \/ store[u].sessionCode # c)

\* "Session deleted" (SessionStore.swift:154) is said of sessions that are deleted:
\* when a device is told so, the server does not have the document.
DeletionIsReal ==
    [][\A u \in Users : ~store[u].sessionDeleted /\ store'[u].sessionDeleted =>
          server[Head(dev[u].inbox).code] = NoDoc]_vars

\* The force unwraps of sessionCode and session never meet nil and strings[0]
\* exists: unless the user closes it, the app keeps running
\* (SessionStore.swift:98, 117, 118, 135, 136 and 220).
NoTrap == \A u \in Users : used[u]["quit"] = 0 => running[u]
==============================================================================
