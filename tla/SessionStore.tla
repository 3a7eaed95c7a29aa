----------------------------- MODULE SessionStore -----------------------------
(***************************************************************************)
(* Dinder's session protocol: the SessionStore object of every device, the *)
(* screens from which its operations are called (ContentView, CreateSession*)
(* JoinSession, LiveSession, RestaurantCard, Account), and the session     *)
(* documents that the devices share through Firestore.                     *)
(*                                                                         *)
(* One action is one closure run to its end on a device's main queue (a    *)
(* tap, an onAppear/onDisappear, a timer tick, a completion handler, a     *)
(* snapshot), one write reaching the server, or one answer or document     *)
(* reaching a device.                                                      *)
(***************************************************************************)
EXTENDS Firestore

CONSTANTS NoCode,    \* sessionCode == nil
          Hosts,     \* users who may open the CreateSession screen
          Guests,    \* users who may open the JoinSession screen
          Limit,     \* how often each user may do each bounded thing
          MaxInbox,  \* a bound: callbacks waiting on a device when a document
                     \* arrives.  The SDK's worker queue waits for none of them.
          MaxReplies \* kMaxPendingWrites: writes sent without waiting for the
                     \* answer, 10 in the SDK

Kinds == {"create", "join", "start", "end", "back", "sign", "quit", "offline"}

ASSUME SessionStoreAssumption == /\ NoCode \notin Codes
                                 /\ Hosts \subseteq Users
                                 /\ Guests \subseteq Users
                                 /\ Limit \in [Users -> [Kinds -> Nat]]
                                 /\ MaxInbox \in Nat
                                 /\ MaxReplies \in Nat

VARIABLES server,    \* the session documents
          dev,       \* the Firestore SDK of each device
          store,     \* the SessionStore object of each device
          screen,    \* the screen on top: "home", "create" or "join"
          fetching,  \* a restaurant download is under way (fetchPipeline)
          running,   \* FALSE once the app has trapped or been closed
          used       \* how often each bounded thing was done

vars == <<server, dev, store, screen, fetching, running, used>>

Stores == [session : BOOLEAN,               \* a user is signed in
           sessionCode : Codes \cup {NoCode},
           numParticipants : Int,
           sessionLive : BOOLEAN,
           result : Results,
           finished : BOOLEAN,
           sessionError : {"none", "join", "leave", "deleted"},
           sessionDeleted : BOOLEAN,
           restaurantList : BOOLEAN,        \* restaurantList != nil
           likedRestaurants : SUBSET Restaurants,
           createdSession : BOOLEAN,
           time : Int,
           likes : LikesMaps,
           pushed : BOOLEAN]

\* A new SessionStore, once the listener of listen() has run.
NewStore(signedIn) ==
    [session |-> signedIn, sessionCode |-> NoCode, numParticipants |-> 0,
     sessionLive |-> FALSE, result |-> NoResult, finished |-> FALSE,
     sessionError |-> "none", sessionDeleted |-> FALSE,
     restaurantList |-> FALSE, likedRestaurants |-> {},
     createdSession |-> FALSE, time |-> DefaultTime, likes |-> NoLikes,
     pushed |-> FALSE]

Init == /\ server = [c \in Codes |-> NoDoc]
        /\ dev = [u \in Users |-> NewDevice]
        /\ store = [u \in Users |-> NewStore(TRUE)]
        /\ screen = [u \in Users |-> "home"]
        /\ fetching = [u \in Users |-> FALSE]
        /\ running = [u \in Users |-> TRUE]
        /\ used = [u \in Users |-> [k \in Kinds |-> 0]]

------------------------------------------------------------------------------
(* What the screens show: the branches of the views' bodies. *)

\* The screen v is on top, and ContentView shows it.
OnTop(u, v) == store[u].session /\ screen[u] = v

CreateForm(u) == /\ OnTop(u, "create")
                 /\ ~store[u].sessionLive
                 /\ store[u].result = NoResult

JoinForm(u) == /\ OnTop(u, "join")
               /\ store[u].sessionCode = NoCode
               /\ store[u].result = NoResult

\* Mutant of Waiting: CreateSession has no branch for a live session whose
\* restaurants have not arrived.
WaitingInJoinOnly(u) == /\ store[u].result = NoResult
                        /\ OnTop(u, "join")
                        /\ store[u].sessionCode # NoCode
                        /\ store[u].sessionLive => ~store[u].restaurantList

Waiting(u) == /\ store[u].result = NoResult
              /\ \/ /\ OnTop(u, "create")
                    /\ store[u].sessionLive
                    /\ ~store[u].restaurantList
                 \/ /\ OnTop(u, "join")
                    /\ store[u].sessionCode # NoCode
                    /\ store[u].sessionLive => ~store[u].restaurantList

ShowsLive(u) == /\ store[u].result = NoResult
                /\ store[u].sessionLive
                /\ store[u].restaurantList
                /\ \/ OnTop(u, "create")
                   \/ OnTop(u, "join") /\ store[u].sessionCode # NoCode

ShowsResult(u) == /\ store[u].result # NoResult
                  /\ ~store[u].sessionLive
                  /\ \/ OnTop(u, "create")
                     \/ OnTop(u, "join") /\ store[u].sessionCode # NoCode

------------------------------------------------------------------------------
(* Helpers of the actions. *)

Allowed(u, k) == used[u][k] < Limit[u][k]

Count(u, k) == used' = [used EXCEPT ![u][k] = @ + 1]

\* The process ends: memory is lost, what the SDK d has on disk stays, and so
\* does the signed-in user, whose queue the SDK opens when it starts.
Terminate(u, d) ==
    /\ running' = [running EXCEPT ![u] = FALSE]
    /\ dev' = [dev EXCEPT ![u] = OnDisk(d, store[u].session)]
    /\ store' = [store EXCEPT ![u] = NewStore(store[u].session)]
    /\ screen' = [screen EXCEPT ![u] = "home"]
    /\ fetching' = [fetching EXCEPT ![u] = FALSE]

Do(u, d, s) == /\ dev' = [dev EXCEPT ![u] = d]
               /\ store' = [store EXCEPT ![u] = s]

------------------------------------------------------------------------------
(* Navigation and authentication. *)

\* NavigationLink to CreateSession; its onAppear marks this device as creator.
OpenCreate(u) ==
    /\ running[u] /\ store[u].session /\ screen[u] = "home" /\ u \in Hosts
    /\ screen' = [screen EXCEPT ![u] = "create"]
    /\ store' = [store EXCEPT ![u].createdSession = TRUE]
    /\ UNCHANGED <<server, dev, fetching, running, used>>

OpenJoin(u) ==
    /\ running[u] /\ store[u].session /\ screen[u] = "home" /\ u \in Guests
    /\ screen' = [screen EXCEPT ![u] = "join"]
    /\ UNCHANGED <<server, dev, store, fetching, running, used>>

\* The screen on top goes away: the user goes back, or is signed out, so that
\* ContentView shows the sign-in screen instead.
ScreenGone(u) ==
    /\ screen' = [screen EXCEPT ![u] = "home"]
    /\ \/ store[u].session /\ Allowed(u, "back") /\ Count(u, "back")
       \/ ~store[u].session /\ UNCHANGED used

\* CreateSession.onDisappear deletes the session unless it is live.  The view's
\* fetchPipeline is released, which cancels the download.
LeaveCreateScreen(u) ==
    /\ running[u] /\ screen[u] = "create"
    /\ ScreenGone(u)
    /\ fetching' = [fetching EXCEPT ![u] = FALSE]
    /\ LET c == store[u].sessionCode
       IN  dev' = IF ~store[u].sessionLive /\ c # NoCode
                  THEN [dev EXCEPT ![u] = Issue(u, @, Write("delete", c))]
                  ELSE dev
    /\ UNCHANGED <<server, store, running>>

\* JoinSession.onDisappear leaves the session if there is one, and unwraps the user.
LeaveJoinScreen(u) ==
    /\ running[u] /\ screen[u] = "join"
    /\ LET c == store[u].sessionCode
       IN  \/ /\ c # NoCode /\ ~store[u].session
              /\ Terminate(u, dev[u])
              /\ UNCHANGED used
           \/ /\ c = NoCode \/ store[u].session
              /\ ScreenGone(u)
              /\ dev' = IF c # NoCode THEN [dev EXCEPT ![u] = Issue(u, @, Write("leave", c))]
                        ELSE dev
              /\ UNCHANGED <<store, fetching, running>>
    /\ UNCHANGED server

\* The user is set to nil, with any screen on top: by signOut() on the settings
\* tab, by the completion of an account's deletion, or by the listener of listen().
SignOut(u) ==
    /\ running[u] /\ store[u].session /\ Allowed(u, "sign")
    /\ store' = [store EXCEPT ![u].session = FALSE]
    /\ Count(u, "sign")
    /\ UNCHANGED <<server, dev, screen, fetching, running>>

\* The SDK hears of the sign-out, by a notification of its own.
HearSignOut(u) ==
    /\ running[u] /\ ~store[u].session /\ dev[u].user
    /\ \E d \in Switched(u, dev[u], FALSE) : dev' = [dev EXCEPT ![u] = d]
    /\ UNCHANGED <<server, store, screen, fetching, running, used>>

\* Sign in or up successfully: the SDK and the app hear of it in one notification,
\* HomeView appears and clears createdSession.
SignIn(u) ==
    /\ running[u] /\ ~store[u].session /\ screen[u] = "home"
    /\ \E d \in Switched(u, dev[u], TRUE) :
          Do(u, d, [store[u] EXCEPT !.session = TRUE, !.createdSession = FALSE])
    /\ UNCHANGED <<server, screen, fetching, running, used>>

\* The user or the system closes the app.
Quit(u) ==
    /\ running[u] /\ Allowed(u, "quit")
    /\ Terminate(u, dev[u])
    /\ Count(u, "quit")
    /\ UNCHANGED server

Launch(u) ==
    /\ ~running[u]
    /\ running' = [running EXCEPT ![u] = TRUE]
    /\ UNCHANGED <<server, dev, store, screen, fetching, used>>

------------------------------------------------------------------------------
(* The operations of a session. *)

\* createSession(), when the form appears without a code.  The random code may
\* be any code, one in use by another session too.
CreateSession(u, c) ==
    /\ running[u] /\ CreateForm(u) /\ store[u].sessionCode = NoCode
    /\ Allowed(u, "create")
    /\ Do(u, Watch(u, Issue(u, dev[u], Write("create", c)), c),
             [store[u] EXCEPT !.sessionCode = c])
    /\ Count(u, "create")
    /\ UNCHANGED <<server, screen, fetching, running>>

\* joinSession(joinCode:), at every tap on Join.
JoinSession(u, c) ==
    /\ running[u] /\ JoinForm(u) /\ Allowed(u, "join")
    /\ dev' = [dev EXCEPT ![u] = Issue(u, @, Write("join", c))]
    /\ Count(u, "join")
    /\ UNCHANGED <<server, store, screen, fetching, running>>

\* Mutant of Start: the chosen time is not written.
StartUntimed(u, t, r) ==
    /\ running[u] /\ CreateForm(u) /\ store[u].sessionCode # NoCode
    /\ Allowed(u, "start")
    /\ LET c  == store[u].sessionCode
           d2 == Issue(u, dev[u], [Write("radius", c) EXCEPT !.num = r])
           d3 == Issue(u, d2, Write("start", c))
       IN  dev' = [dev EXCEPT ![u] = Watch(u, d3, c)]
    /\ fetching' = [fetching EXCEPT ![u] = TRUE]
    /\ Count(u, "start")
    /\ UNCHANGED <<server, store, screen, running>>

\* start(): time, radius, startSession() with its second watchSession(), and
\* the download of the restaurants, which replaces an earlier one.
Start(u, t, r) ==
    /\ running[u] /\ CreateForm(u) /\ store[u].sessionCode # NoCode
    /\ Allowed(u, "start")
    /\ LET c  == store[u].sessionCode
           d1 == Issue(u, dev[u], [Write("time", c) EXCEPT !.num = t])
           d2 == Issue(u, d1, [Write("radius", c) EXCEPT !.num = r])
           d3 == Issue(u, d2, Write("start", c))
       IN  dev' = [dev EXCEPT ![u] = Watch(u, d3, c)]
    /\ fetching' = [fetching EXCEPT ![u] = TRUE]
    /\ Count(u, "start")
    /\ UNCHANGED <<server, store, screen, running>>

\* The download delivers a list: updateRestaurantList unwraps sessionCode.
ReceiveRestaurants(u) ==
    /\ running[u] /\ fetching[u]
    /\ LET c == store[u].sessionCode
       IN  IF c = NoCode
           THEN Terminate(u, dev[u])
           ELSE /\ dev' = [dev EXCEPT ![u] = Issue(u, @, Write("list", c))]
                /\ fetching' = [fetching EXCEPT ![u] = FALSE]
                /\ UNCHANGED <<store, screen, running>>
    /\ UNCHANGED <<server, used>>

\* The download or its decoding fails: the pipeline delivers nil.
FetchFails(u) ==
    /\ running[u] /\ fetching[u]
    /\ fetching' = [fetching EXCEPT ![u] = FALSE]
    /\ UNCHANGED <<server, dev, store, screen, running, used>>

\* A card swiped to the right.
LikeRestaurant(u, r) ==
    /\ running[u] /\ ShowsLive(u) /\ r \notin store[u].likedRestaurants
    /\ store' = [store EXCEPT ![u].likedRestaurants = @ \cup {r}]
    /\ UNCHANGED <<server, dev, screen, fetching, running, used>>

\* endSession(): the countdown is at zero, or the creator taps Finish Session.
EndDue(u) == running[u] /\ ShowsLive(u) /\ Allowed(u, "end")

EndSession(u) ==
    /\ EndDue(u)
    /\ LET c == store[u].sessionCode
       IN  IF c = NoCode
           THEN Terminate(u, dev[u])
           ELSE /\ dev' = [dev EXCEPT ![u] = Issue(u, @, Write("end", c))]
                /\ UNCHANGED <<store, screen, fetching, running>>
    /\ Count(u, "end")
    /\ UNCHANGED server

------------------------------------------------------------------------------
(* Callbacks on the main queue. *)

CallbackDue(u) == running[u] /\ dev[u].inbox # <<>>

Arrived(u, kind) == CallbackDue(u) /\ Head(dev[u].inbox).kind = kind

Handled(d) == [d EXCEPT !.inbox = Tail(@)]

\* The fields that leaveSession and deleteSession clear when they complete.
Cleared(s) == [s EXCEPT !.sessionCode = NoCode, !.numParticipants = 0,
                        !.sessionLive = FALSE, !.result = NoResult]

\* Mutant of Joined: the code is not kept.
JoinedForgetful(u) ==
    /\ Arrived(u, "join")
    /\ LET e == Head(dev[u].inbox)
       IN  IF e.ok
           THEN Do(u, Watch(u, Handled(dev[u]), e.code), store[u])
           ELSE Do(u, Handled(dev[u]), [store[u] EXCEPT !.sessionError = "join"])
    /\ UNCHANGED <<server, screen, fetching, running, used>>

\* Mutant of Joined: watchSession() is not called.
JoinedUnwatched(u) ==
    /\ Arrived(u, "join")
    /\ LET e == Head(dev[u].inbox)
       IN  Do(u, Handled(dev[u]),
                 IF e.ok THEN [store[u] EXCEPT !.sessionCode = e.code]
                 ELSE [store[u] EXCEPT !.sessionError = "join"])
    /\ UNCHANGED <<server, screen, fetching, running, used>>

\* Completion of joinSession.
Joined(u) ==
    /\ Arrived(u, "join")
    /\ LET e == Head(dev[u].inbox)
       IN  IF e.ok
           THEN Do(u, Watch(u, Handled(dev[u]), e.code),
                      [store[u] EXCEPT !.sessionCode = e.code])
           ELSE Do(u, Handled(dev[u]), [store[u] EXCEPT !.sessionError = "join"])
    /\ UNCHANGED <<server, screen, fetching, running, used>>

\* Completion of leaveSession.
Left(u) ==
    /\ Arrived(u, "leave")
    /\ Do(u, Handled(dev[u]), IF Head(dev[u].inbox).ok THEN Cleared(store[u])
                              ELSE [store[u] EXCEPT !.sessionError = "leave"])
    /\ UNCHANGED <<server, screen, fetching, running, used>>

\* Completion of deleteSession.
Deleted(u) ==
    /\ Arrived(u, "delete")
    /\ Do(u, Handled(dev[u]), Cleared(store[u]))
    /\ UNCHANGED <<server, screen, fetching, running, used>>

\* Mutant of SnapshotGone: the code of the deleted session is kept.
SnapshotGoneKeepsCode(u) ==
    /\ Arrived(u, "snapshot")
    /\ Head(dev[u].inbox).data = NoDoc
    /\ Do(u, Handled(dev[u]),
             [store[u] EXCEPT !.numParticipants = 0, !.result = NoResult,
                              !.sessionError = "deleted", !.sessionDeleted = TRUE])
    /\ UNCHANGED <<server, screen, fetching, running, used>>

\* A snapshot without data: the document does not exist.
SnapshotGone(u) ==
    /\ Arrived(u, "snapshot")
    /\ Head(dev[u].inbox).data = NoDoc
    /\ Do(u, Handled(dev[u]),
             [store[u] EXCEPT !.sessionCode = NoCode, !.numParticipants = 0,
                              !.result = NoResult, !.sessionError = "deleted",
                              !.sessionDeleted = TRUE])
    /\ UNCHANGED <<server, screen, fetching, running, used>>

\* Mutant of Absorb: sessionLive is only ever set, never taken back.
AbsorbStaysLive(s, d) ==
    [s EXCEPT !.sessionLive = d.live \/ @,
              !.numParticipants = d.participants,
              !.result = IF d.result # NoResult THEN d.result ELSE @,
              !.restaurantList = d.restaurantList \/ @,
              !.finished = d.finished,
              !.likes = d.likes,
              !.time = d.time]

\* What a snapshot with the data d makes of the store s.
Absorb(s, d) ==
    [s EXCEPT !.sessionLive = d.live,
              !.numParticipants = d.participants,
              !.result = IF d.result # NoResult THEN d.result ELSE @,
              !.restaurantList = d.restaurantList \/ @,
              !.finished = d.finished,
              !.likes = d.likes,
              !.time = d.time]

\* Mutant of MustPush: the creator does not push.
MustPushGuests(s, d) == d.finished /\ ~s.pushed /\ ~s.createdSession

\* Mutant of MustPush: it does not wait for the end of the session.
MustPushUnfinished(s, d) == ~s.pushed

\* The guard of pushResults(), reached when the snapshot says finished.
MustPush(s, d) == d.finished /\ ~s.pushed

\* The guard of calcResult().
MustCalc(s, d) == /\ d.finishedPushing = d.participants
                  /\ s.createdSession
                  /\ Absorb(s, d).result = NoResult

\* pushResults()
PushResults(u, d) ==
    Issue(u, d, [Write("push", store[u].sessionCode)
                    EXCEPT !.liked = store[u].likedRestaurants])

\* Mutant of CalcResult: the set is written instead of one of its elements.
CalcResultSet(u, d, sel) ==
    Issue(u, d, [Write("result", store[u].sessionCode) EXCEPT !.sel = {sel}])

\* calcResult() with the selection sel
CalcResult(u, d, sel) ==
    Issue(u, d, [Write("result", store[u].sessionCode) EXCEPT !.sel = sel])

\* A snapshot with data.  pushResults unwraps sessionCode and session,
\* calcResult unwraps sessionCode and reads the first of the collected likes.
SnapshotData(u) ==
    /\ Arrived(u, "snapshot")
    /\ Head(dev[u].inbox).data # NoDoc
    /\ LET d == Head(dev[u].inbox).data
           s == store[u]
           push == MustPush(s, d)
           calc == MustCalc(s, d)
           popped == Handled(dev[u])
           after == IF push THEN PushResults(u, popped) ELSE popped
           new == [Absorb(s, d) EXCEPT !.pushed = @ \/ push]
           pushTraps == push /\ (s.sessionCode = NoCode \/ ~s.session)
           calcTraps == calc /\ (s.sessionCode = NoCode \/ DOMAIN d.likes = {})
       IN  \/ /\ pushTraps
              /\ Terminate(u, popped)
           \/ /\ ~pushTraps /\ calcTraps
              \* the write just issued may or may not have reached the disk
              /\ Terminate(u, popped) \/ Terminate(u, after)
           \/ /\ ~pushTraps /\ ~calcTraps /\ ~calc
              /\ Do(u, after, new)
              /\ UNCHANGED <<screen, fetching, running>>
           \/ /\ ~pushTraps /\ ~calcTraps /\ calc
              /\ \E sel \in Selections(d.likes) : Do(u, CalcResult(u, after, sel), new)
              /\ UNCHANGED <<screen, fetching, running>>
    /\ UNCHANGED <<server, used>>

------------------------------------------------------------------------------
(* The network. *)

\* The server executes the next write of a queue of u's device, sent by the
\* process that issued it or by a later one.  The answer is on its way.
Commit(u, b) ==
    /\ \E i \in DOMAIN dev[u].queue[b] :
          /\ dev[u].queue[b][i].reply = "none"
          /\ \A j \in 1 .. i - 1 : dev[u].queue[b][j].reply # "none"
          /\ i <= MaxReplies
          /\ LET w == dev[u].queue[b][i]
                 d == server[w.code]
                 n == NumberFor(w, d)
             IN  /\ server' = [server EXCEPT ![w.code] = Apply(u, w, n, d)]
                 /\ dev' = [dev EXCEPT ![u].queue[b][i] =
                              [w EXCEPT !.counter = n,
                                        !.reply = IF Replaces(w) \/ d # NoDoc THEN "ok"
                                                  ELSE "failed"]]
    /\ UNCHANGED <<store, screen, fetching, running, used>>

\* The answer to the oldest pending write reaches u's device.
AckDue(u) == /\ running[u]
             /\ Pending(dev[u]) # <<>>
             /\ Head(Pending(dev[u])).reply # "none"

Ack(u) ==
    /\ AckDue(u)
    /\ dev' = [dev EXCEPT ![u] = Acknowledge(u, @)]
    /\ UNCHANGED <<server, store, screen, fetching, running, used>>

\* The server's current document c reaches u's listening device.  Documents in
\* between may have been skipped.
SyncDue(u, c) ==
    /\ running[u] /\ dev[u].listeners[c] > 0
    /\ Len(dev[u].inbox) < MaxInbox
    /\ dev[u].cache[c] # server[c] \/ dev[u].acked[c] \/ dev[u].link[c] # "synced"

Sync(u, c) ==
    /\ SyncDue(u, c)
    /\ dev' = [dev EXCEPT ![u] = Receive(u, @, c, server[c])]
    /\ UNCHANGED <<server, store, screen, fetching, running, used>>

\* The server has been out of reach for too long: who waits for a first
\* snapshot of c gets it from the cache, which does not have the document.
GoOffline(u, c) ==
    /\ running[u] /\ dev[u].listeners[c] > 0 /\ dev[u].link[c] # "offline"
    /\ Allowed(u, "offline")
    /\ dev' = [dev EXCEPT ![u] = Reach(@, c, "offline")]
    /\ Count(u, "offline")
    /\ UNCHANGED <<server, store, screen, fetching, running>>

------------------------------------------------------------------------------

Callback(u) == Joined(u) \/ Left(u) \/ Deleted(u) \/ SnapshotGone(u) \/ SnapshotData(u)

Next ==
    \E u \in Users :
        \/ OpenCreate(u) \/ OpenJoin(u)
        \/ LeaveCreateScreen(u) \/ LeaveJoinScreen(u)
        \/ SignOut(u) \/ HearSignOut(u) \/ SignIn(u) \/ Quit(u) \/ Launch(u)
        \/ \E c \in Codes : CreateSession(u, c)
        \/ \E c \in Codes : JoinSession(u, c)
        \/ \E t \in TimeLimits, r \in Radii : Start(u, t, r)
        \/ ReceiveRestaurants(u) \/ FetchFails(u)
        \/ \E r \in Restaurants : LikeRestaurant(u, r)
        \/ EndSession(u)
        \/ Joined(u) \/ Left(u) \/ Deleted(u)
        \/ SnapshotGone(u) \/ SnapshotData(u)
        \/ \E b \in BOOLEAN : Commit(u, b)
        \/ Ack(u)
        \/ \E c \in Codes : Sync(u, c) \/ GoOffline(u, c)

Spec == Init /\ [][Next]_vars

TypeOK == /\ server \in [Codes -> Docs \cup {NoDoc}]
          /\ dev \in [Users -> Devices]
          /\ store \in [Users -> Stores]
          /\ screen \in [Users -> {"home", "create", "join"}]
          /\ fetching \in [Users -> BOOLEAN]
          /\ running \in [Users -> BOOLEAN]
          /\ used \in [Users -> [Kinds -> Nat]]
==============================================================================
