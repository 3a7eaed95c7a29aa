# A TLA+ verification of Dinder's sessions

Dinder is an iOS app with which a group picks a restaurant: one user creates a
session and shares its code, others join it, everybody swipes through the same
restaurants for a limited time, and the devices then agree on one restaurant.
There is no server code. The devices coordinate through one Firestore document
per session, and each of them reacts to the snapshots of that document. This
directory models that protocol, model-checks it with TLC and proves part of it
with TLAPS.

All paths are relative to the repository; `SessionStore.swift` and the other
Swift files are in `src/Dinder/Dinder/`.

## 1. Inventory

| Component | State | Operations |
|---|---|---|
| `SessionStore` (one object per device) | sessionCode, numParticipants, sessionLive, result, finished, sessionError, sessionDeleted, restaurantList, likedRestaurants, createdSession, time, likes, pushed, session (the user) | createSession, joinSession, leaveSession, deleteSession, startSession, endSession, pushResults, calcResult, watchSession's snapshot handler, update{SessionTime, SessionRadius, RestaurantList}, likeRestaurant, removeTopCard, listen, sign in/up/out, delete |
| session document (Firestore, one per code) | participants, live, likes, result, finished, restaurantList, finishedPushing, time, radius | set, update with increments and field deletions, delete |
| Firestore client of a device (vendored) | the queue of pending writes of each user, cached documents, listeners, what they were told, the state of the connection | latency-compensated writes, acknowledgement, snapshots, the switch to another user's queue, first snapshots from the cache when the server is out of reach |
| FirebaseAuth client of a device (vendored) | the current user, the keychain, a work queue, state listeners with the user id each saw last | sign in, sign up, sign out, delete, notify the listeners |
| `CreateSession` | time limit, radius, the running download | form, start, fetchRestaurants, onDisappear |
| `JoinSession` | the code typed | join, onDisappear |
| `LiveSession`, `RestaurantCard` | countdown, deck, drag | end by countdown or by the button, like or dislike |
| `ContentView`, `HomeView` | which screen is on top | navigation; `createdSession = false` when the home view appears |
| `SignInView`, `Account` | text fields, alerts | sign in, sign up, reset password, sign out, delete the account |
| `NetworkUtils`, `PlaceReferenceImage` | Combine pipelines | download and decode JSON and images |
| `ResultsView` | - | presented by no other view |
| `Json`, `Style`, `AppDelegate`, `SceneDelegate` | - | data declarations, styles, template |

**Interaction.** Screens call `SessionStore`; `SessionStore` writes to the
document with fire-and-forget calls (only join, leave and delete have a completion
handler); every write changes the writer's own cached view at once and the server's
document later; every change of the view reaches the snapshot listener, which runs
on the main queue, copies the document's fields into the store, and may itself write
(`pushResults`, `calcResult`). Listeners are never removed.

**What is hard.** A device decides from its own latency-compensated view, which can
be ahead of the server in its own writes and behind it in everybody else's. Taps,
completions, snapshots, downloads and the countdown interleave on every device. The
app can be closed at any moment, with its queue of writes resent at the next launch, when
nothing is left of their completion handlers. The answer to a write and the document that
includes it reach a device in either order. The signed-in user changes on another queue
than the one on which the app hears of it.
The fields that select a screen are set by different callbacks. `PROJECT.json`
lists the hazards with their lines.

**What makes it correct.** The two counters in the document count what they are
compared for; the result is computed from everybody's final likes, once; every member
gets to see it; a screen always shows something; a device in a session listens to it and
ends up showing its document; nobody stays in a deleted session; no force unwrap meets
nil; no restaurant leaves the stack of cards unseen; the countdown ends; the app shows the
user who is signed in.

## 2. Modules

| Module | Models |
|---|---|
| `Likes` | the map `likes` and what `calcResult` may choose from it |
| `CalcResult` | `SessionStore.calcResult` statement by statement |
| `Firestore` | the session document, each of SessionStore's writes, and the client SDK of one device, as pure operators on a record |
| `SessionStore` | the protocol: every device's SessionStore, its screens and its SDK, and the server's documents |
| `SessionProperties` | the properties of the protocol, fairness |
| `SessionSpec` | what one session promises, without devices, queues and caches: `Spec`, and the weaker `LateSpec` for late answers |
| `Refinement` | the mapping under which the protocol implements the latter: `ImplementsLate` |
| `LiveSession` | the swiping screen of one device: stack of cards, drags, timer |
| `Auth` | who is signed in on one device: `SignInView`, `Account`, `listen`, FirebaseAuth |
| `MCSession`, `MCLiveSession` | the instances that TLC checks |
| `CalcResultProofs`, `LiveSessionProofs`, `AuthProofs` | theorems about one component each |
| `SessionStoreProofs`, `MirrorProofs`, `RoundProofs`, `EndProofs` | theorems about the protocol, each module on top of the one before |
| `TimeProofs` | the theorem about the countdown's start, on top of `MirrorProofs` |

`Refinement` extends `SessionProperties`, which extends `SessionStore`, which extends
`Firestore`, which extends `Likes`. Two parts of the protocol are single steps there and have
a module of their own:

* `calcResult` is one choice from `Selections(likes)`. `CalcResult` shows (checked and
  proved: `PicksConsensus`) that the loop ends only with such a choice, in every iteration
  order of the dictionary, and traps only on an empty one.
* A swipe is "a restaurant is liked", and the countdown "the session is ended" with weak
  fairness. `LiveSession` shows that the countdown does end (`CountdownEnds`), which is
  what that fairness assumes.

`Auth` is separate because the protocol needs of it only that the user may go and come back:
`SignOut` sets the user to nil with any screen on top, as signing out on the settings tab, the
completion of an account's deletion and the listener of `listen()` all do; `HearSignOut` is the
notification by which the Firestore client hears of it later; in `SignIn` both hear at once, since
one block of the main queue posts both notifications (`FIRAuth.m:1713-1719`).

### The protocol: state and actions

`server[c]` is the document with code c. `store[u]` has the fields of the class
`SessionStore`, under their names. `dev[u]` is the SDK of u's device:

* `queue[b]`, the writes issued and not yet acknowledged, of the signed-in user (b = TRUE) and
  of nobody; `user` selects the one in use (`LocalStore::HandleUserChange`). On disk. A write
  carries the server's answer while that is on its way;
* `cache[c]`, the document as last known from the server, and `acked[c]`, whether it is known
  from an acknowledgement that no document has confirmed yet. On disk. `Unknown` is a document not
  in the cache, `NoDoc` one known not to exist;
* `listeners[c]`, how many listeners the device has added, `fresh[c]`, how many of them wait for
  a first snapshot, `link[c]`, how far listening has come, and `shown[c]`, what they were told;
* `inbox`, the callbacks dispatched to the main queue and not yet run.

What the app sees is `Local`: the cache with the pending writes on top (`Overlay`). A
pending increment is overlaid with the base value recorded when it was issued
(`LocalStore::WriteLocally`), so a counter that has a pending write stands still until the write is
acknowledged. `Refresh` computes a view again and calls the listeners if it has changed, unless
the change is due to an acknowledgement only (`View::ShouldWaitForSyncedDocument`). `Watch` is
`addSnapshotListener` with its rule for the first event
(`QueryListener::ShouldRaiseInitialEvent`), `Receive` a document from the server, `Acknowledge` the
answer to the oldest write, with its completion, `Reach` the end of waiting for the server.

Each action of `SessionStore` is one closure run to its end on a main queue, one write
reaching the server, or one answer or document reaching a device:

| Action | Code |
|---|---|
| `OpenCreate`, `OpenJoin`, `LeaveCreateScreen`, `LeaveJoinScreen` | the navigation links of `HomeView`, `onAppear`/`onDisappear` of the two screens, with `deleteSession` and `leaveSession` |
| `SignOut` | `Account`, `signOut`, the completion of `delete`, the else branch of `listen`: session = nil, at any screen |
| `HearSignOut` | the Firestore client hears of it and turns to the other queue |
| `SignIn` | a successful `signIn` or `signUp`, `listen`, `HomeView.onAppear`; the client turns back |
| `Quit`, `Launch`, `Terminate` | the process ends (closed, or trapped on a nil) and starts again |
| `CreateSession`, `JoinSession`, `Start`, `EndSession`, `LikeRestaurant` | the functions of those names, with the view condition that makes them callable as guard |
| `ReceiveRestaurants`, `FetchFails` | the end of `downloadJsonAsync` |
| `Joined`, `Left`, `Deleted` | the three completion handlers |
| `SnapshotGone`, `SnapshotData` | the snapshot handler, without and with data; the latter includes `pushResults` and `calcResult` and their traps |
| `Commit` | the server executes the next write of a device; the answer is on its way |
| `Ack` | the answer to the oldest write arrives |
| `Sync` | the server's current document arrives at a listening device; those in between may have been skipped |
| `GoOffline` | the SDK gives up waiting for the server (`OnlineStateTracker`, ten seconds) |

`CreateForm`, `JoinForm`, `Waiting`, `ShowsLive` and `ShowsResult` are the branches of the
views' bodies. A failed force unwrap or `strings[0]` on an empty array is the action's
`Terminate`: memory is lost, cache and queues stay.

SwiftUI renders the views anew before it takes another tap, timer event or `onAppear`: what
a user can do is what the current state shows (`OnTop`). So nobody taps on a screen of a session after
`session` has become nil, and the unwraps of `session!` in `joinSession` (`SessionStore.swift:46`) and
`createSession` (line 231) always find a user; they are no traps of the model. What the
rendering itself triggers comes later: the screen on top disappears (`LeaveCreateScreen`,
`LeaveJoinScreen`, also without a tap), and the unwrap in `leaveSession` (line 63) then
traps, as does the one in `pushResults` (line 136).

### The abstract session

`SessionSpec` has four variables: the phase of a session, its members, the likes handed in,
and the decision. People join at any time; the phases follow one another; each member hands
in likes once, after the end; a decision is a selection from the likes of some members
all of whom have handed in. It does not promise that everybody's likes count or that the
decision is made once, because the code keeps neither (`LateJoin`, `TwoResults`). `LateSpec` adds a
step, `GiveUp`: the decision is "Error" although the likes handed in have something in
common. `LateSpec` is what the code implements; the strict `Spec`, on which it is built, is not kept
(section 3). `Refinement` maps the phase, the members and the decision to fields of one document on
the server, and the likes handed in to those entries of `likes` whose member has pushed. All the rest of the protocol,
the caches, queues, callbacks and screens, maps to stuttering. The mapping holds while
nobody goes back, quits or signs out, which is the scope of the run `Round`.

### The swiping screen

`results` is `session.restaurantList!.results`, the last card on top; `list` is the list of the
document. A drag begins on a card that no card at rest covers; `Swipe` likes that card and
calls `removeTopCard`, which removes the last card of the array, whichever was swiped;
`SnapshotLive` puts a whole list back, as every snapshot of the live session does. The timer
is a stored property of the view's value and is made anew when the parent is rendered:
`elapsed` says that the current second is over, and everything that changes the store
sets it back. `Tick` is the `onReceive` closure, `Finish` the creator's button.

Assumed: restaurant names are distinct (they identify the cards, `ForEach(... id: \.name)`), a
gesture ends with the view that it is on, restaurants have a photo, and a list that was uploaded can be
decoded.

### Authentication

`current` is FIRAuth's `_currentUser` by id, `keychain` its copy on the device. A request is
executed by the server (`Execute`) and answered later on FIRAuth's work queue (`AnswerSignIn`,
`AnswerDelete`); both may change `current` and post a notification to the main queue. `previous` has
one entry per listener: the user id that it saw last. `Block` runs the next block of the
main queue: a notification, the first call of a new listener, or the completion of a
deletion. A deletion carries `held`: FIRAuth signs the user out only if its current user is
the very object that was deleted (`_currentUser.uid != userID` compares pointers). Writing the
keychain may fail; a sign-out when there is no current user leaves it as it is (`FIRAuth.m:1333-1335`). `Restart` loses all but the keychain and the server's accounts.
Whether `ContentView`'s `onAppear` runs again when its content is exchanged differs between
releases of SwiftUI; `Render` allows both. A notification calls all listeners in one step.

### Abstractions

* The liked names are a set: the array's only reader makes a `Set` of it, and liking twice
  changes nothing. In the protocol, of the restaurant list only its presence is kept, and it is
  assumed to survive encoding and decoding (`SessionStore.swift:179` would otherwise set it to nil).
* A write that was sent and not answered before the process ended is executed once: the
  backend recognises the resent write. The security rules are not in the repository and are taken to be open: of
  rejections only the missing document is modelled. A delete never fails.
* `Sync` delivers the current document, never an older one. `GoOffline` is per document, as each has
  its own listeners; what it changes is who still waits for a first snapshot.
* `Switched` covers changes of up to two documents, which is all there are in the instances.
* `MaxReplies` is the SDK's `kMaxPendingWrites`, 10 (`remote_store.cc:59`): that many writes are sent
  without waiting for an answer. `Alone` and `Lobby` have 10, `Round` and `StaleLikes` 2 (section 3).
* `MaxInbox` is a bound: a document that arrives while that many callbacks wait is held back, whereas
  the SDK's worker queue does not wait for the main queue. In `Alone` and `Lobby` it is 12, which is
  more than ever wait there, so nothing is held back; in `Round` it is 1. Local writes and completions
  are never held back.
* SwiftUI: a pushed screen's `onDisappear` runs when it is popped; `HomeView.onAppear` runs
  when it replaces the sign-in screen. The form's `createSession` may happen any time
  while the form shows without a code.
* A user who signs in again is the same user in the protocol; `Auth` has several.

## 3. Runs

The instances of the protocol have a host `h` and a guest `g` (one user in `Alone` and
`SecondSession`), one or two codes and at most two restaurants. A user does each bounded
thing (create, join, start, end, go back, sign out, quit, lose the connection) at most
`Limit[u][kind]` times; all of the limits are in `MCSession`. There is no limit on callbacks,
commits or deliveries: they end by themselves. As everything users do is bounded, the
instances come to rest, and all runs say `CHECK_DEADLOCK FALSE`.

| Run | Properties | What it shows |
|---|---|---|
| `Round` | TypeOK, CountersAgree, NeverBlank, NoTrap, ResultReached, ImplementsLate | one session, nobody goes away, two answers under way to each device; it implements the abstract session and everybody sees a result (fairness below) |
| `Alone` | SettledMirrors, CountsDownChosenTime | one user as creator and participant who goes back, closes the app and loses the connection, each at any moment; the traps are reached and treated as crashes |
| `Lobby` | WatchesItsSession, SettledMirrors, DeletionNoticed | two codes, sessions created, joined, deleted and created again, also over one in use, and a guest who is signed out and in at any moment; nobody stays in a deleted session (fairness) |
| `LiveSession` | TypeOK, NoCardLost, CountdownEnds | three restaurants, two fingers, three lists, three snapshots, two seconds |
| `Auth` | TypeOK, ShowsCurrentUser, ScreenFollowsUser | two accounts, three requests, two listeners, one restart |
| `CalcResult` | TypeOK, PicksConsensus, TrapsOnlyWithoutMembers | all likes maps of three users and three restaurants |

`NeverBlank` is about settled devices: between two callbacks a screen may have no
branch for a moment. `NoCardLost` excludes the two situations, recorded in the history variable
`disturbed`, in which a card does get lost: two fingers drag two cards, or another list arrives
during a drag. `ShowsCurrentUser` excludes, with `overtaken`, two races after which somebody is
signed in and the app shows nobody: a deletion that completes after another sign-in, and a
second sign-in as the same user that finishes before the notification of a sign-out has run, which
the listeners then drop because the id is the one they saw last. The exception ends with the next
call of the app's listener.

**Why the bounds are enough.** Every property of the protocol is about one document, its
creator, and one other member: a second device is where views start to differ, and a second
restaurant where two picks can. `CalcResult` is free of the protocol and takes three
members, the first number for which a majority and a consensus differ. Two codes (`Lobby`) let
a late completion meet another session. Three requests are a sign-in, a deletion and another
sign-in, what the longer of the two races needs. Each limit is the smallest that lets its scenario
happen; the mutants of `PROJECT.json` show that each property can fail on its instance. Two answers
under way are where a device's view starts to differ from the documents of the server in more than
its newest write; with ten, as in the SDK, and everything else as in `Round`, the instance has
2,205,897 states, in which TypeOK, CountersAgree, NeverBlank, NoTrap and ImplementsLate hold too (checked once,
without the liveness property, which takes longer than a run should). The theorems of section 4 are about every
number of answers and callbacks.

**Fairness.** `SessionProperties!Fairness` is one weak condition on each device: it does not for ever
have something left to do (`WorkDue`: an answer, a document, a callback, a countdown, or a write to send for
the user whom the SDK knows of) and do none of it (`Works`). That is less than weak fairness of each of
these actions, and enough because each of them is due only finitely often. The SDK retries its queue
until it is acknowledged and its watch stream reconnects; the main queue runs what is dispatched to it; the
countdown reaches zero and calls `endSession` on every device that shows the live session
(`LiveSession.swift:37-44`). Nothing is assumed of taps, downloads, leaving or a relaunch.
`LiveSession!FairSpec`: time passes,
the run loop fires the timer, and the snapshot of the finished session (the device's own
write) arrives. Fingers and snapshots are not assumed fair; that the snapshots are finitely many is
the bound `MaxSnapshots`, and in the app the number of writes of the other members.
`Auth!FairSpec`: the work queue loads the keychain, the main queue runs, views are rendered; nothing
is assumed of the server.

### Where the code and its documentation disagree

`README.md:2` promises: "After the timed session concludes, the liked restaurants are
aggregated, and the most liked restaurant is chosen and shown to the user." These runs
end in a counterexample:

| Run | Property | What happens |
|---|---|---|
| `StaleLikes` | AggregatesFinalLikes | the host's start is executed and not answered while a participant ends the session: the host's view shows it live again after the host has pushed, and `calcResult` does not see what the host goes on to like |
| `LateJoin` | ResultCountsMyLikes | the creator's view counts its own pending push but not a participant who has joined; the result ignores that participant |
| `TwoResults` | ResultIsFinal | `startSession` adds a second listener; both compute a result and the picks differ |
| `SecondSession` | FinishedCountsAll | `pushed` is never reset; in the second session of a run of the app nothing is pushed and no result is computed |
| `DepartTrap` | NoTrap | a participant who has left still listens, and `pushResults` unwraps a nil code, which the `!` in the code says cannot be |
| `Offline` | DeletionIsReal | a participant who joins and loses the connection is told "Session deleted" (`SessionStore.swift:154`) of a session that exists |

There is one more, which needs no run: `calcResult` intersects, so the restaurant is not the most liked one
but one that everybody likes, and "Error" when two of three members like a restaurant and the third does
not. `PicksConsensus` states what the function does.

Properties fail when limits are widened; these are not runs of their own.
When the guest may go back (`DepartLimit`), `CountersAgree` fails, since leaving decrements
`participants` and not `finishedPushing` (`SessionStore.swift:62`). With two taps on
Join it fails as well: a participant is counted twice (`SessionStore.swift:45`). With two taps
on Start `NeverBlank` fails: the creator is offered Start again while the result is computed,
and a live session with a result has no branch in the view (`CreateSession.swift:64-76`). When the host of
`Alone` may be signed out, `CountsDownChosenTime` fails: the app and the Firestore client hear of it at
different moments, so the screen that disappears issues its delete into the queue of nobody, which is executed
unnoticed by the user who signs in again, or the create waits there while the time is written into a
document that does not exist yet; the time then fails, and the start, overlaid on what the device has cached,
shows a live session with the default time.

Two answers on their way are enough for `AggregatesFinalLikes` to fail, and with them the strict
`SessionSpec!Spec`. The SDK lays every write that was not answered over the document it has, also those that the
server has executed. While the answer to the host's own "start" is on its way, a document that has
ended is shown live again (`SessionStore.swift:161-165`): the host has pushed its likes and may go on
swiping, or end the session once more. And while the answers to later writes are on their way
the host's own push counts in `finishedPushing` on top of likes that are out of date, so the counters meet
(line 194) and `calcResult` writes "Error" for likes that, once they are all known, do have something in
common. With one answer at a time, which the SDK does not guarantee, both hold on the instance of `Round`. What
remains true in any case is `ImplementsLate`, which section 4 proves for every bound.

## 4. Proofs

TLAPS proves these for every set of users, restaurants and codes and every bound,
from the assumptions on the constants (the special values differ from the ordinary ones;
times, radii and limits are natural numbers):

* `CalcResultProofs`: `TypeCorrect`, `ResultCorrect` (Spec => []PicksConsensus) and
  `TrapCorrect` (Spec => []TrapsOnlyWithoutMembers). The inductive invariant `LoopInv` says
  that while collecting, `strings` holds the likes of exactly the keys seen; and that in the
  second loop the first element is the intersection of the collected sets up to
  the loop index, while the iterated copy stays as collected. `PicksConsensus` alone says
  nothing before the end of the loop.
* `SessionStoreProofs`, first part: lemmas that give the type of every SDK operator's result (`Apply`,
  `Overlay`, `Refresh`, `Issue`, `Watch`, `Receive`, `Acknowledge`, ...) and what each leaves of the
  listeners. That the last pending write to a field exists (`MaxType`) follows from the
  well-foundedness of the natural numbers.
* `SessionStoreProofs`: `TypeCorrect` (Spec => []TypeOK) and `ListensToItsSession`
  (Spec => []WatchesItsSession), from the inductive invariant `IInv`, which is `TypeOK` and
  `Fits`. `WatchesItsSession` is not inductive: it says nothing of a device that is not
  running, and `Launch` would start it with a code and no listener. `Fits` therefore states for
  all devices that the code's document has a listener, and the traps and `Quit` establish it
  because they clear the code together with the listeners.

* `MirrorProofs`: `MirrorsWhenSettled` (Spec => []SettledMirrors), without any assumption on
  `Limit`: also with departures, deletions, restarts, sign-outs and lost connections. The
  invariant `MInv` follows a document from the cache to the store. `Tracks`: what the SDK shows of
  a document without pending writes is the cached one, or the one shown before an
  acknowledgement that the server has yet to confirm, and the newest snapshot in the inbox is what
  is shown. `Informed`: a store agrees with what its device shows unless a snapshot is on its way.
  When everything is delivered the chain is complete.
* `RoundProofs`, first part: `KeepsRunning` (Spec => []NoTrap) for instances in which nobody goes back, signs
  out or loses the connection for too long (`Calm`; closing the app is allowed). With departures the
  property is false: that is the run `DepartTrap`. `CInv` says that no pending write takes a
  member away, that every callback brings a document with a member or the answer to a join, that a
  device that listens to a document can see it or is about to create it, and that a store whose
  device listens to anything has a session code.
* `RoundProofs`: `CountsEverybody` (Spec => []CountersAgree) for rounds with one host and any number
  of guests in which nobody goes away or closes the app and nobody taps Join twice (`OneRound`; the
  limits of `Round.cfg` satisfy it, and section 3 says how the property fails without it). The counters
  are incremented blindly, so the invariant `RInv` has to show that every increment is executed once
  for each member: a user whose join is waiting is a member of nothing, a device has at
  most one push that the server has not executed and none before it has pushed, a push comes
  after the write that made its author a member, and the only document is the one of the host,
  which is created once.
* `EndProofs`, first part: `AlwaysABranch` (Spec => []NeverBlank) for rounds as above that the host
  starts once (`OneStart`). The screens have no branch for a device that has a result and takes the
  session for live, or has no code. The invariant `EInv` orders the events of a round: the
  host's start comes before the list and before every end in its queue (`InOrder`); a guest ends a
  session only after it has seen the list; nothing is pushed and no result written before an end
  was executed or stands in the same queue; what a device sees of the end, the list or a result is on the
  server or in its own queue (`Orders`), and so is what its store remembers (`Remembers`). The start that was
  issued is executed or waits (`Begun`), so an end never overtakes it, and the server's document is never
  finished and live (`EServer`). `MInv` and `RInv` then carry this to the screen of a
  device that has caught up.
* `EndProofs`, second part: `DecisionsAreTraceable` (Spec => ImplementsLate), the refinement, under the
  same assumptions and for any number of late answers. The invariant `LInv` says where likes come
  from: likes that are not empty in a document of the server or a cache are those that their owner
  has handed in (`Accounted`, `Delivered`); a view may also show the device's own pushes (`Pushes`); and the
  selection of a result that waits in a queue was handed in by somebody, or is pushed by the same
  queue before it (`Backed`). Writes are executed in order, so when the result is executed its
  justification is on the server. `StaysOrCommits` shows that every step but `Commit` is a
  stutter of the abstract session; `CommitPerforms` says what a `Commit` does and that it was lawful; and
  `ExecutedImplements` maps each kind of write to its abstract action: a push to `HandIn`, which needs that
  nobody hands in twice and that the session has ended, an end to `Finish`, which needs that it was
  started, and a result to `Decide` or `GiveUp`. What `LateSpec` gives up is that "Error" means that some members who handed in
  have nothing in common; that a decided restaurant was handed in by a member is kept.
* `TimeProofs`: `StartsFromChosenTime` (Spec => []CountsDownChosenTime) with one host at most, who stays
  signed in (`OneHost`), and any number of guests, codes, departures, restarts, lost connections and sign-outs of
  guests. With two hosts
  who draw the same code it is false: the second `create` may be executed between the time and the
  start of the first; with a host who is signed out it is false too (section 3). The time and the start are two writes, so the invariant `TInv` follows them
  through the queue: they stay next to each other (`Grouped`); a queue is executed, seen and acknowledged
  in order (`Ordered`); once the time has been executed the server's document has a chosen time or
  does not exist, unless a later `create` or `delete` of the same queue was executed too
  (`Executed`), and the same holds of the cache and the writes it includes (`Cached`). The hard case is
  a time that fails because the document is missing, while the cache still has it: then the answers
  before it on their way to the device remove it from the cache (`Gone`), so that the later
  acknowledgement of a start finds nothing to make live.
* `LiveSessionProofs`: `LiveTypeCorrect` and `LosesNoCard` (Spec => []NoCardLost).
  `removeTopCard` takes the last card, not the swiped one; the invariant is that the stack is an initial
  part of the list, and that while nothing has disturbed the screen every card above the dragged
  one was judged, also those that a snapshot put back.
* `AuthProofs`: `AuthTypeCorrect` and `ShowsWhoIsSignedIn` (Spec => []ShowsCurrentUser). A listener that
  has not seen the current user has a block ahead in the main queue (`WillHear`); a user who is
  shown was passed on by a listener that has seen nobody else since (`ShownWasHeard`); and if all
  have seen the current user and nobody is shown, one of the two races has happened.

TLC checked each of the inductive invariants on small instances before its proof (`RInv`, `CInv`,
`EInv` and `LInv` on the instance of `Round` with two answers on their way). `OneRound`, `OneStart`, `Calm`
and `OneHost` are assumptions of their theorems only, not of the modules; the limits of `Round.cfg`
satisfy the first three, those of `Alone.cfg` the last.

Only model-checked: the liveness properties (ResultReached, DeletionNoticed, CountdownEnds,
ScreenFollowsUser), which are beyond the prover.

## 5. Not modelled

* Image downloads (`PlaceReferenceImage`) and the location delegate: they change no state of a session;
  the search's outcome is a list, an empty list or a failure.
* The texts and alerts of the forms; `ResultsView`, which nothing presents; data declarations,
  styles and the application template; the two test targets, which are templates.
* The vendored libraries, apart from what Dinder uses of the Firestore client and of
  FirebaseAuth. They are nearly all of the repository's C, C++ and Objective-C (some 640,000
  lines of gRPC, BoringSSL, leveldb, abseil and Firebase), against about 1,460 lines of Swift that
  are the program. The share of the repository that this project covers is therefore small,
  while nearly every state-changing line of the program is in a model.

## 6. Plan

1. *(done)* `Likes`, `CalcResult`, `Firestore`, `SessionStore`, the first properties, type
   correctness.
2. *(done)* The SDK with answers and documents in either order, two users' queues, loss of the
   connection; the abstract session and its refinement; two consecutive sessions; the swiping
   screen; authentication.
3. *(done)* Theorems: NoCardLost, ShowsCurrentUser, SettledMirrors, NoTrap under `Calm`, CountersAgree
   under `OneRound`, CountsDownChosenTime under `OneHost`.
4. *(done)* Theorems: NeverBlank with one start, and the refinement `ImplementsLate` for every
   schedule.
5. Open: CountsDownChosenTime for several hosts whose codes differ; the two consecutive sessions of
   `SecondSession` with a second device, beyond what TLC finishes in a run.
