--------------------------------- MODULE Auth ---------------------------------
(***************************************************************************)
(* Who is signed in, on one device: the SignInView and Account screens,    *)
(* SessionStore.session, and FirebaseAuth under them.                      *)
(*                                                                         *)
(* FirebaseAuth keeps the current user and a copy of it in the keychain,   *)
(* and changes them on a work queue of its own when the server has         *)
(* answered.  It tells the app in two ways, both through the main queue:   *)
(* the state listeners read the user that is current when they run, and    *)
(* only pass on a user id that differs from the one they saw last; the     *)
(* completion of a deletion sets SessionStore.session to nil.  signOut()   *)
(* sets it to nil at once.                                                 *)
(*                                                                         *)
(* ContentView calls listen() when its content appears; whether it appears *)
(* again when the content is exchanged differs between releases of SwiftUI *)
(* and is left open here.  Listeners are never removed.                    *)
(***************************************************************************)
EXTENDS Integers, Sequences, SequencesExt

CONSTANTS Accounts,      \* user ids
          Nobody,        \* no user
          Never,         \* a listener that was not called yet
          MaxRequests,   \* requests to the server
          MaxListeners,  \* calls of listen() in one process
          MaxRestarts

ASSUME AuthAssumption == /\ Nobody \notin Accounts /\ Never \notin Accounts /\ Never # Nobody
                         /\ MaxRequests \in Nat /\ MaxListeners \in Nat \ {0} /\ MaxRestarts \in Nat

VARIABLES accounts,   \* the accounts that the server has
          keychain,   \* the user that is stored on the device
          current,    \* FIRAuth's _currentUser, by uid
          loaded,     \* FIRAuth has read the keychain
          previous,   \* previousUserID of each listener
          requests,   \* requests without an answer, in the order of the taps
          main,       \* the blocks in the main queue
          session,    \* SessionStore.session
          home,       \* ContentView shows HomeView and not SignInView
          overtaken,  \* history: session was set to nil after FIRAuth had a user,
                      \* or FIRAuth got one before the listeners saw the last one go
          issued, restarts

vars == <<accounts, keychain, current, loaded, previous, requests, main, session, home,
          overtaken, issued, restarts>>

MaybeUser == Accounts \cup {Nobody}

\* held: the user object that is to be deleted is still FIRAuth's current user.
Requests == [op : {"signIn", "signUp", "delete"}, user : Accounts, held : BOOLEAN,
             reply : {"none", "ok", "error", "invalid"}]

Notify == [kind |-> "notify", listener |-> 0]
Deleted == [kind |-> "deleted", listener |-> 0]
FirstCall(i) == [kind |-> "first", listener |-> i]

\* The process has just started and listen() was called.
Init == /\ accounts \in SUBSET Accounts
        /\ keychain \in accounts \cup {Nobody}
        /\ current = Nobody
        /\ loaded = FALSE
        /\ previous = <<Never>>
        /\ requests = <<>>
        /\ main = <<FirstCall(1)>>
        /\ session = Nobody
        /\ home = FALSE
        /\ overtaken = FALSE
        /\ issued = 0
        /\ restarts = 0

------------------------------------------------------------------------------
(* FIRAuth *)

\* Mutant of Posts: nothing is posted when the user has signed out.
PostsUsersOnly(user) == IF user = Nobody THEN <<>> ELSE <<Notify>>

\* A notification is posted when the token has changed, and every sign-in has a
\* token of its own.
Posts(user) == IF user = current /\ user = Nobody THEN <<>> ELSE <<Notify>>

\* updateCurrentUser: saved is the outcome of writing the keychain.  None of the
\* requests holds the new user object.
updateCurrentUser(user, force, saved, reqs, block) ==
    LET done == saved \/ force
    IN  /\ keychain' = IF saved THEN user ELSE keychain
        /\ current' = IF done THEN user ELSE current
        /\ main' = main \o (IF done THEN Posts(user) ELSE <<>>) \o block
        /\ requests' = [i \in DOMAIN reqs |-> [reqs[i] EXCEPT !.held = @ /\ ~done]]

\* The keychain is read, first of all things on the work queue.
Load == /\ ~loaded
        /\ loaded' = TRUE
        /\ current' = keychain
        /\ main' = main \o Posts(keychain)
        /\ UNCHANGED <<accounts, keychain, previous, requests, session, home, overtaken,
                       issued, restarts>>

\* The server executes a request, or fails to.
Execute(i) ==
    /\ loaded /\ requests[i].reply = "none"
    /\ LET r == requests[i]
       IN  \E reply \in {"ok", "error", "invalid"} :
              /\ reply = "ok" => r.user \in accounts <=> r.op # "signUp"
              /\ reply = "invalid" => r.op = "delete"
              /\ accounts' = IF reply # "ok" THEN accounts
                             ELSE IF r.op = "delete" THEN accounts \ {r.user}
                             ELSE accounts \cup {r.user}
              /\ requests' = [requests EXCEPT ![i].reply = reply]
    /\ UNCHANGED <<keychain, current, loaded, previous, main, session, home, overtaken,
                   issued, restarts>>

\* The answer to signInWithEmail or createUserWithEmail arrives.  Its completion
\* only touches the fields of the form.
AnswerSignIn(i) ==
    LET r == requests[i]
        rest == RemoveAt(requests, i)
    IN  /\ r.op # "delete" /\ r.reply # "none"
        /\ \/ /\ r.reply = "ok"
              /\ \E saved \in BOOLEAN : updateCurrentUser(r.user, FALSE, saved, rest, <<>>)
              /\ overtaken' = (overtaken \/ /\ current' # current /\ session = Nobody
                                            /\ \E l \in DOMAIN previous : previous[l] \in Accounts)
           \/ /\ r.reply # "ok"
              /\ requests' = rest
              /\ UNCHANGED <<keychain, current, main, overtaken>>
        /\ UNCHANGED <<accounts, loaded, previous, session, home, issued, restarts>>

\* The answer to deleteWithCompletion arrives.  The user is signed out by force if
\* the current user is still the same object; an invalid token has that effect
\* too.  Errors go to the completion, which ignores them.
AnswerDelete(i) ==
    LET r == requests[i]
        rest == RemoveAt(requests, i)
    IN  /\ r.op = "delete" /\ r.reply # "none"
        /\ \/ /\ r.reply # "error" /\ r.held
              /\ \E saved \in BOOLEAN :
                    updateCurrentUser(Nobody, TRUE, saved, rest,
                                      IF r.reply = "ok" /\ saved THEN <<Deleted>> ELSE <<>>)
           \/ /\ r.reply = "error" \/ ~r.held
              /\ requests' = rest
              /\ main' = IF r.reply = "ok" THEN Append(main, Deleted) ELSE main
              /\ UNCHANGED <<keychain, current>>
        /\ UNCHANGED <<accounts, loaded, previous, session, home, overtaken, issued, restarts>>

------------------------------------------------------------------------------
(* The main queue *)

\* Mutant of listen: the else branch is missing.
listenUsersOnly(heard) == IF heard /\ current # Nobody THEN current ELSE session

\* The listener of SessionStore, when it is called.
listen(heard) == IF heard THEN current ELSE session

\* FIRAuth's listeners in ls run: each calls the app's listener if the user is not
\* the one it saw last.
Hear(ls) ==
    LET heard == \E l \in ls : previous[l] # current
    IN  /\ previous' = [l \in DOMAIN previous |-> IF l \in ls THEN current ELSE previous[l]]
        /\ session' = listen(heard)
        /\ overtaken' = (overtaken /\ ~heard)

\* The next block of the main queue runs.
Block ==
    /\ main # <<>>
    /\ main' = Tail(main)
    /\ \/ Head(main).kind = "notify" /\ Hear(DOMAIN previous)
       \/ Head(main).kind = "first" /\ Hear({Head(main).listener})
       \/ /\ Head(main).kind = "deleted"
          /\ session' = Nobody
          /\ overtaken' = (overtaken \/ current # Nobody)
          /\ UNCHANGED previous
    /\ UNCHANGED <<accounts, keychain, current, loaded, requests, home, issued, restarts>>

\* Mutant of Render: the newest listener goes away with the content that made it.
RenderUnlistens ==
    /\ home # (session # Nobody)
    /\ home' = ~home
    /\ \/ /\ Len(previous) < MaxListeners
          /\ previous' = Append(previous, Never)
          /\ main' = Append(main, FirstCall(Len(previous) + 1))
       \/ /\ previous' = IF Len(previous) > 1 THEN Front(previous) ELSE previous
          /\ UNCHANGED main
    /\ UNCHANGED <<accounts, keychain, current, loaded, requests, session, overtaken,
                   issued, restarts>>

\* ContentView is rendered with the other content, and may call listen() again.
Render ==
    /\ home # (session # Nobody)
    /\ home' = ~home
    /\ \/ /\ Len(previous) < MaxListeners
          /\ previous' = Append(previous, Never)
          /\ main' = Append(main, FirstCall(Len(previous) + 1))
       \/ UNCHANGED <<previous, main>>
    /\ UNCHANGED <<accounts, keychain, current, loaded, requests, session, overtaken,
                   issued, restarts>>

------------------------------------------------------------------------------
(* The user *)

Request(op, u, held) ==
    /\ issued < MaxRequests
    /\ issued' = issued + 1
    /\ requests' = Append(requests, [op |-> op, user |-> u, held |-> held, reply |-> "none"])

\* Log In or Join is tapped.  Nothing stops a second tap.
SignIn(op, u) ==
    /\ ~home
    /\ Request(op, u, FALSE)
    /\ UNCHANGED <<accounts, keychain, current, loaded, previous, main, session, home,
                   overtaken, restarts>>

\* Sign out on the Account screen, or a password reset there or on SignInView,
\* which signs out whatever becomes of it.  When the keychain cannot be written
\* nothing changes; when FIRAuth has no user it leaves the keychain alone.
SignOut ==
    /\ loaded
    /\ \/ /\ current # Nobody
          /\ updateCurrentUser(Nobody, FALSE, TRUE, requests, <<>>)
       \/ /\ current = Nobody /\ session # Nobody
          /\ UNCHANGED <<keychain, current, requests, main>>
    /\ session' = Nobody
    /\ UNCHANGED <<accounts, loaded, previous, home, overtaken, issued, restarts>>

\* Delete account is confirmed: it is FIRAuth's current user that is deleted.
Delete ==
    /\ home /\ loaded /\ current # Nobody
    /\ Request("delete", current, TRUE)
    /\ UNCHANGED <<accounts, keychain, current, loaded, previous, main, session, home,
                   overtaken, restarts>>

\* The process ends and starts again; the keychain and the server stay.
Restart ==
    /\ restarts < MaxRestarts /\ restarts' = restarts + 1
    /\ current' = Nobody /\ loaded' = FALSE
    /\ previous' = <<Never>> /\ main' = <<FirstCall(1)>>
    /\ requests' = <<>>
    /\ session' = Nobody /\ home' = FALSE /\ overtaken' = FALSE
    /\ UNCHANGED <<accounts, keychain, issued>>

Next == \/ Load \/ Block \/ Render
        \/ \E i \in DOMAIN requests : Execute(i) \/ AnswerSignIn(i) \/ AnswerDelete(i)
        \/ \E u \in Accounts, op \in {"signIn", "signUp"} : SignIn(op, u)
        \/ SignOut \/ Delete
        \/ Restart

Spec == Init /\ [][Next]_vars

\* The work queue, the main queue and the rendering go on.  Nothing is assumed of
\* the server or of the user.
FairSpec == Spec /\ WF_vars(Load) /\ WF_vars(Block) /\ WF_vars(Render)

------------------------------------------------------------------------------

TypeOK == /\ accounts \subseteq Accounts
          /\ keychain \in MaybeUser /\ current \in MaybeUser /\ session \in MaybeUser
          /\ loaded \in BOOLEAN /\ home \in BOOLEAN /\ overtaken \in BOOLEAN
          /\ previous \in Seq(MaybeUser \cup {Never})
          /\ Len(previous) \in 1 .. MaxListeners
          /\ requests \in Seq(Requests)
          /\ main \in Seq({Notify, Deleted} \cup {FirstCall(l) : l \in DOMAIN previous})
          /\ issued \in 0 .. MaxRequests /\ restarts \in 0 .. MaxRestarts

\* Once the main queue is empty, the app shows the user who is signed in, or, if a
\* late deletion or a sign-in that came too early was swallowed by the listeners'
\* comparison with the last user id, nobody; it never shows somebody else
\* (SessionStore.swift:255-268 and 308-316, FIRAuth.m:1374-1387).
ShowsCurrentUser ==
    loaded /\ main = <<>> => session = current \/ (session = Nobody /\ overtaken)

\* The home screen comes and goes with the user: again and again it is shown
\* exactly if somebody is signed in (ContentView.swift:17-28), but for the same
\* exception.
ScreenFollowsUser == []<>(loaded /\ (overtaken \/ (home <=> current # Nobody)))
==============================================================================
