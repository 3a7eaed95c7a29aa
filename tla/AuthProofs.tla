------------------------------ MODULE AuthProofs ------------------------------
(***************************************************************************)
(* Type correctness of the sign-in, and that the app shows the user who is *)
(* signed in, for any set of accounts and any number of requests,          *)
(* listeners and restarts.                                                 *)
(***************************************************************************)
EXTENDS Auth, SequenceTheorems, TLAPS

Blocks(n) == {Notify, Deleted} \cup {FirstCall(l) : l \in 1 .. n}

Queued(b, q) == \E k \in DOMAIN q : q[k] = b

\* A listener that has not seen the current user will be called.
WillHear == \A l \in DOMAIN previous :
               previous[l] # current => Queued(Notify, main) \/ Queued(FirstCall(l), main)

\* A user that the app shows was passed on by a listener that has seen nobody
\* else since.
ShownWasHeard == session # Nobody => \E l \in DOMAIN previous : previous[l] = session

\* If all listeners have seen the current user and the app does not show him,
\* session was set to nil too late or the user came too early.
SwallowedIsOvertaken ==
    /\ \A l \in DOMAIN previous : previous[l] = current
    /\ session = Nobody /\ current # Nobody
    => overtaken

\* Nobody was seen and no request was answered before the keychain is read.
NotLoaded == ~loaded => /\ current = Nobody
                        /\ \A l \in DOMAIN previous : previous[l] \notin Accounts
                        /\ \A i \in DOMAIN requests : requests[i].reply = "none"

IInv == TypeOK /\ WillHear /\ ShownWasHeard /\ SwallowedIsOvertaken /\ NotLoaded

------------------------------------------------------------------------------
(* Queues *)

\* The blocks of a longer queue are those of its parts.
LEMMA QueuedConcat ==
    ASSUME NEW S, NEW s \in Seq(S), NEW t \in Seq(S)
    PROVE  /\ s \o t \in Seq(S)
           /\ \A b : Queued(b, s) \/ Queued(b, t) => Queued(b, s \o t)
<1>1. /\ s \o t \in Seq(S)
      /\ Len(s \o t) = Len(s) + Len(t)
      /\ \A i \in 1 .. Len(s) + Len(t) : (s \o t)[i] = IF i <= Len(s) THEN s[i] ELSE t[i - Len(s)]
  BY ConcatProperties
<1>2. /\ Len(s) \in Nat /\ Len(t) \in Nat
      /\ DOMAIN s = 1 .. Len(s) /\ DOMAIN t = 1 .. Len(t)
      /\ DOMAIN (s \o t) = 1 .. Len(s) + Len(t)
  BY <1>1
<1>3. ASSUME NEW b, NEW k \in DOMAIN s, s[k] = b
      PROVE  Queued(b, s \o t)
  <2>1. k \in 1 .. Len(s) + Len(t) /\ k <= Len(s)
    BY <1>2
  <2> QED
    BY <1>1, <1>2, <1>3, <2>1 DEF Queued
<1>4. ASSUME NEW b, NEW k \in DOMAIN t, t[k] = b
      PROVE  Queued(b, s \o t)
  <2>1. /\ k + Len(s) \in 1 .. Len(s) + Len(t) /\ ~(k + Len(s) <= Len(s))
        /\ (k + Len(s)) - Len(s) = k
    BY <1>2
  <2>2. (s \o t)[k + Len(s)] = b
    BY <1>1, <1>4, <2>1
  <2> QED
    BY <1>2, <2>1, <2>2 DEF Queued
<1> QED
  BY <1>1, <1>3, <1>4 DEF Queued

\* All blocks but the first stay when the first one has run.
LEMMA QueuedTail ==
    ASSUME NEW S, NEW s \in Seq(S), s # <<>>
    PROVE  /\ Head(s) \in S /\ Tail(s) \in Seq(S)
           /\ \A b : Queued(b, s) /\ b # Head(s) => Queued(b, Tail(s))
<1>1. /\ Head(s) \in S /\ Tail(s) \in Seq(S)
      /\ Len(Tail(s)) = Len(s) - 1
      /\ \A i \in 1 .. Len(Tail(s)) : Tail(s)[i] = s[i + 1]
  BY HeadTailProperties, Zenon
<1>2. /\ Len(s) \in Nat /\ DOMAIN s = 1 .. Len(s) /\ DOMAIN Tail(s) = 1 .. Len(Tail(s))
      /\ Head(s) = s[1]
  BY <1>1
<1>3. ASSUME NEW b, NEW k \in DOMAIN s, s[k] = b, b # Head(s)
      PROVE  Queued(b, Tail(s))
  <2>1. k # 1
    BY <1>2, <1>3
  <2>2. k - 1 \in 1 .. Len(Tail(s)) /\ (k - 1) + 1 = k
    BY <1>1, <1>2, <2>1
  <2>3. Tail(s)[k - 1] = b
    BY <1>1, <1>3, <2>2
  <2> QED
    BY <1>2, <2>2, <2>3 DEF Queued
<1> QED
  BY <1>1, <1>3 DEF Queued

\* What is put into a queue is in it.
LEMMA QueuedOne ==
    ASSUME NEW b
    PROVE  Queued(b, <<b>>)
  BY DEF Queued

\* An answered request is forgotten, the others stay requests.
LEMMA RemoveAtType ==
    ASSUME NEW S, NEW s \in Seq(S), NEW i \in DOMAIN s
    PROVE  RemoveAt(s, i) \in Seq(S)
<1>1. Len(s) \in Nat /\ i \in 1 .. Len(s) /\ \A k \in 1 .. Len(s) : s[k] \in S
  OBVIOUS
<1>2. /\ i - 1 \in Int /\ i + 1 \in Int
      /\ \A k \in 1 .. i - 1 : s[k] \in S
      /\ \A k \in i + 1 .. Len(s) : s[k] \in S
  BY <1>1
<1>3. SubSeq(s, 1, i - 1) \in Seq(S) /\ SubSeq(s, i + 1, Len(s)) \in Seq(S)
  BY <1>1, <1>2, SubSeqProperties
<1>4. SubSeq(s, 1, i - 1) \o SubSeq(s, i + 1, Len(s)) \in Seq(S)
  BY <1>3, ConcatProperties
<1> QED
  BY <1>4 DEF RemoveAt

------------------------------------------------------------------------------
(* FIRAuth *)

\* The parts of the type invariant that speak of the queues.
LEMMA Parts ==
    ASSUME TypeOK
    PROVE  /\ previous \in Seq(MaybeUser \cup {Never})
           /\ Len(previous) \in Nat /\ Len(previous) > 0 /\ DOMAIN previous = 1 .. Len(previous)
           /\ main \in Seq(Blocks(Len(previous)))
           /\ requests \in Seq(Requests)
<1>1. previous \in Seq(MaybeUser \cup {Never}) /\ Len(previous) \in 1 .. MaxListeners
  BY DEF TypeOK
<1>2. Len(previous) \in Nat /\ Len(previous) > 0 /\ DOMAIN previous = 1 .. Len(previous)
  BY <1>1, AuthAssumption
<1>3. main \in Seq({Notify, Deleted} \cup {FirstCall(l) : l \in DOMAIN previous})
  BY DEF TypeOK
<1>4. main \in Seq(Blocks(Len(previous)))
  BY <1>2, <1>3, Zenon DEF Blocks
<1> QED
  BY <1>1, <1>2, <1>4 DEF TypeOK

\* What is posted is a block, and a change of the user is posted.
LEMMA PostsType ==
    ASSUME NEW user, NEW n \in Nat
    PROVE  /\ Posts(user) \in Seq(Blocks(n)) /\ <<>> \in Seq(Blocks(n))
           /\ user # current => Queued(Notify, Posts(user))
<1>1. Notify \in Blocks(n)
  BY DEF Blocks
<1>2. <<>> \in Seq(Blocks(n)) /\ <<Notify>> \in Seq(Blocks(n))
  BY <1>1
<1> QED
  BY <1>2, QueuedOne DEF Posts

\* Changing the current user: whoever is current now, the listeners will be called,
\* and the requests stay requests.
LEMMA UpdateStep ==
    ASSUME TypeOK, WillHear, UNCHANGED previous,
           NEW user \in MaybeUser, NEW force \in BOOLEAN, NEW saved \in BOOLEAN,
           NEW reqs \in Seq(Requests), NEW block \in Seq(Blocks(Len(previous))),
           updateCurrentUser(user, force, saved, reqs, block)
    PROVE  /\ keychain' \in MaybeUser /\ current' \in {current, user}
           /\ main' \in Seq(Blocks(Len(previous)))
           /\ requests' \in Seq(Requests)
           /\ saved \/ force => current' = user
           /\ WillHear'
<1> DEFINE done == saved \/ force
           posts == IF done THEN Posts(user) ELSE <<>>
<1>1. /\ keychain' = IF saved THEN user ELSE keychain
      /\ current' = IF done THEN user ELSE current
      /\ main' = main \o posts \o block
      /\ requests' = [i \in DOMAIN reqs |-> [reqs[i] EXCEPT !.held = @ /\ ~done]]
  BY DEF updateCurrentUser
<1>2. keychain' \in MaybeUser /\ current' \in {current, user} /\ (done => current' = user)
  BY <1>1 DEF TypeOK
<1>3. main \in Seq(Blocks(Len(previous))) /\ Len(previous) \in Nat
  BY Parts
<1>4. /\ posts \in Seq(Blocks(Len(previous)))
      /\ current' # current => Queued(Notify, posts)
  BY <1>1, <1>3, PostsType
<1> HIDE DEF posts
<1>5. /\ main \o posts \in Seq(Blocks(Len(previous)))
      /\ \A b : Queued(b, main) \/ Queued(b, posts) => Queued(b, main \o posts)
  BY <1>3, <1>4, QueuedConcat
<1>6. /\ main' \in Seq(Blocks(Len(previous)))
      /\ \A b : Queued(b, main \o posts) => Queued(b, main')
  BY <1>1, <1>5, QueuedConcat
<1>7. WillHear'
  BY <1>4, <1>5, <1>6 DEF WillHear
<1>8. requests' \in Seq(Requests)
  <2>1. \A r \in Requests : [r EXCEPT !.held = @ /\ ~done] \in Requests
    <3> SUFFICES ASSUME NEW r \in Requests
                 PROVE  [r EXCEPT !.held = @ /\ ~done] \in Requests
      OBVIOUS
    <3>1. PICK h \in BOOLEAN : h = (r.held /\ ~done)
      BY Zenon
    <3>2. [r EXCEPT !.held = h] \in Requests
      BY DEF Requests
    <3> QED
      BY <3>1, <3>2
  <2>2. Len(reqs) \in Nat /\ DOMAIN reqs = 1 .. Len(reqs) /\ \A i \in 1 .. Len(reqs) : reqs[i] \in Requests
    OBVIOUS
  <2>3. requests' \in [1 .. Len(reqs) -> Requests]
    BY <1>1, <2>1, <2>2, Zenon
  <2> QED
    BY <2>2, <2>3
<1> QED
  BY <1>2, <1>6, <1>7, <1>8

LEMMA IInvInit == Init => IInv
<1> SUFFICES ASSUME Init PROVE IInv
  OBVIOUS
<1>1. /\ previous = <<Never>> /\ DOMAIN previous = {1} /\ Len(previous) = 1
      /\ main = <<FirstCall(1)>> /\ requests = <<>> /\ current = Nobody /\ session = Nobody
  BY DEF Init
<1>2. TypeOK
  <2>1. /\ accounts \subseteq Accounts /\ keychain \in MaybeUser
        /\ current \in MaybeUser /\ session \in MaybeUser
    BY DEF Init, MaybeUser
  <2>2. loaded \in BOOLEAN /\ home \in BOOLEAN /\ overtaken \in BOOLEAN
    BY DEF Init
  <2>3. previous \in Seq(MaybeUser \cup {Never}) /\ Len(previous) \in 1 .. MaxListeners
    BY <1>1, AuthAssumption
  <2>4. requests \in Seq(Requests) /\ issued \in 0 .. MaxRequests /\ restarts \in 0 .. MaxRestarts
    BY AuthAssumption DEF Init
  <2>5. main \in Seq({Notify, Deleted} \cup {FirstCall(l) : l \in DOMAIN previous})
    BY <1>1
  <2> QED
    BY <2>1, <2>2, <2>3, <2>4, <2>5 DEF TypeOK
<1>3. WillHear
  BY <1>1, QueuedOne DEF WillHear
<1>4. ShownWasHeard /\ SwallowedIsOvertaken
  BY <1>1 DEF ShownWasHeard, SwallowedIsOvertaken
<1>5. NotLoaded
  BY <1>1, AuthAssumption DEF NotLoaded
<1> QED
  BY <1>2, <1>3, <1>4, <1>5 DEF IInv

\* The user of the keychain is posted; no listener has seen a user before.
LEMMA LoadStep ==
    ASSUME IInv, Load
    PROVE  IInv'
<1>1. /\ TypeOK /\ ~loaded /\ loaded' = TRUE /\ current' = keychain
      /\ main' = main \o Posts(keychain)
      /\ UNCHANGED <<accounts, keychain, previous, requests, session, home, overtaken,
                     issued, restarts>>
  BY DEF IInv, Load
<1>2. /\ Len(previous) \in Nat /\ Len(previous) > 0 /\ DOMAIN previous = 1 .. Len(previous)
      /\ main \in Seq(Blocks(Len(previous)))
  BY <1>1, Parts
<1>3. /\ main' \in Seq(Blocks(Len(previous)))
      /\ \A b : Queued(b, main) \/ Queued(b, Posts(keychain)) => Queued(b, main')
      /\ keychain # current => Queued(Notify, Posts(keychain))
  BY <1>1, <1>2, PostsType, QueuedConcat
<1>4. TypeOK'
  <2>1. main' \in Seq({Notify, Deleted} \cup {FirstCall(l) : l \in DOMAIN previous'})
    BY <1>1, <1>2, <1>3, Zenon DEF Blocks
  <2> QED
    BY <1>1, <2>1 DEF TypeOK
<1>5. WillHear'
  BY <1>1, <1>3 DEF IInv, WillHear
<1>6. ShownWasHeard'
  BY <1>1 DEF IInv, ShownWasHeard
<1>7. SwallowedIsOvertaken'
  <2>1. \A l \in DOMAIN previous : previous[l] \notin Accounts
    BY <1>1 DEF IInv, NotLoaded
  <2>2. 1 \in DOMAIN previous
    BY <1>2
  <2> QED
    BY <1>1, <2>1, <2>2 DEF SwallowedIsOvertaken, TypeOK, MaybeUser
<1>8. NotLoaded'
  BY <1>1 DEF NotLoaded
<1> QED
  BY <1>4, <1>5, <1>6, <1>7, <1>8 DEF IInv

LEMMA ExecuteStep ==
    ASSUME IInv, NEW i \in DOMAIN requests, Execute(i)
    PROVE  IInv'
<1>1. PICK reply \in {"ok", "error", "invalid"} :
         /\ accounts' = IF reply # "ok" THEN accounts
                        ELSE IF requests[i].op = "delete" THEN accounts \ {requests[i].user}
                        ELSE accounts \cup {requests[i].user}
         /\ requests' = [requests EXCEPT ![i].reply = reply]
  BY DEF Execute
<1>2. /\ TypeOK /\ loaded /\ requests \in Seq(Requests)
      /\ UNCHANGED <<keychain, current, loaded, previous, main, session, home, overtaken,
                     issued, restarts>>
  BY Parts DEF IInv, Execute
<1>3. requests' \in Seq(Requests)
  <2>1. requests[i] \in Requests /\ DOMAIN requests = 1 .. Len(requests) /\ Len(requests) \in Nat
    BY <1>2
  <2>2. [requests[i] EXCEPT !.reply = reply] \in Requests
    BY <2>1 DEF Requests
  <2>3. requests' = [requests EXCEPT ![i] = [requests[i] EXCEPT !.reply = reply]]
    BY <1>1
  <2> QED
    BY <1>2, <2>1, <2>2, <2>3
<1>4. accounts' \subseteq Accounts
  <2>1. requests[i] \in Requests
    BY <1>2
  <2>2. requests[i].user \in Accounts
    BY <2>1 DEF Requests
  <2> QED
    BY <1>1, <1>2, <2>2 DEF TypeOK
<1>5. TypeOK'
  BY <1>2, <1>3, <1>4 DEF TypeOK
<1>6. WillHear' /\ ShownWasHeard' /\ SwallowedIsOvertaken'
  BY <1>2 DEF IInv, WillHear, ShownWasHeard, SwallowedIsOvertaken
<1>7. NotLoaded'
  BY <1>2 DEF NotLoaded
<1> QED
  BY <1>5, <1>6, <1>7 DEF IInv

\* A user who signs in is posted; if the listeners would swallow him because they
\* saw him last, that is noted.
LEMMA AnswerSignInStep ==
    ASSUME IInv, NEW i \in DOMAIN requests, AnswerSignIn(i)
    PROVE  IInv'
<1> DEFINE r == requests[i]
           rest == RemoveAt(requests, i)
<1>1. /\ TypeOK /\ WillHear /\ requests \in Seq(Requests)
      /\ r.op # "delete" /\ r.reply # "none"
      /\ UNCHANGED <<accounts, loaded, previous, session, home, issued, restarts>>
  BY Parts DEF IInv, AnswerSignIn
<1>2. /\ Len(previous) \in Nat /\ Len(previous) > 0 /\ DOMAIN previous = 1 .. Len(previous)
      /\ main \in Seq(Blocks(Len(previous)))
  BY <1>1, Parts
<1>3. rest \in Seq(Requests) /\ r.user \in Accounts
  <2>1. rest \in Seq(Requests)
    BY <1>1, RemoveAtType
  <2>2. r \in Requests
    BY <1>1
  <2> QED
    BY <2>1, <2>2 DEF Requests
<1>4. loaded
  BY <1>1 DEF IInv, NotLoaded
<1>5. NotLoaded'
  BY <1>1, <1>4 DEF NotLoaded
<1>6. ShownWasHeard'
  BY <1>1 DEF IInv, ShownWasHeard
<1>7. CASE /\ r.reply = "ok"
           /\ \E saved \in BOOLEAN : updateCurrentUser(r.user, FALSE, saved, rest, <<>>)
           /\ overtaken' = (overtaken \/ /\ current' # current /\ session = Nobody
                                         /\ \E l \in DOMAIN previous : previous[l] \in Accounts)
  <2>1. PICK saved \in BOOLEAN : updateCurrentUser(r.user, FALSE, saved, rest, <<>>)
    BY <1>7
  <2>2. <<>> \in Seq(Blocks(Len(previous))) /\ r.user \in MaybeUser
    BY <1>3 DEF MaybeUser
  <2>3. /\ keychain' \in MaybeUser /\ current' \in {current, r.user}
        /\ main' \in Seq(Blocks(Len(previous)))
        /\ requests' \in Seq(Requests) /\ WillHear'
    BY <1>1, <1>3, <2>1, <2>2, UpdateStep
  <2>4. TypeOK'
    <3>1. main' \in Seq({Notify, Deleted} \cup {FirstCall(l) : l \in DOMAIN previous'})
      BY <1>1, <1>2, <2>3, Zenon DEF Blocks
    <3>2. overtaken' \in BOOLEAN
      BY <1>1, <1>7, Zenon DEF TypeOK
    <3> QED
      BY <1>1, <2>2, <2>3, <3>1, <3>2 DEF TypeOK
  <2>5. SwallowedIsOvertaken'
    <3>1. 1 \in DOMAIN previous
      BY <1>2
    <3>2. CASE current' = current
      BY <1>1, <1>7, <3>2 DEF IInv, SwallowedIsOvertaken
    <3>3. CASE current' # current
      <4>1. current' \in Accounts
        BY <1>3, <2>3, <3>3
      <4> QED
        BY <1>1, <1>7, <3>1, <3>3, <4>1 DEF SwallowedIsOvertaken
    <3> QED
      BY <3>2, <3>3
  <2> QED
    BY <1>5, <1>6, <2>3, <2>4, <2>5 DEF IInv
<1>8. CASE requests' = rest /\ UNCHANGED <<keychain, current, main, overtaken>>
  BY <1>1, <1>3, <1>5, <1>6, <1>8 DEF IInv, TypeOK, WillHear, SwallowedIsOvertaken
<1> QED
  BY <1>7, <1>8 DEF AnswerSignIn

\* The deleted user is signed out, or not FIRAuth's user any more.
LEMMA AnswerDeleteStep ==
    ASSUME IInv, NEW i \in DOMAIN requests, AnswerDelete(i)
    PROVE  IInv'
<1> DEFINE r == requests[i]
           rest == RemoveAt(requests, i)
<1>1. /\ TypeOK /\ WillHear /\ requests \in Seq(Requests)
      /\ r.op = "delete" /\ r.reply # "none"
      /\ UNCHANGED <<accounts, loaded, previous, session, home, overtaken, issued, restarts>>
  BY Parts DEF IInv, AnswerDelete
<1>2. /\ Len(previous) \in Nat /\ Len(previous) > 0 /\ DOMAIN previous = 1 .. Len(previous)
      /\ main \in Seq(Blocks(Len(previous)))
  BY <1>1, Parts
<1>3. rest \in Seq(Requests)
  BY <1>1, RemoveAtType
<1>4. loaded
  BY <1>1 DEF IInv, NotLoaded
<1>5. NotLoaded'
  BY <1>1, <1>4 DEF NotLoaded
<1>6. ShownWasHeard'
  BY <1>1 DEF IInv, ShownWasHeard
<1>7. Deleted \in Blocks(Len(previous)) /\ <<>> \in Seq(Blocks(Len(previous)))
  BY DEF Blocks
<1>8. CASE \E saved \in BOOLEAN :
              updateCurrentUser(Nobody, TRUE, saved, rest,
                                IF r.reply = "ok" /\ saved THEN <<Deleted>> ELSE <<>>)
  <2>1. PICK saved \in BOOLEAN :
              updateCurrentUser(Nobody, TRUE, saved, rest,
                                IF r.reply = "ok" /\ saved THEN <<Deleted>> ELSE <<>>)
    BY <1>8
  <2>2. (IF r.reply = "ok" /\ saved THEN <<Deleted>> ELSE <<>>) \in Seq(Blocks(Len(previous)))
    BY <1>7
  <2>3. Nobody \in MaybeUser
    BY DEF MaybeUser
  <2>4. /\ keychain' \in MaybeUser /\ current' \in {current, Nobody}
        /\ main' \in Seq(Blocks(Len(previous))) /\ current' = Nobody
        /\ requests' \in Seq(Requests) /\ WillHear'
    BY <1>1, <1>3, <2>1, <2>2, <2>3, UpdateStep
  <2>5. TypeOK'
    <3>1. main' \in Seq({Notify, Deleted} \cup {FirstCall(l) : l \in DOMAIN previous'})
      BY <1>1, <1>2, <2>4, Zenon DEF Blocks
    <3> QED
      BY <1>1, <2>3, <2>4, <3>1 DEF TypeOK
  <2>6. SwallowedIsOvertaken'
    BY <2>4 DEF SwallowedIsOvertaken
  <2> QED
    BY <1>5, <1>6, <2>4, <2>5, <2>6 DEF IInv
<1>9. CASE /\ requests' = rest
           /\ main' = IF r.reply = "ok" THEN Append(main, Deleted) ELSE main
           /\ UNCHANGED <<keychain, current>>
  <2>1. /\ main' \in Seq(Blocks(Len(previous)))
        /\ \A b : Queued(b, main) => Queued(b, main')
    <3>1. Append(main, Deleted) = main \o <<Deleted>> /\ <<Deleted>> \in Seq(Blocks(Len(previous)))
      BY <1>2, <1>7, AppendIsConcat
    <3>2. /\ main \o <<Deleted>> \in Seq(Blocks(Len(previous)))
          /\ \A b : Queued(b, main) => Queued(b, main \o <<Deleted>>)
      BY <1>2, <3>1, QueuedConcat
    <3> QED
      BY <1>2, <1>9, <3>1, <3>2
  <2>2. main' \in Seq({Notify, Deleted} \cup {FirstCall(l) : l \in DOMAIN previous'})
    BY <1>1, <1>2, <2>1, Zenon DEF Blocks
  <2>3. TypeOK'
    BY <1>1, <1>3, <1>9, <2>2 DEF TypeOK
  <2>4. WillHear' /\ SwallowedIsOvertaken'
    BY <1>1, <1>9, <2>1 DEF IInv, WillHear, SwallowedIsOvertaken
  <2> QED
    BY <1>5, <1>6, <2>3, <2>4 DEF IInv
<1> QED
  BY <1>8, <1>9 DEF AnswerDelete

------------------------------------------------------------------------------
(* The main queue *)

\* Listeners run.  Those that ran have seen the current user, and if that was news
\* to one of them the app shows him.
LEMMA HearStep ==
    ASSUME TypeOK, ShownWasHeard, SwallowedIsOvertaken, UNCHANGED current,
           NEW ls \in SUBSET (DOMAIN previous), Hear(ls)
    PROVE  /\ previous' \in Seq(MaybeUser \cup {Never}) /\ DOMAIN previous' = DOMAIN previous
           /\ Len(previous') = Len(previous)
           /\ \A l \in DOMAIN previous : previous'[l] = IF l \in ls THEN current ELSE previous[l]
           /\ session' \in MaybeUser /\ overtaken' \in BOOLEAN
           /\ ShownWasHeard' /\ SwallowedIsOvertaken'
<1> DEFINE heard == \E l \in ls : previous[l] # current
<1>1. /\ previous' = [l \in DOMAIN previous |-> IF l \in ls THEN current ELSE previous[l]]
      /\ session' = IF heard THEN current ELSE session
      /\ overtaken' = (overtaken /\ ~heard)
  BY DEF Hear, listen
<1>2. /\ previous \in Seq(MaybeUser \cup {Never})
      /\ Len(previous) \in Nat /\ DOMAIN previous = 1 .. Len(previous)
      /\ current \in MaybeUser /\ session \in MaybeUser /\ overtaken \in BOOLEAN
  BY Parts DEF TypeOK
<1>3. previous' \in [1 .. Len(previous) -> MaybeUser \cup {Never}]
  BY <1>1, <1>2
<1>4. previous' \in Seq(MaybeUser \cup {Never}) /\ Len(previous') = Len(previous)
      /\ DOMAIN previous' = DOMAIN previous
  BY <1>2, <1>3
<1>5. session' \in MaybeUser /\ overtaken' \in BOOLEAN
  BY <1>1, <1>2, Zenon
<1>6. \A l \in DOMAIN previous : previous'[l] = IF l \in ls THEN current ELSE previous[l]
  BY <1>1
<1>7. CASE heard
  <2>1. PICK l \in ls : previous[l] # current
    BY <1>7
  <2>2. session' = current /\ l \in DOMAIN previous /\ previous'[l] = current
    BY <1>1, <1>7, <1>6, <2>1
  <2> QED
    BY <1>4, <1>5, <1>6, <2>2 DEF ShownWasHeard, SwallowedIsOvertaken
<1>8. CASE ~heard
  <2>1. \A l \in DOMAIN previous : previous'[l] = previous[l]
    BY <1>6, <1>8
  <2>2. session' = session /\ (overtaken => overtaken')
    BY <1>1, <1>8
  <2> QED
    BY <1>4, <1>5, <1>6, <2>1, <2>2 DEF ShownWasHeard, SwallowedIsOvertaken
<1> QED
  BY <1>7, <1>8

\* One block of the main queue runs: a notification reaches every listener, a first
\* call its own; a completed deletion makes the app show nobody.
LEMMA BlockStep ==
    ASSUME IInv, Block
    PROVE  IInv'
<1>1. /\ TypeOK /\ main # <<>> /\ main' = Tail(main)
      /\ UNCHANGED <<accounts, keychain, current, loaded, requests, home, issued, restarts>>
  BY DEF IInv, Block
<1>2. /\ previous \in Seq(MaybeUser \cup {Never})
      /\ Len(previous) \in Nat /\ Len(previous) > 0 /\ DOMAIN previous = 1 .. Len(previous)
      /\ main \in Seq(Blocks(Len(previous))) /\ current \in MaybeUser
  BY <1>1, Parts DEF TypeOK
<1>3. /\ Head(main) \in Blocks(Len(previous)) /\ main' \in Seq(Blocks(Len(previous)))
      /\ \A b : Queued(b, main) /\ b # Head(main) => Queued(b, main')
  BY <1>1, <1>2, QueuedTail
<1>4. CASE Head(main).kind = "deleted" /\ session' = Nobody
           /\ overtaken' = (overtaken \/ current # Nobody) /\ UNCHANGED previous
  <2>1. \A l \in DOMAIN previous : Head(main) # Notify /\ Head(main) # FirstCall(l)
    BY <1>4 DEF Notify, FirstCall
  <2>2. WillHear'
    BY <1>1, <1>3, <1>4, <2>1 DEF IInv, WillHear
  <2>3. TypeOK'
    <3>1. main' \in Seq({Notify, Deleted} \cup {FirstCall(l) : l \in DOMAIN previous'})
      BY <1>2, <1>3, <1>4, Zenon DEF Blocks
    <3>2. overtaken' \in BOOLEAN
      BY <1>1, <1>4, Zenon DEF TypeOK
    <3>3. session' \in MaybeUser
      BY <1>4 DEF MaybeUser
    <3> QED
      BY <1>1, <1>4, <3>1, <3>2, <3>3 DEF TypeOK
  <2>4. ShownWasHeard' /\ SwallowedIsOvertaken' /\ NotLoaded'
    BY <1>1, <1>4 DEF IInv, ShownWasHeard, SwallowedIsOvertaken, NotLoaded
  <2> QED
    BY <2>2, <2>3, <2>4 DEF IInv
<1>5. ASSUME NEW ls \in SUBSET (DOMAIN previous), Hear(ls),
             \A l \in DOMAIN previous \ ls : Head(main) # Notify /\ Head(main) # FirstCall(l)
      PROVE  IInv'
  <2>1. /\ previous' \in Seq(MaybeUser \cup {Never}) /\ DOMAIN previous' = DOMAIN previous
        /\ Len(previous') = Len(previous)
        /\ \A l \in DOMAIN previous : previous'[l] = IF l \in ls THEN current ELSE previous[l]
        /\ session' \in MaybeUser /\ overtaken' \in BOOLEAN
        /\ ShownWasHeard' /\ SwallowedIsOvertaken'
    BY <1>1, <1>5, HearStep DEF IInv
  <2>2. WillHear'
    <3> SUFFICES ASSUME NEW l \in DOMAIN previous, previous'[l] # current
                 PROVE  Queued(Notify, main') \/ Queued(FirstCall(l), main')
      BY <1>1, <2>1 DEF WillHear
    <3>1. l \in DOMAIN previous \ ls /\ previous[l] # current
      BY <2>1
    <3>2. Queued(Notify, main) \/ Queued(FirstCall(l), main)
      BY <3>1 DEF IInv, WillHear
    <3> QED
      BY <1>3, <1>5, <3>1, <3>2
  <2>3. TypeOK'
    <3>1. main' \in Seq({Notify, Deleted} \cup {FirstCall(l) : l \in DOMAIN previous'})
      BY <1>2, <1>3, <2>1, Zenon DEF Blocks
    <3> QED
      BY <1>1, <2>1, <3>1 DEF TypeOK
  <2>4. NotLoaded'
    <3> SUFFICES ASSUME ~loaded
                 PROVE  \A l \in DOMAIN previous : previous'[l] \notin Accounts
      BY <1>1, <2>1 DEF IInv, NotLoaded
    <3> QED
      BY <2>1, AuthAssumption DEF IInv, NotLoaded
  <2> QED
    BY <2>1, <2>2, <2>3, <2>4 DEF IInv
<1>6. CASE Head(main).kind = "notify" /\ Hear(DOMAIN previous)
  BY <1>5, <1>6
<1>7. CASE Head(main).kind = "first" /\ Hear({Head(main).listener})
  <2>1. PICK k \in DOMAIN previous : Head(main) = FirstCall(k)
    BY <1>2, <1>3, <1>7 DEF Blocks, Notify, Deleted
  <2>2. /\ Head(main).listener = k /\ Head(main) # Notify
        /\ \A l \in DOMAIN previous \ {k} : Head(main) # FirstCall(l)
    BY <1>2, <2>1 DEF FirstCall, Notify
  <2> QED
    BY <1>5, <1>7, <2>1, <2>2
<1> QED
  BY <1>4, <1>6, <1>7 DEF Block

\* A new listener has seen nobody, and its first call is queued.
LEMMA RenderStep ==
    ASSUME IInv, Render
    PROVE  IInv'
<1>1. /\ TypeOK /\ home' = ~home
      /\ UNCHANGED <<accounts, keychain, current, loaded, requests, session, overtaken,
                     issued, restarts>>
  BY DEF IInv, Render
<1>2. /\ previous \in Seq(MaybeUser \cup {Never})
      /\ Len(previous) \in Nat /\ Len(previous) > 0 /\ DOMAIN previous = 1 .. Len(previous)
      /\ main \in Seq(Blocks(Len(previous)))
  BY <1>1, Parts
<1>3. home' \in BOOLEAN
  BY <1>1, Zenon DEF TypeOK
<1>4. CASE UNCHANGED <<previous, main>>
  BY <1>1, <1>3, <1>4
     DEF IInv, TypeOK, WillHear, ShownWasHeard, SwallowedIsOvertaken, NotLoaded
<1>5. CASE /\ Len(previous) < MaxListeners
           /\ previous' = Append(previous, Never)
           /\ main' = Append(main, FirstCall(Len(previous) + 1))
  <2> DEFINE n == Len(previous) + 1
  <2>1. /\ previous' \in Seq(MaybeUser \cup {Never}) /\ Len(previous') = n
        /\ \A l \in 1 .. Len(previous) : previous'[l] = previous[l]
        /\ previous'[n] = Never
    BY <1>2, <1>5, AppendProperties
  <2>2. DOMAIN previous' = 1 .. n /\ n \in Nat /\ n <= MaxListeners
    BY <1>2, <1>5, <2>1, AuthAssumption
  <2>3. 1 .. n = (1 .. Len(previous)) \cup {n}
    BY <1>2
  <2>4. main \in Seq(Blocks(n)) /\ FirstCall(n) \in Blocks(n)
    <3>1. Blocks(Len(previous)) \subseteq Blocks(n) /\ FirstCall(n) \in Blocks(n)
      BY <2>3, Zenon DEF Blocks
    <3> QED
      BY <1>2, <3>1
  <2>5. /\ main' \in Seq(Blocks(n))
        /\ \A b : Queued(b, main) => Queued(b, main')
        /\ Queued(FirstCall(n), main')
    <3>1. main' = main \o <<FirstCall(n)>> /\ <<FirstCall(n)>> \in Seq(Blocks(n))
      BY <1>5, <2>4, AppendIsConcat
    <3> QED
      BY <2>4, <3>1, QueuedConcat, QueuedOne
  <2> HIDE DEF n
  <2>6. WillHear'
    BY <1>1, <1>2, <2>1, <2>2, <2>3, <2>5 DEF IInv, WillHear
  <2>7. TypeOK'
    <3>1. main' \in Seq({Notify, Deleted} \cup {FirstCall(l) : l \in DOMAIN previous'})
      BY <2>2, <2>5, Zenon DEF Blocks
    <3>2. Len(previous') \in 1 .. MaxListeners
      BY <1>2, <2>1, <2>2, AuthAssumption DEF n
    <3> QED
      BY <1>1, <1>3, <2>1, <3>1, <3>2 DEF TypeOK
  <2>8. ShownWasHeard'
    BY <1>1, <1>2, <2>1, <2>2, <2>3 DEF IInv, ShownWasHeard
  <2>9. SwallowedIsOvertaken'
    <3>1. n \in DOMAIN previous' /\ previous'[n] = Never
      BY <2>1, <2>2, <2>3
    <3>2. current' # Never
      BY <1>1, AuthAssumption DEF TypeOK, MaybeUser
    <3> QED
      BY <3>1, <3>2 DEF SwallowedIsOvertaken
  <2>10. NotLoaded'
    BY <1>1, <1>2, <2>1, <2>2, <2>3, AuthAssumption DEF IInv, NotLoaded
  <2> QED
    BY <2>6, <2>7, <2>8, <2>9, <2>10 DEF IInv
<1> QED
  BY <1>4, <1>5 DEF Render

------------------------------------------------------------------------------
(* The user *)

\* A request is one more that has no answer.
LEMMA RequestStep ==
    ASSUME IInv, NEW op \in {"signIn", "signUp", "delete"}, NEW u \in Accounts,
           NEW held \in BOOLEAN, Request(op, u, held),
           UNCHANGED <<accounts, keychain, current, loaded, previous, main, session, home,
                       overtaken, restarts>>
    PROVE  IInv'
<1> DEFINE r == [op |-> op, user |-> u, held |-> held, reply |-> "none"]
<1>1. /\ requests' = Append(requests, r) /\ issued < MaxRequests /\ issued' = issued + 1
      /\ TypeOK /\ requests \in Seq(Requests)
  BY Parts DEF IInv, Request
<1>2. r \in Requests /\ r.reply = "none"
  BY DEF Requests
<1> HIDE DEF r
<1>3. /\ requests' \in Seq(Requests) /\ Len(requests') = Len(requests) + 1
      /\ \A i \in 1 .. Len(requests) : requests'[i] = requests[i]
      /\ requests'[Len(requests) + 1] = r
  BY <1>1, <1>2, AppendProperties
<1>4. issued' \in 0 .. MaxRequests
  BY <1>1, AuthAssumption DEF TypeOK
<1>5. TypeOK'
  BY <1>1, <1>3, <1>4 DEF TypeOK
<1>6. WillHear' /\ ShownWasHeard' /\ SwallowedIsOvertaken'
  BY DEF IInv, WillHear, ShownWasHeard, SwallowedIsOvertaken
<1>7. NotLoaded'
  <2>1. DOMAIN requests' = DOMAIN requests \cup {Len(requests) + 1}
    BY <1>1, <1>3
  <2>2. DOMAIN requests = 1 .. Len(requests)
    BY <1>1
  <2> QED
    BY <1>2, <1>3, <2>1, <2>2 DEF IInv, NotLoaded
<1> QED
  BY <1>5, <1>6, <1>7 DEF IInv

LEMMA SignOutStep ==
    ASSUME IInv, SignOut
    PROVE  IInv'
<1>1. /\ TypeOK /\ WillHear /\ loaded /\ session' = Nobody
      /\ UNCHANGED <<accounts, loaded, previous, home, overtaken, issued, restarts>>
  BY DEF IInv, SignOut
<1>2. /\ DOMAIN previous = 1 .. Len(previous) /\ requests \in Seq(Requests)
      /\ <<>> \in Seq(Blocks(Len(previous)))
  BY <1>1, Parts
<1>3. Nobody \in MaybeUser
  BY DEF MaybeUser
<1>4. CASE updateCurrentUser(Nobody, FALSE, TRUE, requests, <<>>)
  <2>1. /\ keychain' \in MaybeUser /\ current' = Nobody
        /\ main' \in Seq(Blocks(Len(previous)))
        /\ requests' \in Seq(Requests) /\ WillHear'
    BY <1>1, <1>2, <1>3, <1>4, UpdateStep
  <2>2. TypeOK'
    <3>1. main' \in Seq({Notify, Deleted} \cup {FirstCall(l) : l \in DOMAIN previous'})
      BY <1>1, <1>2, <2>1, Zenon DEF Blocks
    <3> QED
      BY <1>1, <1>3, <2>1, <3>1 DEF TypeOK
  <2>3. ShownWasHeard' /\ SwallowedIsOvertaken' /\ NotLoaded'
    BY <1>1, <2>1 DEF ShownWasHeard, SwallowedIsOvertaken, NotLoaded
  <2> QED
    BY <2>1, <2>2, <2>3 DEF IInv
<1>5. CASE current = Nobody /\ UNCHANGED <<keychain, current, requests, main>>
  <2>1. TypeOK'
    BY <1>1, <1>3, <1>5 DEF TypeOK
  <2>2. WillHear'
    BY <1>1, <1>5 DEF WillHear
  <2>3. ShownWasHeard' /\ SwallowedIsOvertaken' /\ NotLoaded'
    BY <1>1, <1>5 DEF ShownWasHeard, SwallowedIsOvertaken, NotLoaded
  <2> QED
    BY <2>1, <2>2, <2>3 DEF IInv
<1> QED
  BY <1>4, <1>5 DEF SignOut

\* A new process has one listener, whose first call is queued.
LEMMA RestartStep ==
    ASSUME IInv, Restart
    PROVE  IInv'
<1>1. /\ TypeOK /\ restarts < MaxRestarts /\ restarts' = restarts + 1
      /\ current' = Nobody /\ loaded' = FALSE
      /\ previous' = <<Never>> /\ main' = <<FirstCall(1)>>
      /\ requests' = <<>> /\ session' = Nobody /\ home' = FALSE /\ overtaken' = FALSE
      /\ UNCHANGED <<accounts, keychain, issued>>
  BY DEF IInv, Restart
<1>2. DOMAIN previous' = {1} /\ Len(previous') = 1 /\ previous'[1] = Never
  BY <1>1
<1>3. TypeOK'
  <2>1. previous' \in Seq(MaybeUser \cup {Never}) /\ Len(previous') \in 1 .. MaxListeners
    BY <1>1, <1>2, AuthAssumption
  <2>2. main' \in Seq({Notify, Deleted} \cup {FirstCall(l) : l \in DOMAIN previous'})
    BY <1>1, <1>2
  <2>3. restarts' \in 0 .. MaxRestarts
    BY <1>1, AuthAssumption DEF TypeOK
  <2>4. requests' \in Seq(Requests) /\ Nobody \in MaybeUser
    BY <1>1 DEF MaybeUser
  <2> QED
    BY <1>1, <2>1, <2>2, <2>3, <2>4 DEF TypeOK
<1>4. WillHear'
  BY <1>1, <1>2, QueuedOne DEF WillHear
<1>5. ShownWasHeard' /\ SwallowedIsOvertaken'
  BY <1>1 DEF ShownWasHeard, SwallowedIsOvertaken
<1>6. NotLoaded'
  BY <1>1, <1>2, AuthAssumption DEF NotLoaded
<1> QED
  BY <1>3, <1>4, <1>5, <1>6 DEF IInv

LEMMA Invariance == Spec => []IInv
<1>1. IInv /\ [Next]_vars => IInv'
  <2> SUFFICES ASSUME IInv, [Next]_vars
               PROVE  IInv'
    OBVIOUS
  <2>1. CASE Load \/ Block \/ Render
    BY <2>1, LoadStep, BlockStep, RenderStep
  <2>2. ASSUME NEW i \in DOMAIN requests, Execute(i) \/ AnswerSignIn(i) \/ AnswerDelete(i)
        PROVE  IInv'
    BY <2>2, ExecuteStep, AnswerSignInStep, AnswerDeleteStep
  <2>3. ASSUME NEW u \in Accounts, NEW op \in {"signIn", "signUp"}, SignIn(op, u)
        PROVE  IInv'
    BY <2>3, RequestStep DEF SignIn
  <2>4. CASE Delete
    <3>1. current \in Accounts
      BY <2>4 DEF Delete, IInv, TypeOK, MaybeUser
    <3> QED
      BY <2>4, <3>1, RequestStep DEF Delete
  <2>5. CASE SignOut \/ Restart
    BY <2>5, SignOutStep, RestartStep
  <2>6. CASE UNCHANGED vars
    BY <2>6 DEF vars, IInv, TypeOK, WillHear, ShownWasHeard, SwallowedIsOvertaken, NotLoaded
  <2> QED
    BY <2>1, <2>2, <2>3, <2>4, <2>5, <2>6 DEF Next
<1> QED
  BY IInvInit, <1>1, PTL DEF Spec

------------------------------------------------------------------------------

\* The state of the sign-in keeps its type: the blocks in the main queue are
\* notifications, completed deletions and first calls of existing listeners.
THEOREM AuthTypeCorrect == Spec => []TypeOK
<1>1. IInv => TypeOK
  BY DEF IInv
<1> QED
  BY <1>1, Invariance, PTL

\* However sign-ins, sign-outs, deletions, answers and listeners interleave: when
\* the main queue is empty the app shows the user who is signed in, or nobody
\* (SessionStore.swift:255-268 and 308-316, FIRAuth.m:1374-1387).
THEOREM ShowsWhoIsSignedIn == Spec => []ShowsCurrentUser
<1>1. IInv => ShowsCurrentUser
  <2> SUFFICES ASSUME IInv, main = <<>>
               PROVE  session = current \/ (session = Nobody /\ overtaken)
    BY DEF ShowsCurrentUser
  <2>1. \A b : ~Queued(b, main)
    BY DEF Queued
  <2>2. \A l \in DOMAIN previous : previous[l] = current
    BY <2>1 DEF IInv, WillHear
  <2> QED
    BY <2>2 DEF IInv, ShownWasHeard, SwallowedIsOvertaken
<1> QED
  BY <1>1, Invariance, PTL
==============================================================================
