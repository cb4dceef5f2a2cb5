--------------------------- MODULE PublishingProofs ---------------------------
(***************************************************************************)
(* Proofs about Publishing for every set of accounts, forms and presses,   *)
(* any number of states of a record and of failures.                       *)
(***************************************************************************)
EXTENDS Publishing, TLAPS

\* Before anything is published there is a list and nothing else.
LEMMA InitIInv == Init => IInv
  <1> SUFFICES ASSUME Init PROVE IInv
    OBVIOUS
  <1> USE NullAssumption, BoundsAssumption DEF Init
  <1>1. List(session) \in ScreenRecords
    BY DEF ScreenRecords
  <1>2. TypeOK
    BY <1>1 DEF TypeOK, Phases, UnderWay
  <1>3. FormsOK
    BY DEF FormsOK, List
  <1>4. ChainOK /\ HeardOK
    BY DEF ChainOK, HeardOK, UnderWay
  <1>5. PostsCoherent /\ PostsAttributed /\ OnePostPerState
    BY DEF PostsCoherent, PostsAttributed, OnePostPerState
  <1>6. QED
    BY <1>2, <1>3, <1>4, <1>5 DEF IInv

\* What may become of the stack: it stays one, every form on it was opened.
LEMMA StackGrows ==
  ASSUME NEW scr \in ScreenRecords, screens \in Seq(ScreenRecords), screens # <<>>
  PROVE  /\ Over(scr) \in Seq(ScreenRecords) /\ Over(scr) # <<>>
         /\ Instead(scr) \in Seq(ScreenRecords) /\ Instead(scr) # <<>>
         /\ \A i \in DOMAIN Over(scr) : Over(scr)[i] = scr \/ (i \in DOMAIN screens /\ Over(scr)[i] = screens[i])
         /\ \A i \in DOMAIN Instead(scr) : Instead(scr)[i] = scr \/ (i \in DOMAIN screens /\ Instead(scr)[i] = screens[i])
  BY DEF Over, Instead

\* A sign-in leaves lists where the login screen was, and the forms below it.
LEMMA SignInStacks ==
  ASSUME NEW a \in Accounts, SignIn(a), TypeOK
  PROVE  /\ screens' \in Seq(ScreenRecords) /\ screens' # <<>>
         /\ \A i \in DOMAIN screens' :
               screens'[i].screen = "form" => i \in DOMAIN screens /\ screens'[i] = screens[i]
  <1> DEFINE st == Instead(List(a))
  <1>1. List(a) \in ScreenRecords /\ List(a).screen # "form"
    BY DEF ScreenRecords, List
  <1>2. screens \in Seq(ScreenRecords) /\ screens # <<>>
    BY DEF TypeOK
  <1>3. /\ st \in Seq(ScreenRecords) /\ st # <<>>
        /\ \A i \in DOMAIN st : st[i] = List(a) \/ (i \in DOMAIN screens /\ st[i] = screens[i])
    BY <1>1, <1>2, StackGrows
  <1>4. screens' = st \/ screens' = Append(st, List(a))
    BY DEF SignIn
  <1> HIDE DEF st
  <1>5. CASE screens' = st
    BY <1>1, <1>3, <1>5
  <1>6. CASE screens' = Append(st, List(a))
    <2>1. /\ screens' \in Seq(ScreenRecords) /\ screens' # <<>>
          /\ \A i \in DOMAIN screens' :
                screens'[i] = List(a) \/ (i \in DOMAIN st /\ screens'[i] = st[i])
      BY <1>1, <1>3, <1>6
    <2>2. QED
      BY <1>1, <1>3, <2>1
  <1>7. QED
    BY <1>4, <1>5, <1>6

\* When the app ends, nothing of it is at work.
LEMMA AppRestarts ==
  ASSUME AppEnds, TypeOK
  PROVE  /\ phase' \in [Subs -> Phases]
         /\ \A s \in Subs :
               phase'[s] # "lost" =>
                   phase'[s] = phase[s] /\ phase[s] \notin UnderWay \cup Listened
         /\ screens' \in Seq(ScreenRecords) /\ screens' # <<>>
         /\ \A i \in DOMAIN screens' : screens'[i].screen # "form"
  <1>1. Login \in ScreenRecords /\ Login.screen = "login"
    BY DEF ScreenRecords, Login
  <1>2. screens' = <<Login>>
    BY DEF AppEnds
  <1>3. QED
    BY <1>1, <1>2 DEF AppEnds, TypeOK, Phases, UnderWay, Listened

\* Every post is of a press and has a version.
LEMMA PostsTyped ==
  ASSUME TypeOK
  PROVE  \A k \in DOMAIN posts : posts[k].sub \in Subs /\ posts[k].version \in Nat
  <1> SUFFICES ASSUME NEW k \in DOMAIN posts
               PROVE  posts[k].sub \in Subs /\ posts[k].version \in Nat
    OBVIOUS
  <1>1. posts[k] \in PostRecords
    BY DEF TypeOK
  <1>2. QED
    BY <1>1, BoundsAssumption DEF PostRecords

\* A post that moves on keeps whose it is and what it says.
LEMMA PostsMove ==
  ASSUME IInv, NEW k \in DOMAIN posts,
         NEW t \in {"stored", "announced", "refused", "unread"},
         Move(k, t), UNCHANGED <<crossed, heard, nameless>>
  PROVE  /\ posts' \in Seq(PostRecords)
         /\ \A l \in DOMAIN posts' : posts'[l].version <= heard'[posts'[l].sub]
         /\ PostsCoherent' /\ PostsAttributed' /\ OnePostPerState'
  <1>1. posts \in Seq(PostRecords) /\ posts[k] \in PostRecords
    BY DEF IInv, TypeOK
  <1> DEFINE q == [posts[k] EXCEPT !.state = t]
  <1>a. /\ q \in PostRecords
        /\ q.sub = posts[k].sub /\ q.uid = posts[k].uid
        /\ q.author = posts[k].author /\ q.email = posts[k].email
        /\ q.picture = posts[k].picture
        /\ q.version = posts[k].version
    BY <1>1 DEF PostRecords
  <1>b. posts' = [posts EXCEPT ![k] = q]
    BY DEF Move
  <1>2. /\ DOMAIN posts' = DOMAIN posts
        /\ posts' \in Seq(PostRecords)
        /\ \A l \in DOMAIN posts :
              /\ posts'[l].sub = posts[l].sub
              /\ posts'[l].uid = posts[l].uid
              /\ posts'[l].author = posts[l].author
              /\ posts'[l].email = posts[l].email
              /\ posts'[l].picture = posts[l].picture
              /\ posts'[l].version = posts[l].version
    <2> HIDE DEF q
    <2>1. posts' \in Seq(PostRecords) /\ DOMAIN posts' = DOMAIN posts
      BY <1>1, <1>a, <1>b
    <2>2. \A l \in DOMAIN posts : posts'[l] = IF l = k THEN q ELSE posts[l]
      BY <1>1, <1>b
    <2>3. QED
      BY <1>a, <2>1, <2>2
  <1>3. QED
    BY <1>2 DEF IInv, HeardOK, PostsCoherent, PostsAttributed, OnePostPerState

\* Every step keeps the inductive invariant.
LEMMA StepIInv == IInv /\ [Next]_vars => IInv'
  <1> SUFFICES ASSUME IInv, [Next]_vars PROVE IInv'
    OBVIOUS
  <1> USE NullAssumption, NamesAssumption, BoundsAssumption
      DEF IInv
  <1> DEFINE Rest == PostsCoherent /\ PostsAttributed /\ OnePostPerState
  <1>1. ASSUME NEW f \in FormIds, OpenForm(f) PROVE IInv'
    <2>1. Form(f) \in ScreenRecords /\ Form(f).of = f
      BY DEF ScreenRecords, Form
    <2>2. screens' = Instead(Form(f)) /\ screens \in Seq(ScreenRecords) /\ screens # <<>>
      BY <1>1 DEF OpenForm, TypeOK
    <2>3. /\ screens' \in Seq(ScreenRecords) /\ screens' # <<>>
          /\ \A i \in DOMAIN screens' :
                screens'[i] = Form(f) \/ (i \in DOMAIN screens /\ screens'[i] = screens[i])
      BY <2>1, <2>2, StackGrows
    <2>4. failures' \in 0..MaxFailures /\ holder' \in [FormIds -> Accounts \cup {Null}]
      <3>1. failures \in 0..MaxFailures /\ MaxFailures \in Nat
        BY DEF TypeOK
      <3>2. failures' = failures \/ (failures < MaxFailures /\ failures' = failures + 1)
        BY <1>1 DEF OpenForm, Fail
      <3>3. failures' \in 0..MaxFailures
        BY <3>1, <3>2
      <3>4. holder' \in [FormIds -> Accounts \cup {Null}]
        <4>1. holder \in [FormIds -> Accounts \cup {Null}] /\ session \in Accounts \cup {Null}
          BY DEF TypeOK
        <4>2. \E a \in {session, Null} : holder' = [holder EXCEPT ![f] = a]
          BY <1>1 DEF OpenForm
        <4>3. QED
          BY <4>1, <4>2
      <3>5. QED
        BY <3>3, <3>4
    <2>5. TypeOK'
      <3>1. /\ opened' \subseteq FormIds
            /\ UNCHANGED <<session, record, named, phase, user, author, nameless, watched, heard, posts, crossed>>
        BY <1>1 DEF OpenForm, TypeOK, chain, saved
      <3>2. QED
        BY <2>3, <2>4, <3>1 DEF TypeOK
    <2>6. FormsOK'
      <3>1. \A i \in DOMAIN screens' : screens'[i].screen = "form" => screens'[i].of \in opened'
        BY <1>1, <2>1, <2>3 DEF OpenForm, FormsOK
      <3>2. \A g \in opened' : g \notin crossed' /\ holder'[g] # Null => session' = holder'[g]
        BY <1>1 DEF OpenForm, FormsOK, TypeOK
      <3>3. QED
        BY <3>1, <3>2 DEF FormsOK
    <2>7. ChainOK' /\ HeardOK' /\ Rest'
      BY <1>1 DEF OpenForm, chain, saved, ChainOK, HeardOK, PostsCoherent, PostsAttributed, OnePostPerState
    <2>8. QED
      BY <2>5, <2>6, <2>7
  <1>2. ASSUME Back PROVE IInv'
    <2>1. screens' \in Seq(ScreenRecords) /\ screens' # <<>>
      <3>1. CASE Len(screens) = 1
        BY <1>2, <3>1 DEF Back, ScreenRecords
      <3>2. CASE Len(screens) # 1
        <4> DEFINE n == Len(screens)
        <4>1. screens \in Seq(ScreenRecords) /\ screens # <<>>
          BY DEF TypeOK
        <4>2. n \in Nat /\ n # 0 /\ n # 1
          BY <3>2, <4>1
        <4>3. n - 1 \in 1..n /\ n - 1 <= n
          <5> HIDE DEF n
          <5>1. QED
            BY <4>2
        <4>4. screens' = SubSeq(screens, 1, n - 1)
          BY <1>2, <3>2 DEF Back
        <4>5. Len(screens') = n - 1 /\ screens' \in Seq(ScreenRecords)
          BY <4>1, <4>3, <4>4
        <4>6. QED
          BY <4>3, <4>5
      <3>3. QED
        BY <3>1, <3>2
    <2>2. \A i \in DOMAIN screens' :
             screens'[i] = Login \/ (i \in DOMAIN screens /\ screens'[i] = screens[i])
      BY <1>2 DEF Back, TypeOK
    <2>3. TypeOK'
      BY <1>2, <2>1 DEF Back, TypeOK, chain, saved
    <2>4. FormsOK'
      BY <1>2, <2>2 DEF Back, FormsOK, Login
    <2>5. ChainOK' /\ HeardOK' /\ Rest'
      BY <1>2 DEF Back, chain, saved, ChainOK, HeardOK, PostsCoherent, PostsAttributed, OnePostPerState
    <2>6. QED
      BY <2>3, <2>4, <2>5
  <1>3. ASSUME SignOut PROVE IInv'
    <2>1. Login \in ScreenRecords /\ Login.screen # "form"
      BY DEF ScreenRecords, Login
    <2>2. TypeOK'
      BY <1>3, <2>1, StackGrows DEF SignOut, SessionChanges, TypeOK, chain, saved
    <2>3. FormsOK'
      <3>1. screens' = Instead(Login) /\ screens \in Seq(ScreenRecords) /\ screens # <<>>
        BY <1>3 DEF SignOut, TypeOK
      <3>2. \A i \in DOMAIN screens' : screens'[i].screen = "form" => screens'[i].of \in opened'
        BY <1>3, <2>1, <3>1, StackGrows DEF SignOut, FormsOK
      <3>3. \A g \in opened' : g \notin crossed' /\ holder'[g] # Null => session' = holder'[g]
        BY <1>3 DEF SignOut, SessionChanges, FormsOK
      <3>4. QED
        BY <3>2, <3>3 DEF FormsOK
    <2>4. ChainOK' /\ HeardOK' /\ Rest'
      BY <1>3 DEF SignOut, SessionChanges, chain, saved, TypeOK, ChainOK, HeardOK, PostsCoherent, PostsAttributed, OnePostPerState
    <2>5. QED
      BY <2>2, <2>3, <2>4
  <1>4. ASSUME NEW a \in Accounts, SignIn(a) PROVE IInv'
    <2>1. TypeOK'
      <3>1. screens' \in Seq(ScreenRecords) /\ screens' # <<>>
        BY <1>4, SignInStacks
      <3>2. QED
        BY <1>4, <3>1 DEF SignIn, SessionChanges, TypeOK, chain, saved
    <2>2. FormsOK'
      <3>1. \A i \in DOMAIN screens' : screens'[i].screen = "form" => screens'[i].of \in opened'
        BY <1>4, SignInStacks DEF SignIn, FormsOK
      <3>2. \A g \in opened' : g \notin crossed' /\ holder'[g] # Null => session' = holder'[g]
        BY <1>4 DEF SignIn, SessionChanges, FormsOK
      <3>3. QED
        BY <3>1, <3>2 DEF FormsOK
    <2>3. ChainOK' /\ HeardOK' /\ Rest'
      BY <1>4 DEF SignIn, SessionChanges, chain, saved, TypeOK, ChainOK, HeardOK, PostsCoherent, PostsAttributed, OnePostPerState
    <2>4. QED
      BY <2>1, <2>2, <2>3
  <1>5. ASSUME NEW a \in Accounts, RecordSaved(a) PROVE IInv'
    BY <1>5 DEF RecordSaved, device, chain, saved, TypeOK, FormsOK, ChainOK, HeardOK, PostsCoherent,
                PostsAttributed, OnePostPerState
  <1>6. ASSUME NEW s \in Subs, NEW complete \in BOOLEAN, Submit(s, complete) PROVE IInv'
    <2> DEFINE f == Top.of
    <2>1. f \in opened /\ f \in FormIds
      BY <1>6 DEF Submit, Top, TypeOK, FormsOK
    <2>2. TypeOK'
      BY <1>6, <2>1 DEF Submit, Goto, device, saved, TypeOK, Phases, UnderWay
    <2>3. FormsOK'
      BY <1>6 DEF Submit, device, saved, FormsOK, TypeOK
    <2>4. ChainOK'
      BY <1>6, <2>1 DEF Submit, Goto, device, saved, TypeOK, FormsOK, ChainOK, UnderWay
    <2>5. HeardOK' /\ Rest'
      BY <1>6, <2>1 DEF Submit, Goto, device, saved, TypeOK, HeardOK, UnderWay, PostsCoherent, PostsAttributed, OnePostPerState
    <2>6. QED
      BY <2>2, <2>3, <2>4, <2>5
  <1>7. ASSUME NEW s \in Subs, ImageUploaded(s) PROVE IInv'
    BY <1>7 DEF ImageUploaded, Goto, device, chain, saved, TypeOK, Phases, UnderWay, FormsOK, ChainOK, HeardOK,
                PostsCoherent, PostsAttributed, OnePostPerState
  <1>8. ASSUME NEW s \in Subs, UrlArrived(s) PROVE IInv'
    <2>1. CASE session = Null
      <3>1. TypeOK' /\ FormsOK'
        BY <1>8, <2>1, AppRestarts DEF UrlArrived, TypeOK, FormsOK, saved
      <3>2. ChainOK' /\ HeardOK' /\ Rest'
        BY <1>8, <2>1, AppRestarts DEF UrlArrived, saved, TypeOK, ChainOK, HeardOK, UnderWay, Listened, PostsCoherent, PostsAttributed, OnePostPerState
      <3>3. QED
        BY <3>1, <3>2
    <2>2. CASE session # Null
      <3>0. /\ phase[s] = "linking" /\ heard[s] = 0 /\ session \in Accounts
            /\ phase' = [phase EXCEPT ![s] = "listening"]
            /\ watched' = [watched EXCEPT ![s] = session]
            /\ UNCHANGED <<session, saved, screens, opened, holder, user, author,
                           nameless, heard, posts, crossed, failures>>
        BY <1>8, <2>2 DEF UrlArrived, Goto, TypeOK, HeardOK, UnderWay
      <3>1. TypeOK' /\ FormsOK'
        BY <3>0 DEF TypeOK, Phases, Listened, FormsOK, saved
      <3>2. ChainOK'
        BY <1>8, <2>2 DEF UrlArrived, Goto, TypeOK, UnderWay, ChainOK, saved
      <3>3. HeardOK' /\ Rest'
        BY <3>0 DEF TypeOK, UnderWay, HeardOK, saved, PostsCoherent, PostsAttributed, OnePostPerState
      <3>4. QED
        BY <3>1, <3>2, <3>3
    <2>3. QED
      BY <2>1, <2>2
  <1>9. ASSUME NEW s \in Subs, RecordHeard(s) PROVE IInv'
    <2> DEFINE v == record[watched[s]]
    <2>1. watched[s] \in Accounts /\ v \in 1..MaxVersion /\ heard[s] < v
      BY <1>9 DEF RecordHeard, TypeOK, ChainOK, HeardOK
    <2>2. CASE author[s] = Null
      <3>1. TypeOK' /\ FormsOK'
        BY <1>9, <2>1, <2>2, AppRestarts DEF RecordHeard, saved, TypeOK, FormsOK
      <3>2. ChainOK'
        BY <1>9, <2>1, <2>2, AppRestarts DEF RecordHeard, saved, TypeOK, ChainOK, UnderWay, Listened
      <3>3. HeardOK' /\ Rest'
        <4>1. /\ AppEnds /\ heard' = [heard EXCEPT ![s] = v]
              /\ UNCHANGED <<posts, record, watched, crossed, nameless>>
          BY <1>9, <2>2 DEF RecordHeard, saved
        <4>2. \A r \in Subs : heard'[r] >= heard[r] /\ heard[r] \in Nat
          BY <2>1, <4>1 DEF TypeOK
        <4>3. \A k \in DOMAIN posts : posts[k].version <= heard'[posts[k].sub]
          BY <2>1, <4>1, <4>2, PostsTyped DEF HeardOK, TypeOK
        <4>4. HeardOK'
          BY <1>9, <4>1, <4>3, AppRestarts DEF HeardOK, RecordHeard, UnderWay, Listened, TypeOK
        <4>5. QED
          BY <4>1, <4>4 DEF PostsCoherent, PostsAttributed, OnePostPerState
      <3>4. QED
        BY <3>1, <3>2, <3>3
    <2>3. CASE author[s] # Null
      <3>0. PICK name \in NamesOf(s) : posts' = Append(posts, Post(s, name))
        BY <1>9, <2>3 DEF RecordHeard
      <3> DEFINE p == Post(s, name)
      <3>a. name \in {author[s], Null} /\ (name = Null => s \in nameless)
        BY <2>3 DEF NamesOf
      <3>1. /\ p \in PostRecords
            /\ p.sub = s /\ p.version = v
            /\ p.uid = user[s] /\ p.author = name /\ p.email = author[s]
            /\ p.picture = watched[s]
        BY <2>1, <3>a DEF Post, PostRecords, TypeOK
      <3>2. /\ posts' = Append(posts, p)
            /\ heard' = [heard EXCEPT ![s] = v]
            /\ phase[s] = "listening"
            /\ UNCHANGED <<device, record, named, phase, user, author, nameless, watched,
                           crossed, failures>>
        BY <1>9, <2>3, <3>0 DEF RecordHeard, device, saved
      <3> HIDE DEF p
      <3>3. /\ posts' \in Seq(PostRecords)
            /\ \A k \in DOMAIN posts' :
                  \/ k = Len(posts) + 1 /\ posts'[k] = p
                  \/ k \in DOMAIN posts /\ posts'[k] = posts[k] /\ k < Len(posts) + 1
        BY <3>1, <3>2 DEF TypeOK
      <3>4. TypeOK' /\ FormsOK' /\ ChainOK'
        BY <2>1, <3>2, <3>3 DEF TypeOK, FormsOK, ChainOK, device
      <3>5. HeardOK'
        <4>1. \A k \in DOMAIN posts : posts[k].sub \in Subs /\ posts[k].version \in Nat
          BY PostsTyped
        <4>2. \A k \in DOMAIN posts' : posts'[k].version <= heard'[posts'[k].sub]
          BY <2>1, <3>1, <3>2, <3>3, <4>1 DEF TypeOK, HeardOK
        <4>3. QED
          BY <2>1, <3>2, <4>2 DEF TypeOK, HeardOK, UnderWay, device
      <3>6. PostsCoherent' /\ PostsAttributed'
        BY <2>3, <3>a, <3>1, <3>2, <3>3 DEF PostsCoherent, PostsAttributed, ChainOK
      <3>7. OnePostPerState'
        <4>1. \A k \in DOMAIN posts : posts[k].sub = s => posts[k].version < v
          BY <2>1, PostsTyped DEF HeardOK, TypeOK
        <4>2. QED
          <5> SUFFICES ASSUME NEW k \in DOMAIN posts', NEW l \in DOMAIN posts',
                              k < l, posts'[k].sub = posts'[l].sub
                       PROVE  posts'[k].version < posts'[l].version
            BY DEF OnePostPerState
          <5>1. CASE l \in DOMAIN posts /\ posts'[l] = posts[l] /\ l < Len(posts) + 1
            BY <3>3, <5>1 DEF OnePostPerState
          <5>2. CASE l = Len(posts) + 1 /\ posts'[l] = p
            BY <3>1, <3>3, <4>1, <5>2
          <5>3. QED
            BY <3>3, <5>1, <5>2
      <3>8. QED
        BY <3>4, <3>5, <3>6, <3>7
    <2>4. QED
      BY <2>2, <2>3
  <1>10. ASSUME NEW s \in Subs, UploadFailed(s) \/ UrlFailed(s) \/ RecordCancelled(s) PROVE IInv'
    <2>1. /\ failures' \in 0..MaxFailures
          /\ phase' \in [Subs -> Phases]
          /\ \A r \in Subs : phase'[r] = phase[r] \/ phase'[r] \in {"failed", "unheard", "cancelled"}
          /\ UNCHANGED <<device, saved, chain, posts, crossed>>
      <3>1. PICK p \in {"failed", "unheard", "cancelled"} : phase' = [phase EXCEPT ![s] = p]
        BY <1>10 DEF UploadFailed, UrlFailed, RecordCancelled, Goto
      <3>2. Fail /\ UNCHANGED <<device, saved, chain, posts, crossed>>
        BY <1>10 DEF UploadFailed, UrlFailed, RecordCancelled
      <3>3. failures' \in 0..MaxFailures
        BY <3>2 DEF Fail, TypeOK
      <3>4. phase \in [Subs -> Phases] /\ p \in Phases
        BY DEF TypeOK, Phases, Listened
      <3>5. /\ phase' \in [Subs -> Phases]
            /\ \A r \in Subs : phase'[r] = phase[r] \/ phase'[r] \in {"failed", "unheard", "cancelled"}
        BY <3>1, <3>4
      <3>6. QED
        BY <3>2, <3>3, <3>5
    <2>2. TypeOK' /\ FormsOK'
      BY <2>1 DEF device, chain, saved, TypeOK, FormsOK
    <2>3. ChainOK' /\ HeardOK' /\ Rest'
      BY <2>1 DEF device, chain, saved, UnderWay, ChainOK, HeardOK, PostsCoherent, PostsAttributed, OnePostPerState
    <2>4. QED
      BY <2>2, <2>3
  <1>11. ASSUME NEW k \in DOMAIN posts, PostStored(k) PROVE IInv'
    BY <1>11, PostsMove DEF PostStored, device, chain, saved, TypeOK, FormsOK, ChainOK, HeardOK
  <1>12. ASSUME NEW k \in DOMAIN posts, PostAnnounced(k) PROVE IInv'
    <2>1. List(session) \in ScreenRecords /\ List(session).screen # "form"
      BY DEF ScreenRecords, List, TypeOK
    <2>2. Rest' /\ posts' \in Seq(PostRecords) /\ HeardOK'
      BY <1>12, PostsMove DEF PostAnnounced, chain, saved, HeardOK
    <2>3. TypeOK'
      BY <1>12, <2>1, <2>2, StackGrows DEF PostAnnounced, chain, saved, TypeOK
    <2>4. FormsOK'
      <3>1. screens' = Over(List(session)) /\ screens \in Seq(ScreenRecords) /\ screens # <<>>
        BY <1>12 DEF PostAnnounced, TypeOK
      <3>2. \A i \in DOMAIN screens' : screens'[i].screen = "form" => screens'[i].of \in opened'
        <4>1. \A i \in DOMAIN screens' :
                 \/ screens'[i] = List(session)
                 \/ i \in DOMAIN screens /\ screens'[i] = screens[i]
          BY <2>1, <3>1, StackGrows
        <4>2. opened' = opened
          BY <1>12 DEF PostAnnounced
        <4>3. QED
          BY <2>1, <4>1, <4>2 DEF FormsOK
      <3>3. QED
        BY <1>12, <3>2 DEF PostAnnounced, FormsOK
    <2>5. ChainOK'
      BY <1>12 DEF PostAnnounced, chain, saved, ChainOK
    <2>6. QED
      BY <2>2, <2>3, <2>4, <2>5
  <1>13. ASSUME NEW k \in DOMAIN posts, PostRefused(k) PROVE IInv'
    BY <1>13, PostsMove DEF PostRefused, Fail, device, chain, saved, TypeOK, FormsOK, ChainOK, HeardOK
  <1>14. ASSUME SwitchList PROVE IInv'
    <2>1. List(session) \in ScreenRecords /\ List(session).screen # "form"
      BY DEF ScreenRecords, List, TypeOK
    <2>2. TypeOK'
      BY <1>14, <2>1, StackGrows DEF SwitchList, TypeOK, chain, saved
    <2>3. FormsOK'
      <3>1. screens' = Instead(List(session)) /\ screens \in Seq(ScreenRecords) /\ screens # <<>>
        BY <1>14 DEF SwitchList, TypeOK
      <3>2. \A i \in DOMAIN screens' :
               \/ screens'[i] = List(session)
               \/ i \in DOMAIN screens /\ screens'[i] = screens[i]
        BY <2>1, <3>1, StackGrows
      <3>3. \A i \in DOMAIN screens' : screens'[i].screen = "form" => screens'[i].of \in opened'
        BY <1>14, <2>1, <3>2 DEF SwitchList, FormsOK
      <3>4. QED
        BY <1>14, <3>3 DEF SwitchList, FormsOK
    <2>4. ChainOK' /\ HeardOK' /\ Rest'
      BY <1>14 DEF SwitchList, chain, saved, ChainOK, HeardOK, PostsCoherent, PostsAttributed, OnePostPerState
    <2>5. QED
      BY <2>2, <2>3, <2>4
  <1>15. ASSUME NEW a \in Accounts, NameSaved(a) PROVE IInv'
    BY <1>15 DEF NameSaved, device, chain, TypeOK, FormsOK, ChainOK, HeardOK, PostsCoherent,
                 PostsAttributed, OnePostPerState
  <1>16. CASE UNCHANGED vars
    BY <1>16 DEF vars, device, chain, saved, TypeOK, FormsOK, ChainOK, HeardOK, PostsCoherent, PostsAttributed, OnePostPerState
  <1>17. QED
    BY <1>1, <1>2, <1>3, <1>4, <1>5, <1>6, <1>7, <1>8, <1>9, <1>10, <1>11, <1>12, <1>13, <1>14, <1>15, <1>16 DEF Next, SubStep

\* IInv is an inductive invariant of publishing.
THEOREM Inductive == Spec => []IInv
  BY InitIInv, StepIInv, PTL DEF Spec

\* Screens, submissions and posts keep their types.
THEOREM TypeCorrect == Spec => []TypeOK
  BY Inductive, PTL DEF IInv

\* Unless the session changed under it, a submission's posts name one account.
THEOREM CoherentPosts == Spec => []PostsCoherent
  BY Inductive, PTL DEF IInv

\* No post lacks its uid or its poster's address, nor a name the author had at the press.
THEOREM AttributedPosts == Spec => []PostsAttributed
  BY Inductive, PTL DEF IInv

\* One press stores at most one post for each state of the record.
THEOREM OnePostEach == Spec => []OnePostPerState
  BY Inductive, PTL DEF IInv
===============================================================================
