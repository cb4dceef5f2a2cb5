------------------------------ MODULE Publishing ------------------------------
(***************************************************************************)
(* Publishing a post or an event: the forms AddPostActivity and            *)
(* AddEventActivity, and Blogs.add and Events.add, which do the same with  *)
(* more fields.  A submission is a chain: upload the image -> get its URL  *)
(* -> listen to the record of the user signed in -> store one post for     *)
(* every state of that record -> read it back -> onSaved.  The chain takes *)
(* the user from three places: the User its form loaded, the FirebaseUser  *)
(* of the press, and the FirebaseUser of the moment the URL arrives; the   *)
(* listener is never removed.                                              *)
(***************************************************************************)
EXTENDS Naturals, Sequences

CONSTANTS
    Accounts,       \* accounts that sign in on the device
    FormIds,        \* add-post and add-event screens, each opened once
    Subs,           \* presses of their submit buttons
    Null,           \* nobody, nothing
    MaxVersion,     \* bound on the states of an account's record
    MaxFailures,    \* bound on failed requests
    MaxScreens      \* bound on the stack a sign-in may leave with two lists

ASSUME NullAssumption == Null \notin Accounts \cup FormIds \cup Subs \cup Nat
ASSUME NamesAssumption == FormIds \cap Subs = {}
ASSUME BoundsAssumption == MaxVersion \in Nat \ {0} /\ MaxFailures \in Nat /\ MaxScreens \in Nat

VARIABLES
    session,        \* who is signed in, or Null
    record,         \* record[a]: version of the profile in Users/a, 0 if none
    named,          \* accounts whose display name is saved
    screens,        \* the back stack, top last
    opened,         \* forms opened so far
    holder,         \* holder[f]: the User form f loaded (currentUser), or Null
    phase,          \* phase[s]: how far submission s has come
    user,           \* user[s]: the User s was made with
    author,         \* author[s]: who was signed in at the press (firebaseAuth)
    nameless,       \* submissions whose author had no display name at the press
    watched,        \* watched[s]: whose record s listens to, or Null
    heard,          \* heard[s]: version of it s last stored a post for, or 0
    posts,          \* the posts stored or on their way, in the order of their keys
    crossed,        \* history: forms and submissions that saw the session change
    failures        \* failures so far

device == <<session, screens, opened, holder>>
saved == <<record, named>>
chain == <<user, author, nameless, watched, heard>>
vars == <<session, record, named, screens, opened, holder, phase, user, author,
          nameless, watched, heard, posts, crossed, failures>>

\* Its image on the way, its URL; its listener attached to the record of watched[s],
\* or cut off from it, while its posts are still answered.
UnderWay == {"uploading", "linking"}
Listened == {"listening", "cancelled"}
Phases == UnderWay \cup Listened \cup
          {"new",
           "rejected",      \* a field is missing, or the form has no User: a toast
           "failed",        \* the upload failed: a toast
           "unheard",       \* the URL failed: no listener
           "lost"}          \* the app ended

\* MainActivity, a form, and a list together with the mUser it took in onCreate.
Login == [screen |-> "login", of |-> Null]
Form(f) == [screen |-> "form", of |-> f]
List(a) == [screen |-> "list", of |-> a]

Init ==
    /\ session \in Accounts
    /\ record \in [Accounts -> {0, 1}]
    /\ named \in SUBSET Accounts
    /\ screens = <<List(session)>>
    /\ opened = {}
    /\ holder = [f \in FormIds |-> Null]
    /\ phase = [s \in Subs |-> "new"]
    /\ user = [s \in Subs |-> Null]
    /\ author = [s \in Subs |-> Null]
    /\ nameless = {}
    /\ watched = [s \in Subs |-> Null]
    /\ heard = [s \in Subs |-> 0]
    /\ posts = <<>>
    /\ crossed = {}
    /\ failures = 0

Goto(s, p) == phase' = [phase EXCEPT ![s] = p]
Fail == failures < MaxFailures /\ failures' = failures + 1

-----------------------------------------------------------------------------
(* Screens and session.                                                    *)

Top == screens[Len(screens)]

\* startActivity; startActivity and finish.
Over(scr) == Append(screens, scr)
Instead(scr) == [screens EXCEPT ![Len(screens)] = scr]

\* The add button of a list, which looks at the list's own mUser.  The form loads
\* the User signed in now; without one, or on failure, it has none.
OpenForm(f) ==
    /\ Top.screen = "list" /\ Top.of # Null
    /\ f \notin opened
    /\ opened' = opened \cup {f}
    /\ screens' = Instead(Form(f))
    /\ \/ holder' = [holder EXCEPT ![f] = session] /\ UNCHANGED failures
       \/ holder' = [holder EXCEPT ![f] = Null] /\ Fail
    /\ UNCHANGED <<session, saved, phase, chain, posts, crossed>>

\* Mutant: there is a screen before the first.
BackOut ==
    /\ screens # <<>>
    /\ screens' = SubSeq(screens, 1, Len(screens) - 1)
    /\ UNCHANGED <<session, saved, opened, holder, phase, chain, posts, crossed, failures>>

\* The back button; an app without a screen starts again at MainActivity.
Back ==
    /\ screens' = IF Len(screens) = 1 THEN <<Login>>
                                      ELSE SubSeq(screens, 1, Len(screens) - 1)
    /\ screens' # screens
    /\ UNCHANGED <<session, saved, opened, holder, phase, chain, posts, crossed, failures>>

\* The session changes under the open forms and the submissions that will still
\* ask for it.
SessionChanges ==
    crossed' = crossed \cup opened \cup {s \in Subs : phase[s] \in UnderWay}

\* The menu of a list, whose mUser may long be signed out.
SignOut ==
    /\ Top.screen = "list" /\ Top.of # Null
    /\ session' = Null
    /\ screens' = Instead(Login)
    /\ SessionChanges
    /\ UNCHANGED <<saved, opened, holder, phase, chain, posts, failures>>

\* MainActivity: somebody still is signed in, or signs in.  The listener on the
\* session opens a list and finishes the screen; the callback of a sign-in opens one
\* more, unless the screen has stopped by then.
SignIn(a) ==
    /\ Top = Login
    /\ session \in {Null, a}
    /\ session' = a
    /\ \/ screens' = Instead(List(a))
       \/ /\ session = Null /\ Len(screens) < MaxScreens
          /\ screens' = Append(Instead(List(a)), List(a))
    /\ IF session = a THEN UNCHANGED crossed ELSE SessionChanges
    /\ UNCHANGED <<saved, opened, holder, phase, chain, posts, failures>>

\* The menus lead from the posts to the events and back: the other list takes in
\* who is signed in now.
SwitchList ==
    /\ Top.screen = "list" /\ Top.of # Null
    /\ screens' = Instead(List(session))
    /\ UNCHANGED <<session, saved, opened, holder, phase, chain, posts, crossed, failures>>

\* A registration saves the profile of a, for the first time or over another.
RecordSaved(a) ==
    /\ record[a] < MaxVersion
    /\ record' = [record EXCEPT ![a] = @ + 1]
    /\ UNCHANGED <<device, named, phase, chain, posts, crossed, failures>>

\* The display name it saves beside it, in a request of its own, takes effect.
NameSaved(a) ==
    /\ a \notin named
    /\ named' = named \cup {a}
    /\ UNCHANGED <<device, record, phase, chain, posts, crossed, failures>>

-----------------------------------------------------------------------------
(* The chain of one submission.                                            *)

\* A callback throws and the app ends: submissions and listeners go, and it starts
\* again at MainActivity.
AppEnds ==
    /\ phase' = [s \in Subs |-> IF phase[s] \in UnderWay \cup Listened
                                THEN "lost" ELSE phase[s]]
    /\ screens' = <<Login>>

\* startPosting and add: without a User, or with a missing field, a toast; else
\* the image is sent off.  A User still on its way is one the form does not have.
Submit(s, complete) ==
    /\ Top.screen = "form"
    /\ phase[s] = "new"
    /\ user' = [user EXCEPT ![s] = holder[Top.of]]
    /\ author' = [author EXCEPT ![s] = session]
    /\ nameless' = IF session \in named THEN nameless ELSE nameless \cup {s}
    /\ crossed' = IF Top.of \in crossed THEN crossed \cup {s} ELSE crossed
    /\ Goto(s, IF holder[Top.of] # Null /\ complete THEN "uploading" ELSE "rejected")
    /\ UNCHANGED <<device, saved, watched, heard, posts, failures>>

\* putFile succeeds: the URL is asked for.
ImageUploaded(s) ==
    /\ phase[s] = "uploading"
    /\ Goto(s, "linking")
    /\ UNCHANGED <<device, saved, chain, posts, crossed, failures>>

\* The URL arrives: the record of the present user is listened to; without one
\* the callback throws.
UrlArrived(s) ==
    /\ phase[s] = "linking"
    /\ IF session = Null
         THEN AppEnds /\ UNCHANGED watched
         ELSE /\ Goto(s, "listening")
              /\ watched' = [watched EXCEPT ![s] = session]
              /\ UNCHANGED screens
    /\ UNCHANGED <<session, saved, opened, holder, user, author, nameless,
                   heard, posts, crossed, failures>>

\* firebaseAuth.getDisplayName(): null as long as the name is not saved.  The user
\* taken at the press, before it was, may or may not hear of it.
NamesOf(s) ==
    IF s \in nameless THEN {Null} \cup (named \cap {author[s]}) ELSE {author[s]}

\* Mutant: who is signed in is asked anew when the post is put together.
PostByPresentUser(s, name) ==
    [sub |-> s, uid |-> user[s], author |-> name, email |-> session,
     picture |-> watched[s], version |-> record[watched[s]], state |-> "sent"]

\* The map put together in onDataChange.
Post(s, name) ==
    [sub     |-> s,
     uid     |-> user[s],           \* user.uid()
     author  |-> name,              \* author of a post, user of an event
     email   |-> author[s],         \* emailPoster of an event: firebaseAuth.getEmail()
     picture |-> watched[s],        \* profilePicture, address of the record read
     version |-> record[watched[s]],
     state   |-> "sent"]

\* Mutant: a listener is told of the same state over and over.
RecordHeardAgain(s) ==
    /\ phase[s] = "listening"
    /\ record[watched[s]] # 0 /\ author[s] # Null
    /\ Len(posts) < 3
    /\ heard' = [heard EXCEPT ![s] = record[watched[s]]]
    /\ \E name \in NamesOf(s) : posts' = Append(posts, Post(s, name))
    /\ UNCHANGED <<device, saved, phase, user, author, nameless, watched, crossed,
                   failures>>

\* Mutant: the callback puts a post together without asking who its author is.
RecordHeardAnonymous(s) ==
    /\ phase[s] = "listening"
    /\ record[watched[s]] # heard[s]
    /\ heard' = [heard EXCEPT ![s] = record[watched[s]]]
    /\ \E name \in NamesOf(s) : posts' = Append(posts, Post(s, name))
    /\ UNCHANGED <<device, saved, phase, user, author, nameless, watched, crossed,
                   failures>>

\* The listener is told of a state of the record that it has not stored a post
\* for; a record that does not exist has no child and stores none.
RecordHeard(s) ==
    /\ phase[s] = "listening"
    /\ record[watched[s]] # heard[s]
    /\ heard' = [heard EXCEPT ![s] = record[watched[s]]]
    /\ IF author[s] = Null
         THEN AppEnds /\ UNCHANGED posts
         ELSE /\ \E name \in NamesOf(s) : posts' = Append(posts, Post(s, name))
              /\ UNCHANGED <<phase, screens>>
    /\ UNCHANGED <<session, saved, opened, holder, user, author, nameless,
                   watched, crossed, failures>>

\* The listener is cut off from the record: onCancelled is empty, and it hears no more.
RecordCancelled(s) ==
    /\ Fail
    /\ phase[s] = "listening"
    /\ Goto(s, "cancelled")
    /\ UNCHANGED <<device, saved, chain, posts, crossed>>

\* The post with key k moves on to state t.
Move(k, t) == posts' = [posts EXCEPT ![k].state = t]

\* setValue takes effect; if the app ended meanwhile it may or may not.
PostStored(k) ==
    /\ posts[k].state = "sent"
    /\ Move(k, "stored")
    /\ UNCHANGED <<device, saved, phase, chain, crossed, failures>>

\* Mutant: onSaved does nothing once its form is gone.
PostAnnouncedOnForm(k) ==
    /\ posts[k].state = "stored"
    /\ phase[posts[k].sub] \in Listened
    /\ Top.screen = "form"
    /\ Move(k, "announced")
    /\ screens' = Over(List(session))
    /\ UNCHANGED <<session, saved, opened, holder, phase, chain, crossed, failures>>

\* It was read back: onSaved opens a list above whatever screen there is.
PostAnnounced(k) ==
    /\ posts[k].state = "stored"
    /\ phase[posts[k].sub] \in Listened
    /\ Move(k, "announced")
    /\ screens' = Over(List(session))
    /\ UNCHANGED <<session, saved, opened, holder, phase, chain, crossed, failures>>

\* The upload fails: a toast.
UploadFailed(s) ==
    /\ Fail
    /\ phase[s] = "uploading"
    /\ Goto(s, "failed")
    /\ UNCHANGED <<device, saved, chain, posts, crossed>>

\* The URL fails, and nobody listens.
UrlFailed(s) ==
    /\ Fail
    /\ phase[s] = "linking"
    /\ Goto(s, "unheard")
    /\ UNCHANGED <<device, saved, chain, posts, crossed>>

\* setValue is refused, or the post stored cannot be read back: a toast.
PostRefused(k) ==
    /\ Fail
    /\ posts[k].state \in {"sent", "stored"}
    /\ Move(k, IF posts[k].state = "sent" THEN "refused" ELSE "unread")
    /\ UNCHANGED <<device, saved, phase, chain, crossed>>

SubStep(s) == ImageUploaded(s) \/ UrlArrived(s) \/ RecordHeard(s)

Next ==
    \/ \E f \in FormIds : OpenForm(f)
    \/ Back
    \/ SignOut
    \/ SwitchList
    \/ \E a \in Accounts : SignIn(a) \/ RecordSaved(a) \/ NameSaved(a)
    \/ \E s \in Subs :
          \/ \E complete \in BOOLEAN : Submit(s, complete)
          \/ SubStep(s) \/ UploadFailed(s) \/ UrlFailed(s) \/ RecordCancelled(s)
    \/ \E k \in DOMAIN posts : PostStored(k) \/ PostAnnounced(k) \/ PostRefused(k)

Spec == Init /\ [][Next]_vars

\* The posts of s are answered, as long as the app that asks is there.
PostStep(s) ==
    \E k \in DOMAIN posts :
        /\ posts[k].sub = s /\ phase[s] \in Listened
        /\ PostStored(k) \/ PostAnnounced(k)

\* Requests that were sent are answered and listeners are told; users do nothing
\* of necessity.
FairSpec == Spec /\ \A s \in Subs : WF_vars(SubStep(s)) /\ WF_vars(PostStep(s))
-----------------------------------------------------------------------------
(* What makes publishing correct.                                          *)

PostRecords ==
    [sub : Subs, uid : Accounts \cup {Null}, author : Accounts \cup {Null},
     email : Accounts \cup {Null}, picture : Accounts, version : 1..MaxVersion,
     state : {"sent", "stored", "announced", "refused", "unread"}]

ScreenRecords ==
    {Login} \cup {Form(f) : f \in FormIds} \cup {List(a) : a \in Accounts \cup {Null}}

\* Every variable has its type.
TypeOK ==
    /\ session \in Accounts \cup {Null}
    /\ record \in [Accounts -> 0..MaxVersion]
    /\ named \subseteq Accounts
    /\ screens \in Seq(ScreenRecords) /\ screens # <<>>
    /\ opened \subseteq FormIds
    /\ holder \in [FormIds -> Accounts \cup {Null}]
    /\ phase \in [Subs -> Phases]
    /\ user \in [Subs -> Accounts \cup {Null}]
    /\ author \in [Subs -> Accounts \cup {Null}]
    /\ nameless \subseteq Subs
    /\ watched \in [Subs -> Accounts \cup {Null}]
    /\ heard \in [Subs -> 0..MaxVersion]
    /\ posts \in Seq(PostRecords)
    /\ crossed \subseteq FormIds \cup Subs
    /\ failures \in 0..MaxFailures

\* The uid, the address and the picture of a post are those of one account, and so is
\* its author's name if it has one, unless the session changed between the opening of
\* its form and the arrival of the image's URL: Blogs.add takes them from three places
\* (lines 103, 104, 105), Events.add too (123, 124, 127).
PostsCoherent ==
    \A k \in DOMAIN posts :
        posts[k].sub \notin crossed =>
            /\ posts[k].uid = posts[k].email /\ posts[k].email = posts[k].picture
            /\ posts[k].author \in {posts[k].uid, Null}

\* No post is without uid or address, whenever the users sign out: the form without a
\* User refuses, the callback without one throws before anything is stored.  The
\* author's name is missing only if it was not saved yet when the button was pressed.
PostsAttributed ==
    \A k \in DOMAIN posts :
        /\ posts[k].uid # Null /\ posts[k].email # Null
        /\ posts[k].author = Null => posts[k].sub \in nameless

\* The listener that is never removed stores at most one post for each state of the
\* record, in the order of those states: two posts of one press are of two states.
OnePostPerState ==
    \A k, l \in DOMAIN posts :
        k < l /\ posts[k].sub = posts[l].sub => posts[k].version < posts[l].version

\* What a submission can come to: a toast, silence on a lost URL, the end of the app,
\* an answer to a post, or nothing at all: for a user without a record, and for a
\* listener cut off before it heard of one.
Answered(s) ==
    \/ phase[s] \in {"failed", "unheard", "lost"}
    \/ phase[s] = "listening" /\ record[watched[s]] = 0
    \/ phase[s] = "cancelled" /\ heard[s] = 0
    \/ \E k \in DOMAIN posts :
          posts[k].sub = s /\ posts[k].state \in {"announced", "refused", "unread"}

\* Every submission that passed the checks comes to one of these, wherever the user
\* went in the meantime.
SubmissionsAnswered == \A s \in Subs : phase[s] = "uploading" ~> Answered(s)
-----------------------------------------------------------------------------
(* The inductive strengthening the proofs of PublishingProofs rest on.      *)

\* A form on the stack was opened, and the User of a form that saw no change of the
\* session is the one signed in.
FormsOK ==
    /\ \A i \in DOMAIN screens : screens[i].screen = "form" => screens[i].of \in opened
    /\ \A f \in opened : f \notin crossed /\ holder[f] # Null => session = holder[f]

\* A submission at work has a User; until one crosses it, all it took is of the
\* account signed in, and once it listens, of the account it listens to.
ChainOK ==
    \A s \in Subs :
        /\ phase[s] \in UnderWay \cup {"listening"} => user[s] # Null
        /\ phase[s] \in UnderWay /\ s \notin crossed =>
              user[s] = session /\ author[s] = session
        /\ phase[s] = "listening" => watched[s] # Null
        /\ phase[s] = "listening" /\ s \notin crossed =>
              user[s] = watched[s] /\ author[s] = watched[s]

\* A submission heard nothing before it listens, never more than there is, and its
\* posts are of what it heard.
HeardOK ==
    /\ \A s \in Subs :
          /\ phase[s] \in UnderWay \cup {"new"} => heard[s] = 0
          /\ phase[s] = "listening" => heard[s] <= record[watched[s]]
    /\ \A k \in DOMAIN posts : posts[k].version <= heard[posts[k].sub]

\* Inductive invariant behind PostsCoherent, PostsAttributed and OnePostPerState.
IInv ==
    /\ TypeOK /\ FormsOK /\ ChainOK /\ HeardOK
    /\ PostsCoherent /\ PostsAttributed /\ OnePostPerState
=============================================================================
