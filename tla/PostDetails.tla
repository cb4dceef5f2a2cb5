------------------------------ MODULE PostDetails ------------------------------
(***************************************************************************)
(* The screen of a post (Activities/PostDetailsActivity.java) in the apps  *)
(* of several users, on top of the calls of BlogPost.  The screen loads a  *)
(* Blog object, shows its numbers, asks hasLike for the heart and reads    *)
(* the comments for the list and its title; taps start calls and their     *)
(* callbacks write to the views of the screen that made them.              *)
(***************************************************************************)
EXTENDS BlogPost, Sequences

VARIABLES
    screen,         \* screen[u]: "closed", "loading", "blank" (no user), "open"
    heart,          \* heart[u]: tag of the heart: "unset", "off", "on"
    heartAsked,     \* users whose screen waits for hasLike
    shownLikes,     \* shownLikes[u]: number beside the heart, Null before loading
    shownComments,  \* shownComments[u]: number of comments, Null before loading
    title,          \* title[u]: n of "Comments (n)", Null before the first list
    reads,          \* reads[u]: list reads on their way, answered in order: the
                    \* number of comments found, or Null while not yet served
    readFailed,     \* users whose latest finished list read failed
    onScreen,       \* calls whose listener writes to a screen still shown
    screenFailures  \* failed loads of the user and of the list so far

screenVars == <<screen, heart, heartAsked, shownLikes, shownComments, title,
                reads, readFailed, onScreen>>
allVars == <<vars, screenVars, screenFailures>>

CallsOf(u) == {c \in Calls : caller[c] = u}

ScreenInit ==
    /\ Init
    /\ screen = [u \in Users |-> "closed"]
    /\ heart = [u \in Users |-> "unset"]
    /\ heartAsked = {}
    /\ shownLikes = [u \in Users |-> Null]
    /\ shownComments = [u \in Users |-> Null]
    /\ title = [u \in Users |-> Null]
    /\ reads = [u \in Users |-> <<>>]
    /\ readFailed = {}
    /\ onScreen = {}
    /\ screenFailures = 0

\* A failure of a request of the screen itself, within the bound.
ScreenFail == screenFailures < MaxFailures /\ screenFailures' = screenFailures + 1

-----------------------------------------------------------------------------
(* The life of the screen.                                                 *)

\* Mutant: a screen that is gone still gets the answers of its calls.
ViewsKeepingCalls(u, s) ==
    /\ screen' = [screen EXCEPT ![u] = s]
    /\ heart' = [heart EXCEPT ![u] = "unset"]
    /\ heartAsked' = heartAsked \ {u}
    /\ shownLikes' = [shownLikes EXCEPT ![u] = Null]
    /\ shownComments' = [shownComments EXCEPT ![u] = Null]
    /\ title' = [title EXCEPT ![u] = Null]
    /\ reads' = [reads EXCEPT ![u] = <<>>]
    /\ readFailed' = readFailed \ {u}
    /\ UNCHANGED onScreen

\* The views of u's screen are those of a screen in state s that shows nothing.
Views(u, s) ==
    /\ screen' = [screen EXCEPT ![u] = s]
    /\ heart' = [heart EXCEPT ![u] = "unset"]
    /\ heartAsked' = heartAsked \ {u}
    /\ shownLikes' = [shownLikes EXCEPT ![u] = Null]
    /\ shownComments' = [shownComments EXCEPT ![u] = Null]
    /\ title' = [title EXCEPT ![u] = Null]
    /\ reads' = [reads EXCEPT ![u] = <<>>]
    /\ readFailed' = readFailed \ {u}
    /\ onScreen' = onScreen \ CallsOf(u)

\* onCreate: a fresh screen asks for the user and then for the post.
Open(u) ==
    /\ screen[u] = "closed"
    /\ Views(u, "loading")
    /\ UNCHANGED vars

\* Blogs.load answers: the Blog object is kept, its numbers are shown, hasLike
\* and the comments are asked for.
Loaded(u) ==
    /\ screen[u] = "loading"
    /\ Load(u)
    /\ screen' = [screen EXCEPT ![u] = "open"]
    /\ shownLikes' = [shownLikes EXCEPT ![u] = nbLikes]
    /\ shownComments' = [shownComments EXCEPT ![u] = nbComments]
    /\ heartAsked' = heartAsked \cup {u}
    /\ reads' = [reads EXCEPT ![u] = Append(@, Null)]
    /\ UNCHANGED <<heart, title, readFailed, onScreen>>

\* loadCurrentUser fails: a toast, and the screen stays without a post.
NoUser(u) ==
    /\ ScreenFail
    /\ screen[u] = "loading"
    /\ screen' = [screen EXCEPT ![u] = "blank"]
    /\ UNCHANGED <<vars, heart, heartAsked, shownLikes, shownComments, title,
                   reads, readFailed, onScreen>>

\* The app of u ends within the bound of failures, and its screen with it.
Ends(u) ==
    /\ Kill(u)
    /\ Views(u, "closed")

\* An exception in a callback or a tap: Blogs.load fails and mProgress is null;
\* a tap on send while blog is null; a tap on the heart before hasLike answered,
\* when it has no tag yet.
Throws(u) ==
    /\ \/ screen[u] \in {"loading", "blank"}
       \/ screen[u] = "open" /\ heart[u] = "unset"
    /\ Ends(u)

\* The system or the user stops the app.
Killed(u) == screen[u] # "closed" /\ Ends(u)

\* btnReturn, or back: the screen goes, calls and reads go on unseen.
Close(u) ==
    /\ screen[u] # "closed"
    /\ Views(u, "closed")
    /\ UNCHANGED vars

-----------------------------------------------------------------------------
(* The comments shown.                                                     *)

\* The database answers the oldest read it has not answered yet.
ReadServed(u) ==
    /\ \E i \in DOMAIN reads[u] :
          /\ reads[u][i] = Null
          /\ \A j \in 1..(i - 1) : reads[u][j] # Null
          /\ reads' = [reads EXCEPT ![u][i] = Cardinality(comments)]
    /\ UNCHANGED <<vars, screen, heart, heartAsked, shownLikes, shownComments,
                   title, readFailed, onScreen>>

\* refreshComments, onLoad: the list and its title show what was found.
ReadDelivered(u) ==
    /\ reads[u] # <<>>
    /\ Head(reads[u]) # Null
    /\ title' = [title EXCEPT ![u] = Head(reads[u])]
    /\ reads' = [reads EXCEPT ![u] = Tail(@)]
    /\ readFailed' = readFailed \ {u}
    /\ UNCHANGED <<vars, screen, heart, heartAsked, shownLikes, shownComments, onScreen>>

\* refreshComments, onFailed: a toast, the old list stays.
ReadCancelled(u) ==
    /\ ScreenFail
    /\ reads[u] # <<>>
    /\ reads' = [reads EXCEPT ![u] = Tail(@)]
    /\ readFailed' = readFailed \cup {u}
    /\ UNCHANGED <<vars, screen, heart, heartAsked, shownLikes, shownComments,
                   title, onScreen>>

\* hasLike answers the screen: the heart gets its first tag.
HeartAnswered(u) ==
    /\ u \in heartAsked
    /\ heart' = [heart EXCEPT ![u] = IF LikesFound = {} THEN "off" ELSE "on"]
    /\ heartAsked' = heartAsked \ {u}
    /\ UNCHANGED <<vars, screen, shownLikes, shownComments, title, reads,
                   readFailed, onScreen>>

-----------------------------------------------------------------------------
(* Taps and the callbacks of the calls they start.                         *)

SendTapped(u, c, empty) ==
    /\ screen[u] = "open"
    /\ Comment(u, c, empty)
    /\ onScreen' = onScreen \cup {c}
    /\ UNCHANGED <<screen, heart, heartAsked, shownLikes, shownComments, title,
                   reads, readFailed>>

\* Mutant: the tag is compared with the wrong drawable.
HeartTappedInverted(u, c) ==
    /\ screen[u] = "open"
    /\ \/ heart[u] = "off" /\ Unlike(u, c) /\ heart' = [heart EXCEPT ![u] = "on"]
       \/ heart[u] = "on" /\ Like(u, c) /\ heart' = [heart EXCEPT ![u] = "off"]
    /\ onScreen' = onScreen \cup {c}
    /\ UNCHANGED <<screen, heartAsked, shownLikes, shownComments, title, reads, readFailed>>

\* Mutant: the number beside the heart is raised with the tap.
HeartTappedCounting(u, c) ==
    /\ screen[u] = "open"
    /\ heart[u] = "off" /\ Like(u, c) /\ heart' = [heart EXCEPT ![u] = "on"]
    /\ onScreen' = onScreen \cup {c}
    /\ shownLikes' = [shownLikes EXCEPT ![u] = @ + 1]
    /\ UNCHANGED <<screen, heartAsked, shownComments, title, reads, readFailed>>

\* The heart changes at once; like or unlike follows.
HeartTapped(u, c) ==
    /\ screen[u] = "open"
    /\ \/ heart[u] = "off" /\ Like(u, c) /\ heart' = [heart EXCEPT ![u] = "on"]
       \/ heart[u] = "on" /\ Unlike(u, c) /\ heart' = [heart EXCEPT ![u] = "off"]
    /\ onScreen' = onScreen \cup {c}
    /\ UNCHANGED <<screen, heartAsked, shownLikes, shownComments, title, reads, readFailed>>

\* Mutant: the list is not read again after a comment.
ShowWithoutReading(c, number) ==
    /\ IF kind[c] = "comment" /\ c \in onScreen
         THEN shownComments' = [shownComments EXCEPT ![caller[c]] = number]
         ELSE UNCHANGED shownComments
    /\ IF kind[c] # "comment" /\ c \in onScreen
         THEN shownLikes' = [shownLikes EXCEPT ![caller[c]] = number]
         ELSE UNCHANGED shownLikes
    /\ UNCHANGED <<screen, heart, heartAsked, title, reads, readFailed, onScreen>>

\* onComment shows the number and reads the list again, onLike shows the number:
\* on the screen that made the call, if it is still there.
Show(c, number) ==
    /\ IF kind[c] = "comment" /\ c \in onScreen
         THEN /\ shownComments' = [shownComments EXCEPT ![caller[c]] = number]
              /\ reads' = [reads EXCEPT ![caller[c]] = Append(@, Null)]
         ELSE UNCHANGED <<shownComments, reads>>
    /\ IF kind[c] # "comment" /\ c \in onScreen
         THEN shownLikes' = [shownLikes EXCEPT ![caller[c]] = number]
         ELSE UNCHANGED shownLikes
    /\ UNCHANGED <<screen, heart, heartAsked, title, readFailed, onScreen>>

\* hasLike answers a call, which may end there with the number loaded.
LikeResolved(c) ==
    /\ HasLikeAnswered(c)
    /\ IF phase'[c] = "cached" THEN Show(c, blog[caller[c]]) ELSE UNCHANGED screenVars

Answered(c) == CallAnswered(c) /\ Show(c, Answer(c))

\* The transaction failed: its last value is shown as the answer, or the app ends.
Misanswered(c, hasSnapshot) ==
    /\ AbortDelivered(c, hasSnapshot)
    /\ IF phase'[c] = "misreported" THEN Show(c, seen[c]) ELSE Views(caller[c], "closed")

\* Steps of a call that no view shows; onFailed only toasts, the heart stays.
Unseen(c) ==
    /\ \/ DatabaseStep(c)
       \/ WriteAcknowledged(c)
       \/ RefusalDelivered(c)
       \/ TransactionRerun(c)
       \/ FailureStep(c)
    /\ UNCHANGED screenVars

\* What a screen does, but for its own failures.
ScreenStep(u) ==
    \/ Open(u) \/ Loaded(u) \/ Throws(u) \/ Killed(u) \/ Close(u)
    \/ ReadServed(u) \/ ReadDelivered(u) \/ HeartAnswered(u)

TapStep(u, c) ==
    \/ \E empty \in BOOLEAN : SendTapped(u, c, empty)
    \/ HeartTapped(u, c)

CallStep(c) ==
    \/ LikeResolved(c) \/ Answered(c) \/ Unseen(c)
    \/ \E hasSnapshot \in BOOLEAN : Misanswered(c, hasSnapshot)

ScreenNext ==
    \/ \E u \in Users : NoUser(u) \/ ReadCancelled(u)
    \/ /\ \/ \E u \in Users : ScreenStep(u)
          \/ \E u \in Users, c \in Calls : TapStep(u, c)
          \/ \E c \in Calls : CallStep(c)
       /\ UNCHANGED screenFailures

ScreenSpec == ScreenInit /\ [][ScreenNext]_allVars

\* Firebase answers what the screen asked while the app runs.
ScreenFairness ==
    /\ \A u \in Users : /\ WF_allVars(ReadServed(u) /\ UNCHANGED screenFailures)
                        /\ WF_allVars(ReadDelivered(u) /\ UNCHANGED screenFailures)

FairScreenSpec == ScreenSpec /\ ScreenFairness
-----------------------------------------------------------------------------
(* What makes the screen correct.                                          *)

\* The views have their types, and a closed screen shows and waits for nothing.
ScreenTypeOK ==
    /\ TypeOK
    /\ screen \in [Users -> {"closed", "loading", "blank", "open"}]
    /\ heart \in [Users -> {"unset", "off", "on"}]
    /\ heartAsked \subseteq {u \in Users : screen[u] = "open"}
    /\ shownLikes \in [Users -> Nat \cup {Null}]
    /\ shownComments \in [Users -> Nat \cup {Null}]
    /\ title \in [Users -> Nat \cup {Null}]
    /\ \A u \in Users : \A i \in DOMAIN reads[u] : reads[u][i] \in Nat \cup {Null}
    /\ readFailed \subseteq {u \in Users : screen[u] = "open"}
    /\ onScreen \subseteq {c \in Calls : screen[caller[c]] = "open"}

\* The numbers on a screen were true: neither the snapshot of the Blog object
\* (PostDetailsActivity.java:102-103), nor an answer that arrives after others
\* were counted, nor the value of a failed transaction (Blog.java:188-190, 252-254)
\* ever shows more than the database holds.
ShownNeverAhead ==
    \A u \in Users :
        /\ shownLikes[u] # Null => shownLikes[u] <= nbLikes
        /\ shownComments[u] # Null => shownComments[u] <= nbComments

\* Once the reads a screen asked for are in, "Comments (n)" (PostDetailsActivity
\* .java:231) is never below the number of comments beside it (line 163), though
\* the two come from different requests: the list is read after the count.
TitleCoversCount ==
    \A u \in Users :
        screen[u] = "open" /\ reads[u] = <<>> /\ u \notin readFailed
            => title[u] >= shownComments[u]

\* While nothing fails, a red heart left alone means the user likes the post: the
\* heart is switched before the call (lines 193-194), and the call makes it true.
HeartTrue ==
    \A u \in Users :
        /\ heart[u] = "on"
        /\ failures = 0
        /\ \A c \in onScreen : caller[c] = u => phase[c] \notin Moving
        => \E c \in likes : caller[c] = u

\* A user who was told "Comment posted." sees a list at least that long, unless
\* the screen is left or a read of the list fails.
OwnCommentSeen ==
    \A u \in Users, c \in Calls :
        (/\ c \in onScreen /\ caller[c] = u
         /\ kind[c] = "comment" /\ phase[c] = "answered")
        ~> (\/ c \notin onScreen
            \/ u \in readFailed
            \/ title[u] # Null /\ title[u] >= Answer(c))
=============================================================================
