------------------------------- MODULE BlogPost -------------------------------
(***************************************************************************)
(* One post of the blog, shared by the apps of several users: the node     *)
(* Volvi Blog/<id> of the Firebase Realtime Database with its comments,    *)
(* its likes and the two numbers stored beside them, and the calls         *)
(* comment, like and unlike of Model/Blog.java.                            *)
(*                                                                         *)
(* A call is a chain of asynchronous requests: [hasLike query ->] write of *)
(* a child node -> acknowledgement -> transaction on the counter ->        *)
(* callback.  Calls of all users, and several calls of one user,           *)
(* interleave at every one of these points.  The database applies a write  *)
(* and its acknowledgement travels back separately, a transaction is the   *)
(* compare-and-set loop Firebase runs, and an app may be killed anywhere.  *)
(***************************************************************************)
EXTENDS Integers, FiniteSets

CONSTANTS
    Users,          \* signed-in users, each with one app
    PostAuthor,     \* the user whose uid the post carries
    Calls,          \* calls of comment/like/unlike; a call is also its push key
    Null,           \* no value: an absent counter, no Blog object
    MaxFailures     \* bound on refused, cancelled and aborted requests and kills

ASSUME PostAuthorAssumption == PostAuthor \in Users
ASSUME CallsAssumption == IsFiniteSet(Calls)
ASSUME NullAssumption == Null \notin Int
ASSUME MaxFailuresAssumption == MaxFailures \in Nat

VARIABLES
    comments,       \* keys under blog-comment
    likes,          \* keys under blog-like
    nbComments,     \* the stored number of comments
    nbLikes,        \* the stored number of likes
    blog,           \* blog[u]: nbLikes of the Blog object u's app holds, or Null
    kind,           \* kind[c]: what was called
    caller,         \* caller[c]: who called
    phase,          \* phase[c]: how far the chain of c has come
    seen,           \* seen[c]: counter value the transaction of c was last run on
    target,         \* target[c]: the like an unlike removes
    awaited,        \* calls whose app still runs and will take their answers
    counted,        \* history: calls whose transaction the database committed
    failures        \* failures so far

server == <<comments, likes, nbComments, nbLikes>>
vars == <<comments, likes, nbComments, nbLikes, blog, kind, caller, phase,
          seen, target, awaited, counted, failures>>

Kinds == {"comment", "like", "unlike"}
Moving == {"asking", "writing", "written", "refused", "counting", "counted", "aborted"}
Ended  == {"answered",      \* onComment or onLike with the committed number
           "cached",        \* onLike with the number the Blog object holds
           "misreported",   \* onComment or onLike although the transaction failed
           "failed",        \* onFailed
           "crashed"}       \* the callback threw
Phases == {"free"} \cup Moving \cup Ended

-----------------------------------------------------------------------------
(* The data the program writes and reads back.                             *)

\* Mutant: the like is stored with the field hasLike asks for.
LikeFieldsWithUid == {"blogId", "uid", "createdDate"}

\* Like.toMap: the fields a stored like has.
LikeFields == {"blogId", "authorId", "createdDate"}

\* hasLike: the likes whose child "uid" equals the uid of the post, that is of
\* its author; a like without that child never matches.
LikesFound ==
    {l \in likes : "uid" \in LikeFields /\ caller[l] = PostAuthor}

\* doTransaction of incrementCommentsCount, incrementLikesCount and
\* decrementLikesCount: the value set from the current one.
Recount(k, value) ==
    IF k = "unlike" THEN IF value = Null THEN 0 ELSE value - 1
                    ELSE IF value = Null THEN 1 ELSE value + 1

\* The counter the transaction of a call runs on.
Counter(k) == IF k = "comment" THEN nbComments ELSE nbLikes

-----------------------------------------------------------------------------
Init ==
    /\ comments = {} /\ likes = {}
    /\ nbComments = 0 /\ nbLikes = 0
    /\ blog = [u \in Users |-> Null]
    /\ kind = [c \in Calls |-> "comment"]
    /\ caller = [c \in Calls |-> PostAuthor]
    /\ phase = [c \in Calls |-> "free"]
    /\ seen = [c \in Calls |-> Null]
    /\ target = [c \in Calls |-> c]
    /\ awaited = {} /\ counted = {}
    /\ failures = 0

Goto(c, p) == phase' = [phase EXCEPT ![c] = p]

\* A failure of the environment, within the bound.
Fail == failures < MaxFailures /\ failures' = failures + 1

\* Blogs.load, and the Blog constructor: the app keeps a snapshot of the post.
Load(u) ==
    /\ blog' = [blog EXCEPT ![u] = nbLikes]
    /\ UNCHANGED <<server, kind, caller, phase, seen, target, awaited,
                   counted, failures>>

\* u calls method k of its Blog object; the chain begins at phase p.
Begin(u, c, k, p) ==
    /\ blog[u] # Null
    /\ phase[c] = "free"
    /\ kind' = [kind EXCEPT ![c] = k]
    /\ caller' = [caller EXCEPT ![c] = u]
    /\ Goto(c, p)
    /\ awaited' = awaited \cup {c}
    /\ UNCHANGED <<server, blog, seen, target, counted, failures>>

\* Mutant: the number is counted first and the comment written never.
CommentCountedFirst(u, c, empty) ==
    Begin(u, c, "comment", IF empty THEN "failed" ELSE "counting")

\* Blog.comment: an empty message is answered by onFailed and nothing is sent.
Comment(u, c, empty) == Begin(u, c, "comment", IF empty THEN "failed" ELSE "writing")

\* Blog.like and Blog.unlike: both ask hasLike first.
Like(u, c) == Begin(u, c, "like", "asking")
Unlike(u, c) == Begin(u, c, "unlike", "asking")

\* The answer of hasLike reaches the app: a like is written only if none was
\* found, a like is removed only if one was.
HasLikeAnswered(c) ==
    /\ c \in awaited
    /\ phase[c] = "asking"
    /\ IF kind[c] = "like"
         THEN /\ Goto(c, IF LikesFound = {} THEN "writing" ELSE "cached")
              /\ UNCHANGED target
         ELSE IF LikesFound = {}
           THEN Goto(c, "cached") /\ UNCHANGED target
           ELSE /\ Goto(c, "writing")
                /\ \E l \in LikesFound : target' = [target EXCEPT ![c] = l]
    /\ UNCHANGED <<server, blog, kind, caller, seen, awaited, counted, failures>>

\* The query of hasLike is cancelled: onFailed.
HasLikeCancelled(c) ==
    /\ Fail
    /\ c \in awaited
    /\ phase[c] = "asking"
    /\ Goto(c, "failed")
    /\ UNCHANGED <<server, blog, kind, caller, seen, target, awaited, counted>>

\* The database applies updateChildren (comment, like) or removeValue (unlike),
\* also when the app that sent it is gone.
WriteApplied(c) ==
    /\ phase[c] = "writing"
    /\ comments' = comments \cup (IF kind[c] = "comment" THEN {c} ELSE {})
    /\ likes' = CASE kind[c] = "comment" -> likes
                  [] kind[c] = "like"    -> likes \cup {c}
                  [] OTHER               -> likes \ {target[c]}
    /\ Goto(c, "written")
    /\ UNCHANGED <<nbComments, nbLikes, blog, kind, caller, seen, target,
                   awaited, counted, failures>>

\* The database refuses the write.
WriteRefused(c) ==
    /\ Fail
    /\ phase[c] = "writing"
    /\ Goto(c, "refused")
    /\ UNCHANGED <<server, blog, kind, caller, seen, target, awaited, counted>>

\* Mutant: the listener is called at once and the counter forgotten.
AckWithoutCounting(c) ==
    /\ c \in awaited
    /\ phase[c] = "written"
    /\ Goto(c, "answered")
    /\ seen' = [seen EXCEPT ![c] = nbComments]
    /\ UNCHANGED <<server, blog, kind, caller, target, awaited, counted, failures>>

\* CompletionListener.onComplete without an error: the counter transaction is
\* started; it runs first on the local cache, which holds the counter only while
\* the list of posts keeps it synchronised.
WriteAcknowledged(c) ==
    /\ c \in awaited
    /\ phase[c] = "written"
    /\ Goto(c, "counting")
    /\ \E cache \in {Null, Counter(kind[c])} : seen' = [seen EXCEPT ![c] = cache]
    /\ UNCHANGED <<server, blog, kind, caller, target, awaited, counted, failures>>

\* Mutant: the test of databaseError is inverted.
AckTakenForRefusal(c) ==
    /\ c \in awaited
    /\ phase[c] \in {"refused", "written"}
    /\ Goto(c, "failed")
    /\ UNCHANGED <<server, blog, kind, caller, seen, target, awaited, counted, failures>>

\* CompletionListener.onComplete with an error: onFailed.
RefusalDelivered(c) ==
    /\ c \in awaited
    /\ phase[c] = "refused"
    /\ Goto(c, "failed")
    /\ UNCHANGED <<server, blog, kind, caller, seen, target, awaited, counted, failures>>

\* Mutant: the number is written without comparing, as a setValue would.
TransactionOverwrites(c) ==
    /\ phase[c] = "counting"
    /\ seen[c] # Null
    /\ IF kind[c] = "comment"
         THEN nbComments' = Recount("comment", seen[c]) /\ UNCHANGED nbLikes
         ELSE nbLikes' = Recount(kind[c], seen[c]) /\ UNCHANGED nbComments
    /\ counted' = counted \cup {c}
    /\ Goto(c, "counted")
    /\ UNCHANGED <<comments, likes, blog, kind, caller, seen, target, awaited, failures>>

\* The database holds the value the transaction was run on: it commits.
TransactionCommitted(c) ==
    /\ phase[c] = "counting"
    /\ seen[c] = Counter(kind[c])
    /\ IF kind[c] = "comment"
         THEN nbComments' = Recount("comment", seen[c]) /\ UNCHANGED nbLikes
         ELSE nbLikes' = Recount(kind[c], seen[c]) /\ UNCHANGED nbComments
    /\ counted' = counted \cup {c}
    /\ Goto(c, "counted")
    /\ UNCHANGED <<comments, likes, blog, kind, caller, seen, target, awaited, failures>>

\* Mutant: a transaction that lost the race is not run again.
TransactionRerunOnce(c) ==
    /\ c \in awaited
    /\ phase[c] = "counting"
    /\ seen[c] = Null
    /\ seen' = [seen EXCEPT ![c] = Counter(kind[c])]
    /\ UNCHANGED <<server, blog, kind, caller, phase, target, awaited, counted, failures>>

\* It holds another value: doTransaction is run again on that one.
TransactionRerun(c) ==
    /\ c \in awaited
    /\ phase[c] = "counting"
    /\ seen[c] # Counter(kind[c])
    /\ seen' = [seen EXCEPT ![c] = Counter(kind[c])]
    /\ UNCHANGED <<server, blog, kind, caller, phase, target, awaited, counted, failures>>

\* The transaction ends with an error: it was never committed, or the
\* connection broke after the commit and before its answer.
TransactionAborted(c) ==
    /\ Fail
    /\ phase[c] \in {"counting", "counted"}
    /\ Goto(c, "aborted")
    /\ UNCHANGED <<server, blog, kind, caller, seen, target, awaited, counted>>

\* Transaction.Handler.onComplete after a commit: onComment or onLike is given
\* the committed number.
CallAnswered(c) ==
    /\ c \in awaited
    /\ phase[c] = "counted"
    /\ Goto(c, "answered")
    /\ UNCHANGED <<server, blog, kind, caller, seen, target, awaited, counted, failures>>

Answer(c) == Recount(kind[c], seen[c])

\* The app of u goes away: its Blog object is lost, its calls get no answers.
AppGone(u) ==
    /\ blog' = [blog EXCEPT ![u] = Null]
    /\ awaited' = {c \in awaited : caller[c] # u}

\* Transaction.Handler.onComplete after an error, which it does not look at:
\* the snapshot is the value last seen, handed to the listener as if the
\* transaction had succeeded, or there is none and reading it kills the app.
AbortDelivered(c, hasSnapshot) ==
    /\ c \in awaited
    /\ phase[c] = "aborted"
    /\ IF hasSnapshot /\ seen[c] # Null
         THEN Goto(c, "misreported") /\ UNCHANGED <<blog, awaited>>
         ELSE Goto(c, "crashed") /\ AppGone(caller[c])
    /\ UNCHANGED <<server, kind, caller, seen, target, counted, failures>>

\* The app of u ends: the user or the system stops it, or a screen throws.
Kill(u) ==
    /\ Fail
    /\ AppGone(u)
    /\ UNCHANGED <<server, kind, caller, phase, seen, target, counted>>

UserStep(u, c) ==
    \/ \E empty \in BOOLEAN : Comment(u, c, empty)
    \/ Like(u, c)
    \/ Unlike(u, c)

\* What the database does with the requests it receives.
DatabaseStep(c) ==
    \/ WriteApplied(c)
    \/ TransactionCommitted(c)

\* What the Firebase client and the callbacks do in the app.
AppStep(c) ==
    \/ HasLikeAnswered(c)
    \/ WriteAcknowledged(c)
    \/ RefusalDelivered(c)
    \/ TransactionRerun(c)
    \/ CallAnswered(c)
    \/ \E hasSnapshot \in BOOLEAN : AbortDelivered(c, hasSnapshot)

FailureStep(c) ==
    \/ HasLikeCancelled(c)
    \/ WriteRefused(c)
    \/ TransactionAborted(c)

Next ==
    \/ \E u \in Users : Load(u) \/ Kill(u)
    \/ \E u \in Users, c \in Calls : UserStep(u, c)
    \/ \E c \in Calls : DatabaseStep(c) \/ AppStep(c) \/ FailureStep(c)

Spec == Init /\ [][Next]_vars

\* Requests that were sent reach the database and answers reach a running app;
\* nothing makes a user act, and nothing makes a request fail.
Fairness == \A c \in Calls : WF_vars(DatabaseStep(c)) /\ WF_vars(AppStep(c))

FairSpec == Spec /\ Fairness
-----------------------------------------------------------------------------
(* What makes the post correct.                                            *)

\* Every variable has its type; a call that is being answered has a caller.
TypeOK ==
    /\ comments \subseteq Calls /\ likes \subseteq Calls
    /\ nbComments \in Nat /\ nbLikes \in Nat
    /\ blog \in [Users -> Nat \cup {Null}]
    /\ kind \in [Calls -> Kinds]
    /\ caller \in [Calls -> Users]
    /\ phase \in [Calls -> Phases]
    /\ seen \in [Calls -> Nat \cup {Null}]
    /\ target \in [Calls -> Calls]
    /\ awaited \subseteq Calls /\ counted \subseteq Calls
    /\ failures \in 0..MaxFailures

Tallied(k) == {c \in counted : kind[c] = k}

\* Neither number ever counts a comment or like that is not stored, or counts one
\* twice: however calls interleave, fail or lose their app, the number stored by
\* runTransaction (Blog.java:173-193, 237-257) is exactly the number of stored
\* entries whose transaction went through.
NumbersExact ==
    /\ Tallied("comment") \subseteq comments /\ nbComments = Cardinality(Tallied("comment"))
    /\ Tallied("like") \subseteq likes /\ nbLikes = Cardinality(Tallied("like"))

\* The consequence a reader sees: the numbers shown under a post (BlogsAdapter
\* .java:59-60) never exceed what opening it lists.
NumbersBehindLists ==
    /\ nbComments <= Cardinality(comments)
    /\ nbLikes <= Cardinality(likes)

\* An entry that is stored but not in the number is about to be counted by its
\* running app, or its transaction failed, or its app was lost between the two
\* requests of Blog.java:158 and 174 (222 and 238): nothing else opens the gap.
GapHasCause ==
    \A c \in (comments \cup likes) \ counted :
        \/ phase[c] \in {"written", "counting"} /\ c \in awaited
        \/ failures > 0 /\ phase[c] \in {"written", "counting", "aborted",
                                         "misreported", "crashed"}

\* What the listener is told is true of the database: onFailed (Blog.java:142,
\* 169, 233, 265) means nothing was stored, and a number handed over after a
\* commit means the entry is both stored and counted.
CallbacksTruthful ==
    \A c \in Calls :
        /\ phase[c] = "failed" => c \notin comments \cup likes
        /\ phase[c] = "answered" => c \in counted /\ c \in comments \cup likes

\* No two comments, and no two likes, are answered with the same number: the
\* increments of Blog.java:181 and 245 are serialised and none is lost.
NumbersSerial ==
    \A c, d \in Calls :
        /\ c # d
        /\ kind[c] = kind[d]
        /\ phase[c] = "answered" /\ phase[d] = "answered"
        => Answer(c) # Answer(d)

CommentList == INSTANCE CountedList WITH
    Key <- Calls, entries <- comments, tallied <- Tallied("comment"), number <- nbComments

LikeList == INSTANCE CountedList WITH
    Key <- Calls, entries <- likes, tallied <- Tallied("like"), number <- nbLikes

\* The comments of a post and their number are a counted append-only list:
\* nothing in Blog.java removes or uncounts a comment.
CommentsAreCountedList == CommentList!ListSpec

\* So are the likes: hasLike (Blog.java:337-338) asks for a child "uid" that
\* Like.toMap (Like.java:70-77) never writes, so unlike never removes a like
\* and never lowers the number.
LikesAreCountedList == LikeList!ListSpec

\* How far a like or unlike of u has come, as its app can tell.
Stage(u, c) ==
    IF kind[c] = "comment" \/ caller[c] # u \/ phase[c] = "free" THEN "free"
    ELSE IF phase[c] = "asking" /\ c \in awaited THEN "asking"
    ELSE IF phase[c] \in {"writing", "written", "refused", "counting"} THEN "counting"
    ELSE IF phase[c] \in {"counted", "aborted"} /\ c \in awaited THEN "counted"
    ELSE "done"

Wish(u, c) == IF Stage(u, c) = "free" THEN "like" ELSE kind[c]

\* The number on its way to the listener of c.
OnItsWay(u, c) ==
    IF Stage(u, c) # "counted" \/ seen[c] = Null THEN 0
    ELSE IF phase[c] = "counted" THEN Answer(c) ELSE seen[c]

LikeCallsOf(u) == INSTANCE LikeCalls WITH
    Call <- Calls, stored <- nbLikes,
    wish <- [c \in Calls |-> Wish(u, c)],
    stage <- [c \in Calls |-> Stage(u, c)],
    answer <- [c \in Calls |-> OnItsWay(u, c)],
    troubles <- failures

\* To each user the calls of like and unlike (Blog.java:203-319) are one step that
\* counts the like and an answer with the number it made: the hasLike query, the
\* write, every run of the transaction and the calls of all others do not show, and
\* only a failed transaction is answered with another number, one that was stored.
LikesAreCalls ==
    /\ \A u \in Users : LikeCallsOf(u)!CallInit
    /\ [][\A u \in Users : [LikeCallsOf(u)!CallNext]_(LikeCallsOf(u)!callVars)]_vars

\* Every call comes to an end, one of the callbacks or the end of its app:
\* no chain of Blog.java stops between two requests, whatever fails.
CallsEnd ==
    \A c \in Calls : phase[c] \in Moving ~> (phase[c] \in Ended \/ c \notin awaited)

\* The numbers catch up with the lists for good once the users stop, unless
\* something failed: then nothing ever repairs them.
NumbersSettle ==
    <>[](\/ /\ nbComments = Cardinality(comments)
            /\ nbLikes = Cardinality(likes)
         \/ failures > 0)
-----------------------------------------------------------------------------
(* The inductive strengthening the proofs of BlogPostProofs rest on.        *)

Stored == {"written", "counting", "counted", "aborted", "answered",
           "misreported", "crashed"}

\* How far a call has come tells what the database holds of it.
ChainOK ==
    \A c \in Calls :
        /\ c \in comments => kind[c] = "comment"
        /\ c \in likes => kind[c] = "like"
        /\ c \in comments \cup likes <=> phase[c] \in Stored
        /\ c \in counted => phase[c] \in Stored \ {"written", "counting"}
        /\ phase[c] \in {"counted", "answered"} => c \in counted
        /\ kind[c] = "unlike" => phase[c] \in {"asking", "cached", "failed"}

\* An app is lost, and a write or a transaction fails, only by a failure.
BlameOK ==
    \A c \in Calls :
        /\ phase[c] \in Moving /\ c \notin awaited => failures > 0
        /\ phase[c] \in {"refused", "aborted", "misreported", "crashed"} => failures > 0

\* The committed transactions of a counter ran on different values of it, all
\* below the present one.
SerialOK ==
    \A c \in counted :
        /\ seen[c] \in Nat
        /\ seen[c] < Counter(kind[c])
        /\ \A d \in counted : c # d /\ kind[c] = kind[d] => seen[c] # seen[d]

\* A running transaction has seen no value the counter is yet to take.
SeenOK ==
    \A c \in Calls :
        phase[c] = "counting" /\ seen[c] # Null => seen[c] <= Counter(kind[c])

\* Inductive invariant: stored, counted and answered calls are told apart by
\* their phases, and the numbers are the numbers of counted calls.
IInv == TypeOK /\ ChainOK /\ BlameOK /\ SerialOK /\ SeenOK /\ NumbersExact
=============================================================================
