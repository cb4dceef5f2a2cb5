------------------------------- MODULE PostList -------------------------------
(***************************************************************************)
(* The list of posts (PostListActivity) and of events (EventListActivity): *)
(* onStart attaches a child listener, every child it reports makes the     *)
(* screen read the whole node again, and every child of every such answer  *)
(* is added to the same list, which is turned round after each addition.   *)
(* The Firebase client learns of posts and serves reads on a thread of its *)
(* own; what it reports waits in a queue for the main thread.              *)
(***************************************************************************)
EXTENDS Integers, FiniteSets, SequencesExt

CONSTANTS
    MaxPosts,       \* bound on the posts stored
    MaxStarts,      \* bound on the times the screen comes to the foreground
    MaxFailures     \* bound on cancelled reads

ASSUME BoundsAssumption == MaxPosts \in Nat /\ MaxStarts \in Nat /\ MaxFailures \in Nat

VARIABLES
    posts,          \* the posts stored are 1..posts, in the order of their keys
    cache,          \* of these the client knows 1..cache (keepSynced)
    shown,          \* the screen is in the foreground
    listeners,      \* child listeners attached so far
    hearing,        \* how many of them were not cut off
    asked,          \* reads of the node asked for and not served
    events,         \* what waits for the main thread: Child, or the answer of a
                    \* read, which is the number of posts it holds
    next, upto,     \* the main thread adds the posts next..upto
    rows,           \* the list shown, a post per row
    dealt,          \* history: the posts added, in the order of their addition
    failures        \* failures so far

firebase == <<posts, cache, asked>>
loop == <<next, upto>>
vars == <<posts, cache, shown, listeners, hearing, asked, events, next, upto, rows, dealt, failures>>

\* An onChildAdded that waits.  No answer is empty: a child was reported before.
Child == 0

Init ==
    /\ posts \in 0..MaxPosts
    /\ cache \in {0, posts}
    /\ shown = FALSE
    /\ listeners = 0 /\ hearing = 0 /\ asked = 0
    /\ events = <<>>
    /\ next = 1 /\ upto = 0
    /\ rows = <<>> /\ dealt = <<>>
    /\ failures = 0

\* The queue with n reports of a child behind it.
Reported(n) == events \o [i \in 1..n |-> Child]

\* The main thread takes a new event only after the loop of the last.
Idle == next > upto

-----------------------------------------------------------------------------
(* The database and its client.                                            *)

\* Somebody publishes.
Publish ==
    /\ posts < MaxPosts
    /\ posts' = posts + 1
    /\ UNCHANGED <<cache, shown, listeners, hearing, asked, events, loop, rows, dealt, failures>>

\* Posts reach the client: each listener attached hears of each of them.
Learn ==
    /\ \E n \in (cache + 1)..posts :
          /\ cache' = n
          /\ events' = Reported((n - cache) * hearing)
    /\ UNCHANGED <<posts, shown, listeners, hearing, asked, loop, rows, dealt, failures>>

\* addListenerForSingleValueEvent: answered with all the client knows.
ReadServed ==
    /\ asked > 0
    /\ asked' = asked - 1
    /\ events' = Append(events, cache)
    /\ UNCHANGED <<posts, cache, shown, listeners, hearing, loop, rows, dealt, failures>>

\* The read is cancelled; onCancelled is empty.
ReadCancelled ==
    /\ asked > 0
    /\ failures < MaxFailures /\ failures' = failures + 1
    /\ asked' = asked - 1
    /\ UNCHANGED <<posts, cache, shown, listeners, hearing, events, loop, rows, dealt>>

\* The listeners of the node are cut off, all of them, and hear no more; their
\* onCancelled is empty, too.
ListenersCancelled ==
    /\ hearing > 0
    /\ failures < MaxFailures /\ failures' = failures + 1
    /\ hearing' = 0
    /\ UNCHANGED <<firebase, shown, listeners, events, loop, rows, dealt>>

-----------------------------------------------------------------------------
(* The main thread.                                                        *)

\* onStart: another child listener, which first hears of all posts known.
Start ==
    /\ ~shown /\ Idle
    /\ listeners < MaxStarts
    /\ shown' = TRUE
    /\ listeners' = listeners + 1 /\ hearing' = hearing + 1
    /\ events' = Reported(cache)
    /\ UNCHANGED <<firebase, loop, rows, dealt, failures>>

\* Another screen covers the list, which keeps its listeners and hears on.
Stop ==
    /\ shown /\ Idle
    /\ shown' = FALSE
    /\ UNCHANGED <<firebase, listeners, hearing, events, loop, rows, dealt, failures>>

\* Mutant: one read for all children that wait.
ChildAddedOnce ==
    /\ Idle /\ events # <<>> /\ Head(events) = Child
    /\ asked' = IF asked = 0 THEN 1 ELSE asked
    /\ events' = Tail(events)
    /\ UNCHANGED <<posts, cache, shown, listeners, hearing, loop, rows, dealt, failures>>

\* Mutant: nothing is read for a list that is covered.
ChildAddedInFront ==
    /\ Idle /\ events # <<>> /\ Head(events) = Child
    /\ asked' = IF shown THEN asked + 1 ELSE asked
    /\ events' = Tail(events)
    /\ UNCHANGED <<posts, cache, shown, listeners, hearing, loop, rows, dealt, failures>>

\* onChildAdded: the whole node is read, whatever the child.
ChildAdded ==
    /\ Idle /\ events # <<>> /\ Head(events) = Child
    /\ asked' = asked + 1
    /\ events' = Tail(events)
    /\ UNCHANGED <<posts, cache, shown, listeners, hearing, loop, rows, dealt, failures>>

\* Mutant: the loop stops before the last child.
DataChangeShort ==
    /\ Idle /\ events # <<>> /\ Head(events) # Child
    /\ next' = 1 /\ upto' = Head(events) - 1
    /\ events' = Tail(events)
    /\ UNCHANGED <<firebase, shown, listeners, hearing, rows, dealt, failures>>

\* Mutant: the loop begins before the first child.
DataChangeEarly ==
    /\ Idle /\ events # <<>> /\ Head(events) # Child
    /\ next' = 0 /\ upto' = Head(events)
    /\ events' = Tail(events)
    /\ UNCHANGED <<firebase, shown, listeners, hearing, rows, dealt, failures>>

\* onDataChange: the loop over the children of the answer begins.
DataChange ==
    /\ Idle /\ events # <<>> /\ Head(events) # Child
    /\ next' = 1 /\ upto' = Head(events)
    /\ events' = Tail(events)
    /\ UNCHANGED <<firebase, shown, listeners, hearing, rows, dealt, failures>>

\* Mutant: the list is not turned round.
RowAppended ==
    /\ ~Idle
    /\ rows' = Append(rows, next)
    /\ dealt' = Append(dealt, next)
    /\ next' = next + 1
    /\ UNCHANGED <<firebase, shown, listeners, hearing, events, upto, failures>>

\* One turn of the loop: the child is added, and then the list is reversed.
RowAdded ==
    /\ ~Idle
    /\ rows' = Reverse(Append(rows, next))
    /\ dealt' = Append(dealt, next)
    /\ next' = next + 1
    /\ UNCHANGED <<firebase, shown, listeners, hearing, events, upto, failures>>

ClientStep == Learn \/ ReadServed
ScreenStep == ChildAdded \/ DataChange \/ RowAdded
Next == Publish \/ ClientStep \/ ReadCancelled \/ ListenersCancelled \/ Start \/ Stop \/ ScreenStep

Spec == Init /\ [][Next]_vars

\* The client is connected and serves reads, the main thread runs; nobody has to
\* publish, and no screen has to be opened.
Fairness == WF_vars(Learn) /\ WF_vars(ReadServed) /\ WF_vars(ScreenStep)

FairSpec == Spec /\ Fairness
-----------------------------------------------------------------------------
(* What makes the list correct, and how far it is from the posts.          *)

\* The variables have their types, and nothing is known before it is stored.
TypeOK ==
    /\ posts \in 0..MaxPosts /\ cache \in 0..posts
    /\ shown \in BOOLEAN
    /\ listeners \in 0..MaxStarts /\ hearing \in 0..listeners /\ asked \in Nat
    /\ events \in Seq(0..cache)
    /\ upto \in 0..cache /\ next \in 1..(upto + 1)
    /\ rows \in Seq(1..cache) /\ dealt \in Seq(1..cache)
    /\ failures \in 0..MaxFailures

\* Adding and turning round (PostListActivity.java:181-182, EventListActivity.java
\* :149-150) deals the posts like cards: the last one added is the first row, the
\* one before it the last row, the one before that the second, and so on.
RowsDealt ==
    LET n == Len(dealt) IN
    /\ Len(rows) = n
    /\ \A i \in 1..n :
          rows[i] = IF 2 * i <= n + 1 THEN dealt[n + 2 - 2 * i] ELSE dealt[2 * i - n - 1]

\* The screen has all the answers it will get for the posts there are.
Settled == listeners > 0 /\ cache = posts /\ asked = 0 /\ events = <<>> /\ Idle

\* In the end the first row is the newest post, although every read of the node is
\* made for another child and adds all posts again: the last of the answers added
\* is never older than the last post reported.
NewestFirst ==
    Settled /\ failures = 0 /\ posts > 0 => rows # <<>> /\ rows[1] = posts

\* The rows that show p.
Copies(p) == {i \in DOMAIN rows : rows[i] = p}

\* How often a post is shown: every child reported to every listener adds it at most
\* once (lines 169-202), whatever is on its way and whatever failed; and once all is
\* in, once for certain if the child is the post itself or a later one.
CopiesPerPost ==
    /\ \A p \in 1..posts : Cardinality(Copies(p)) <= listeners * cache
    /\ Settled /\ failures = 0 =>
          \A p \in 1..posts : Cardinality(Copies(p)) >= listeners * (posts - p + 1)

\* A post published while a list is there comes to be shown on it (lines 169-202),
\* unless a read or the listeners are cancelled, of which nobody is told (lines
\* 195-197, 219-222).
PostsGetShown ==
    \A p \in 1..MaxPosts :
        (posts >= p /\ listeners > 0) ~> (p \in ToSet(rows) \/ failures > 0)
=============================================================================
