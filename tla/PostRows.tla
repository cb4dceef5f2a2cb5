------------------------------- MODULE PostRows -------------------------------
(***************************************************************************)
(* The rows of the list of posts (Data/BlogsAdapter.java): views bound to  *)
(* positions of a list of Blog objects, and bound again to others when     *)
(* they scroll.  Each binding asks hasLike for its heart, each tap on a    *)
(* heart starts like or unlike; the callbacks write to the view they were  *)
(* made with, whatever it shows by then.  Every read of the posts changes  *)
(* the list under the adapter and replaces the adapter.                    *)
(*                                                                         *)
(* A call is only as detailed as rows can tell: BlogPost has its chain.    *)
(***************************************************************************)
EXTENDS Integers

CONSTANTS
    Posts,          \* posts of the blog
    Positions,      \* rows of the list; a post may be in several (PostList)
    Holders,        \* view holders, fewer than the rows
    Calls,          \* taps on hearts
    Null,           \* no post, no position, no number
    MaxLikes,       \* bound on the likes of a post given elsewhere
    MaxAsks,        \* bound on the answers of hasLike a view waits for
    MaxFailures     \* bound on failed requests

ASSUME NullAssumption == Null \notin Posts \cup Positions \cup [of : Posts, value : Nat]
ASSUME SomeAssumption == Posts # {} /\ Holders # {}
ASSUME BoundsAssumption == MaxLikes \in Nat /\ MaxAsks \in Nat /\ MaxFailures \in Nat

VARIABLES
    likes,          \* likes[p]: the stored number of likes
    list,           \* list[i]: the Blog object at i, its post and its nbLikes
    position,       \* position[h]: the i that h's listeners captured, or Null
    shown,          \* shown[h]: the post whose title h shows, or Null
    number,         \* number[h]: the number beside the heart and its post, or Null
    tag,            \* tag[h]: the heart: "unset", "off", "on"
    asks,           \* asks[h]: answers of hasLike that h waits for
    phase,          \* phase[c]: how far call c has come
    kind,           \* kind[c]: "like" or "unlike"
    row,            \* row[c]: the view c was tapped on
    blog,           \* blog[c]: the Blog object it was called on
    told,           \* told[c]: the number its listener will be given
    attached,       \* calls whose view has not been dropped
    overtaken,      \* history: attached calls whose view was bound again under way
    failures        \* failures so far

view == <<position, shown, number, tag, asks>>
call == <<kind, row, blog, told>>
lives == <<attached, overtaken>>
vars == <<likes, list, view, phase, call, lives, failures>>

Phases == {"free", "asking", "counting", "counted", "done"}
UnderWay == {"asking", "counting", "counted"}
Tags == {"unset", "off", "on"}

\* A Blog object made of the node of p now.
Blog(p) == [post |-> p, nbLikes |-> likes[p]]

\* Mutant: listeners of the old views write to the new ones.
NewViewsHeard ==
    /\ position' = [h \in Holders |-> Null]
    /\ shown' = [h \in Holders |-> Null]
    /\ number' = [h \in Holders |-> Null]
    /\ tag' = [h \in Holders |-> "unset"]
    /\ asks' = [h \in Holders |-> 0]
    /\ UNCHANGED lives

\* Views that nothing was bound to.
NewViews ==
    /\ position' = [h \in Holders |-> Null]
    /\ shown' = [h \in Holders |-> Null]
    /\ number' = [h \in Holders |-> Null]
    /\ tag' = [h \in Holders |-> "unset"]
    /\ asks' = [h \in Holders |-> 0]
    /\ attached' = {} /\ overtaken' = {}

Init ==
    /\ likes = [p \in Posts |-> 0]
    /\ \E posts \in [Positions -> Posts] : list = [i \in Positions |-> Blog(posts[i])]
    /\ position = [h \in Holders |-> Null]
    /\ shown = [h \in Holders |-> Null]
    /\ number = [h \in Holders |-> Null]
    /\ tag = [h \in Holders |-> "unset"]
    /\ asks = [h \in Holders |-> 0]
    /\ phase = [c \in Calls |-> "free"]
    /\ kind = [c \in Calls |-> "like"]
    /\ row = [c \in Calls |-> CHOOSE h \in Holders : TRUE]
    /\ blog = [c \in Calls |-> Blog(CHOOSE p \in Posts : TRUE)]
    /\ told = [c \in Calls |-> 0]
    /\ attached = {} /\ overtaken = {}
    /\ failures = 0

Goto(c, p) == phase' = [phase EXCEPT ![c] = p]
Fail == failures < MaxFailures /\ failures' = failures + 1

-----------------------------------------------------------------------------
(* The list and its rows.                                                  *)

\* Mutant: the list is changed and the adapter left as it is.
ReadInPlace ==
    /\ list' \in [Positions -> {list[i] : i \in Positions} \cup {Blog(p) : p \in Posts}]
    /\ UNCHANGED <<likes, view, phase, call, lives, failures>>

\* The posts were read again: the list gets new Blog objects beside the old, in
\* another order, and a new adapter, whose setAdapter drops all views.
Read ==
    /\ list' \in [Positions -> {list[i] : i \in Positions} \cup {Blog(p) : p \in Posts}]
    /\ NewViews
    /\ UNCHANGED <<likes, phase, call, failures>>

\* The calls of h are under way while it is bound.
Overtake(h) ==
    overtaken' = overtaken \cup {c \in attached : row[c] = h /\ phase[c] \in UnderWay}

\* Mutant: a row that is bound again keeps its number.
BindHalf(h, i) ==
    /\ asks[h] < MaxAsks
    /\ \A g \in Holders \ {h} : position[g] # i
    /\ position' = [position EXCEPT ![h] = i]
    /\ shown' = [shown EXCEPT ![h] = list[i].post]
    /\ number' = [number EXCEPT ![h] = IF @ = Null
                     THEN [of |-> list[i].post, value |-> list[i].nbLikes] ELSE @]
    /\ asks' = [asks EXCEPT ![h] = @ + 1]
    /\ Overtake(h)
    /\ UNCHANGED <<likes, list, tag, phase, call, attached, failures>>

\* onBindViewHolder: title, number and listeners are those of position i; hasLike
\* is asked, and the heart stays as it was until the answer.
Bind(h, i) ==
    /\ asks[h] < MaxAsks
    /\ \A g \in Holders \ {h} : position[g] # i
    /\ position' = [position EXCEPT ![h] = i]
    /\ shown' = [shown EXCEPT ![h] = list[i].post]
    /\ number' = [number EXCEPT ![h] = [of |-> list[i].post, value |-> list[i].nbLikes]]
    /\ asks' = [asks EXCEPT ![h] = @ + 1]
    /\ Overtake(h)
    /\ UNCHANGED <<likes, list, tag, phase, call, attached, failures>>

\* hasLike answers a binding of h.  No like is ever found (BlogPost, LikesFound).
HeartAnswered(h) ==
    /\ asks[h] > 0
    /\ asks' = [asks EXCEPT ![h] = @ - 1]
    /\ tag' = [tag EXCEPT ![h] = "off"]
    /\ UNCHANGED <<likes, list, position, shown, number, phase, call, lives, failures>>

\* hasLike fails: a toast.
HeartFailed(h) ==
    /\ Fail
    /\ asks[h] > 0
    /\ asks' = [asks EXCEPT ![h] = @ - 1]
    /\ UNCHANGED <<likes, list, position, shown, number, tag, phase, call, lives>>

-----------------------------------------------------------------------------
(* Hearts tapped and the calls they start.                                 *)

\* Mutant: the tag is compared with the wrong drawable.
TapInverted(h, c) ==
    /\ position[h] # Null
    /\ tag[h] # "unset"
    /\ phase[c] = "free"
    /\ kind' = [kind EXCEPT ![c] = IF tag[h] = "off" THEN "unlike" ELSE "like"]
    /\ tag' = [tag EXCEPT ![h] = IF tag[h] = "off" THEN "on" ELSE "off"]
    /\ row' = [row EXCEPT ![c] = h]
    /\ blog' = [blog EXCEPT ![c] = list[position[h]]]
    /\ attached' = attached \cup {c}
    /\ Goto(c, "asking")
    /\ UNCHANGED <<likes, list, position, shown, number, asks, told, overtaken, failures>>

\* The heart changes at once, and like or unlike is called on the Blog object now
\* at the position captured.
Tap(h, c) ==
    /\ position[h] # Null
    /\ tag[h] # "unset"
    /\ phase[c] = "free"
    /\ kind' = [kind EXCEPT ![c] = IF tag[h] = "off" THEN "like" ELSE "unlike"]
    /\ tag' = [tag EXCEPT ![h] = IF tag[h] = "off" THEN "on" ELSE "off"]
    /\ row' = [row EXCEPT ![c] = h]
    /\ blog' = [blog EXCEPT ![c] = list[position[h]]]
    /\ attached' = attached \cup {c}
    /\ Goto(c, "asking")
    /\ UNCHANGED <<likes, list, position, shown, number, asks, told, overtaken, failures>>

\* Before hasLike answered a new view its heart has no tag: a tap throws, and the
\* app starts again with what it reads then.  What it had sent may still count.
TapThrows(h) ==
    /\ position[h] # Null
    /\ tag[h] = "unset"
    /\ NewViews
    /\ list' \in [Positions -> {Blog(p) : p \in Posts}]
    /\ phase' = [c \in Calls |-> IF phase[c] \in {"asking", "counted"} THEN "done"
                                 ELSE phase[c]]
    /\ UNCHANGED <<likes, call, failures>>

\* The listener of c writes n to its view, if that was not dropped.
Show(c, n) ==
    /\ number' = IF c \in attached
                 THEN [number EXCEPT ![row[c]] = [of |-> blog[c].post, value |-> n]]
                 ELSE number
    /\ UNCHANGED <<position, shown, tag, asks>>

\* hasLike answers the call: a like is written, an unlike ends with the number of
\* the Blog object.
Asked(c) ==
    /\ phase[c] = "asking"
    /\ IF kind[c] = "like" THEN Goto(c, "counting") /\ UNCHANGED view
                           ELSE Goto(c, "done") /\ Show(c, blog[c].nbLikes)
    /\ UNCHANGED <<likes, list, call, lives, failures>>

\* The like is stored and its transaction commits.
Counted(c) ==
    /\ phase[c] = "counting"
    /\ likes' = [likes EXCEPT ![blog[c].post] = @ + 1]
    /\ told' = [told EXCEPT ![c] = likes[blog[c].post] + 1]
    /\ Goto(c, "counted")
    /\ UNCHANGED <<list, view, kind, row, blog, lives, failures>>

\* The transaction fails, before or after its commit, and a number it has seen is
\* told instead.
Miscounted(c) ==
    /\ Fail
    /\ phase[c] \in {"counting", "counted"}
    /\ \E n \in 0..likes[blog[c].post] : told' = [told EXCEPT ![c] = n]
    /\ Goto(c, "counted")
    /\ UNCHANGED <<likes, list, view, kind, row, blog, lives>>

\* onLike.
Answered(c) ==
    /\ phase[c] = "counted"
    /\ Goto(c, "done")
    /\ Show(c, told[c])
    /\ UNCHANGED <<likes, list, call, lives, failures>>

\* onFailed: a toast, the heart stays switched.
Failed(c) ==
    /\ Fail
    /\ phase[c] \in {"asking", "counting"}
    /\ Goto(c, "done")
    /\ UNCHANGED <<likes, list, view, call, lives>>

\* Somebody likes p on another device.
LikedElsewhere(p) ==
    /\ likes[p] < MaxLikes
    /\ likes' = [likes EXCEPT ![p] = @ + 1]
    /\ UNCHANGED <<list, view, phase, call, lives, failures>>

RowStep(h) ==
    \/ \E i \in Positions : Bind(h, i)
    \/ HeartAnswered(h) \/ HeartFailed(h) \/ TapThrows(h)
    \/ \E c \in Calls : Tap(h, c)

CallStep(c) == Asked(c) \/ Counted(c) \/ Miscounted(c) \/ Answered(c) \/ Failed(c)

Next ==
    \/ Read
    \/ \E h \in Holders : RowStep(h)
    \/ \E c \in Calls : CallStep(c)
    \/ \E p \in Posts : LikedElsewhere(p)

Spec == Init /\ [][Next]_vars
-----------------------------------------------------------------------------
(* What makes the rows correct.                                            *)

\* The variables have their types; only a bound view has been tapped.
TypeOK ==
    /\ likes \in [Posts -> Nat]
    /\ list \in [Positions -> [post : Posts, nbLikes : Nat]]
    /\ position \in [Holders -> Positions \cup {Null}]
    /\ shown \in [Holders -> Posts \cup {Null}]
    /\ number \in [Holders -> [of : Posts, value : Nat] \cup {Null}]
    /\ tag \in [Holders -> Tags]
    /\ asks \in [Holders -> 0..MaxAsks]
    /\ phase \in [Calls -> Phases] /\ kind \in [Calls -> {"like", "unlike"}]
    /\ row \in [Calls -> Holders]
    /\ blog \in [Calls -> [post : Posts, nbLikes : Nat]]
    /\ told \in [Calls -> Nat]
    /\ overtaken \subseteq attached /\ attached \subseteq Calls
    /\ failures \in 0..MaxFailures
    /\ \A c \in attached : phase[c] # "free" /\ position[row[c]] # Null

\* A tap reaches the post whose title the row shows, although the listeners look it
\* up by position (blogs.get(i), BlogsAdapter.java:88, 103, 118) in a list that is
\* turned round with every post added: so does each call under way whose row was not
\* bound again since.
TapHitsShown ==
    /\ \A h \in Holders : position[h] # Null => shown[h] = list[position[h]].post
    /\ \A c \in attached \ overtaken :
          phase[c] \in UnderWay => blog[c].post = shown[row[c]]

\* The number beside a heart (lines 59, 106, 121) was true of the post it is of, and
\* it is of the post shown, unless a row was bound again with a call under way whose
\* answer came later.
RowNumberTrue ==
    \A h \in Holders : position[h] # Null =>
        /\ number[h].value <= likes[number[h].of]
        /\ \/ number[h].of = shown[h]
           \/ \E c \in overtaken :
                 row[c] = h /\ phase[c] = "done" /\ blog[c].post = number[h].of

\* While nothing fails, a red heart whose row waits for no hasLike was tapped for the
\* post shown: rows bound again keep the heart of another post (lines 65-75) only
\* until they are answered.
HeartMeansLike ==
    \A h \in Holders :
        tag[h] = "on" /\ asks[h] = 0 /\ failures = 0 =>
            \E c \in attached \ overtaken :
                row[c] = h /\ kind[c] = "like" /\ blog[c].post = shown[h]
=============================================================================
