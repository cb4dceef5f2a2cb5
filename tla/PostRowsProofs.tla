---------------------------- MODULE PostRowsProofs ----------------------------
(***************************************************************************)
(* Proofs about PostRows, for any posts, rows, views, taps and failures.   *)
(***************************************************************************)
EXTENDS PostRows, TLAPS

\* A bound view shows a post and a number, an unbound one has no heart and waits
\* for nothing.
ViewsOK ==
    \A h \in Holders :
        IF position[h] = Null
        THEN tag[h] = "unset" /\ asks[h] = 0
        ELSE shown[h] \in Posts /\ number[h] # Null

\* No number that may still be shown exceeds the stored one.
NumbersOK ==
    /\ \A i \in Positions : list[i].nbLikes <= likes[list[i].post]
    /\ \A c \in Calls : /\ blog[c].nbLikes <= likes[blog[c].post]
                        /\ phase[c] = "counted" => told[c] <= likes[blog[c].post]

IInv == TypeOK /\ ViewsOK /\ NumbersOK /\ TapHitsShown /\ RowNumberTrue /\ HeartMeansLike
-----------------------------------------------------------------------------
\* Before a row is bound there is nothing to show.
LEMMA InitIInv == Init => IInv
<1> SUFFICES ASSUME Init PROVE IInv
  OBVIOUS
<1> USE NullAssumption, SomeAssumption, BoundsAssumption
<1> DEFINE someHolder == CHOOSE h \in Holders : TRUE
           somePost == CHOOSE p \in Posts : TRUE
<1>0. /\ row = [c \in Calls |-> someHolder]
      /\ blog = [c \in Calls |-> Blog(somePost)]
  BY DEF Init
<1>1. someHolder \in Holders /\ somePost \in Posts
  OBVIOUS
<1> HIDE DEF someHolder, somePost
<1>2. PICK posts \in [Positions -> Posts] : list = [i \in Positions |-> Blog(posts[i])]
  BY Zenon DEF Init
<1>3. /\ likes = [p \in Posts |-> 0]
      /\ position = [h \in Holders |-> Null]
      /\ shown = [h \in Holders |-> Null]
      /\ number = [h \in Holders |-> Null]
      /\ tag = [h \in Holders |-> "unset"]
      /\ asks = [h \in Holders |-> 0]
      /\ phase = [c \in Calls |-> "free"]
      /\ kind = [c \in Calls |-> "like"]
      /\ told = [c \in Calls |-> 0]
      /\ attached = {} /\ overtaken = {}
      /\ failures = 0
  BY Zenon DEF Init
<1>4. \A p \in Posts : Blog(p) = [post |-> p, nbLikes |-> 0]
  BY <1>3 DEF Blog
<1>5. /\ \A i \in Positions : list[i] = [post |-> posts[i], nbLikes |-> 0]
      /\ \A c \in Calls : blog[c] = [post |-> somePost, nbLikes |-> 0]
  BY <1>0, <1>1, <1>2, <1>4
<1>6. TypeOK
  <2>1. blog \in [Calls -> [post : Posts, nbLikes : Nat]]
    BY <1>0, <1>1, <1>4
  <2>2. list \in [Positions -> [post : Posts, nbLikes : Nat]]
    BY <1>2, <1>4
  <2>3. row \in [Calls -> Holders] /\ likes \in [Posts -> Nat]
    BY <1>0, <1>1, <1>3
  <2>4. /\ position \in [Holders -> Positions \cup {Null}]
        /\ shown \in [Holders -> Posts \cup {Null}]
        /\ number \in [Holders -> [of : Posts, value : Nat] \cup {Null}]
    BY <1>3
  <2>5. /\ tag \in [Holders -> Tags] /\ asks \in [Holders -> 0..MaxAsks]
        /\ phase \in [Calls -> Phases] /\ kind \in [Calls -> {"like", "unlike"}]
        /\ told \in [Calls -> Nat]
    BY <1>3 DEF Tags, Phases
  <2> QED
    BY <1>3, <2>1, <2>2, <2>3, <2>4, <2>5 DEF TypeOK
<1>7. ViewsOK
  BY <1>3 DEF ViewsOK
<1>8. NumbersOK
  <2>1. ASSUME NEW i \in Positions PROVE list[i].nbLikes <= likes[list[i].post]
    <3>1. posts[i] \in Posts /\ list[i] = [post |-> posts[i], nbLikes |-> 0]
      BY <1>5
    <3> QED
      BY <1>3, <3>1
  <2>2. ASSUME NEW c \in Calls PROVE blog[c].nbLikes <= likes[blog[c].post]
    BY <1>1, <1>3, <1>5
  <2> QED
    BY <1>3, <2>1, <2>2 DEF NumbersOK
<1>9. TapHitsShown /\ RowNumberTrue /\ HeartMeansLike
  BY <1>3 DEF TapHitsShown, RowNumberTrue, HeartMeansLike
<1> QED
  BY <1>6, <1>7, <1>8, <1>9 DEF IInv

\* Lists read from the node have posts and numbers already stored.
LEMMA ListRead ==
    ASSUME TypeOK, NumbersOK,
           list' \in [Positions -> {list[i] : i \in Positions} \cup {Blog(p) : p \in Posts}]
    PROVE  /\ list' \in [Positions -> [post : Posts, nbLikes : Nat]]
           /\ \A i \in Positions : list'[i].nbLikes <= likes[list'[i].post]
<1> DEFINE Objects == {list[i] : i \in Positions} \cup {Blog(p) : p \in Posts}
<1>1. ASSUME NEW o \in Objects
      PROVE  o \in [post : Posts, nbLikes : Nat] /\ o.nbLikes <= likes[o.post]
  <2>1. CASE o \in {list[i] : i \in Positions}
    <3>1. PICK i \in Positions : o = list[i]
      BY <2>1
    <3> QED
      BY <3>1 DEF TypeOK, NumbersOK
  <2>2. CASE o \in {Blog(p) : p \in Posts}
    <3>1. PICK p \in Posts : o = Blog(p)
      BY <2>2
    <3>2. o = [post |-> p, nbLikes |-> likes[p]] /\ likes[p] \in Nat
      BY <3>1 DEF Blog, TypeOK
    <3> QED
      BY <3>2
  <2> QED
    BY <2>1, <2>2
<1>2. list' \in [Positions -> Objects]
  OBVIOUS
<1> HIDE DEF Objects
<1> QED
  BY <1>1, <1>2

\* Views dropped and a list read anew.
LEMMA ViewsDropped ==
    ASSUME IInv, NewViews,
           list' \in [Positions -> [post : Posts, nbLikes : Nat]],
           \A i \in Positions : list'[i].nbLikes <= likes[list'[i].post],
           UNCHANGED <<likes, call, failures>>,
           phase' \in [Calls -> Phases],
           \A c \in Calls : phase'[c] = "counted" => phase[c] = "counted"
    PROVE  IInv'
<1> USE NullAssumption, BoundsAssumption
<1>1. TypeOK'
  <2>1. /\ position' \in [Holders -> Positions \cup {Null}]
        /\ shown' \in [Holders -> Posts \cup {Null}]
        /\ number' \in [Holders -> [of : Posts, value : Nat] \cup {Null}]
        /\ tag' \in [Holders -> Tags] /\ asks' \in [Holders -> 0..MaxAsks]
    BY DEF NewViews, Tags
  <2>2. attached' = {} /\ overtaken' = {}
    BY DEF NewViews
  <2> QED
    BY <2>1, <2>2 DEF IInv, TypeOK, call
<1>2. ViewsOK'
  BY DEF NewViews, ViewsOK
<1>3. NumbersOK'
  BY DEF IInv, NumbersOK, call
<1>4. TapHitsShown' /\ RowNumberTrue' /\ HeartMeansLike'
  BY DEF NewViews, TapHitsShown, RowNumberTrue, HeartMeansLike
<1> QED
  BY <1>1, <1>2, <1>3, <1>4 DEF IInv

\* Numbers on rows stay true when likes only grow and calls that are done stay so.
LEMMA NumbersGrow ==
    ASSUME TypeOK, ViewsOK, RowNumberTrue,
           likes' \in [Posts -> Nat], \A q \in Posts : likes[q] <= likes'[q],
           UNCHANGED <<position, shown, number, row, blog, overtaken>>,
           \A c \in Calls : phase[c] = "done" => phase'[c] = "done"
    PROVE  RowNumberTrue'
<1> SUFFICES ASSUME NEW h \in Holders, position[h] # Null
             PROVE  /\ number[h].value <= likes'[number[h].of]
                    /\ \/ number[h].of = shown[h]
                       \/ \E c \in overtaken :
                             row[c] = h /\ phase'[c] = "done" /\ blog[c].post = number[h].of
  BY DEF RowNumberTrue
<1>1. number[h].of \in Posts /\ number[h].value \in Nat
  BY DEF TypeOK, ViewsOK
<1>2. number[h].value <= likes'[number[h].of]
  BY <1>1 DEF RowNumberTrue, TypeOK
<1> QED
  BY <1>2 DEF RowNumberTrue, TypeOK

\* A listener writes a number that is true of its post to its view.
LEMMA NumberShown ==
    ASSUME IInv, NEW c \in Calls, NEW n \in Nat, n <= likes[blog[c].post],
           phase[c] \in {"asking", "counted"},
           phase' = [phase EXCEPT ![c] = "done"], Show(c, n),
           UNCHANGED <<likes, list, kind, row, blog, told, attached, overtaken, failures>>
    PROVE  IInv'
<1> USE NullAssumption
<1>0. TypeOK /\ ViewsOK /\ NumbersOK /\ TapHitsShown /\ RowNumberTrue /\ HeartMeansLike
  BY DEF IInv
<1>1. /\ number' = IF c \in attached
                   THEN [number EXCEPT ![row[c]] = [of |-> blog[c].post, value |-> n]]
                   ELSE number
      /\ UNCHANGED <<position, shown, tag, asks>>
  BY DEF Show
<1>2. row[c] \in Holders /\ blog[c].post \in Posts
  BY <1>0 DEF TypeOK
<1>3. TypeOK'
  BY <1>0, <1>1, <1>2 DEF TypeOK, Phases
<1>4. ViewsOK'
  BY <1>0, <1>1, <1>2, <1>3 DEF ViewsOK, TypeOK
<1>5. NumbersOK'
  BY <1>0 DEF NumbersOK, TypeOK
<1>6. TapHitsShown' /\ HeartMeansLike'
  BY <1>0, <1>1 DEF TapHitsShown, HeartMeansLike, TypeOK, UnderWay
<1>7. RowNumberTrue'
  <2>1. CASE c \notin attached
    BY <1>0, <1>1, <2>1 DEF RowNumberTrue, TypeOK
  <2>2. CASE c \in attached
    <3>1. number'[row[c]] = [of |-> blog[c].post, value |-> n]
      BY <1>0, <1>1, <1>2, <2>2 DEF TypeOK
    <3>2. c \in overtaken \/ blog[c].post = shown[row[c]]
      BY <1>0, <2>2 DEF TapHitsShown, UnderWay
    <3>3. \A h \in Holders \ {row[c]} : number'[h] = number[h]
      BY <1>0, <1>1 DEF TypeOK
    <3>4. phase'[c] = "done" /\ \A d \in Calls : phase[d] = "done" => phase'[d] = "done"
      BY <1>0 DEF TypeOK
    <3> QED
      BY <1>0, <1>1, <3>1, <3>2, <3>3, <3>4 DEF RowNumberTrue, TypeOK
  <2> QED
    BY <2>1, <2>2
<1> QED
  BY <1>3, <1>4, <1>5, <1>6, <1>7 DEF IInv

\* Every step keeps the inductive invariant.
LEMMA StepIInv == IInv /\ [Next]_vars => IInv'
<1> SUFFICES ASSUME IInv, [Next]_vars PROVE IInv'
  OBVIOUS
<1> USE NullAssumption, BoundsAssumption
<1>0. TypeOK /\ ViewsOK /\ NumbersOK /\ TapHitsShown /\ RowNumberTrue /\ HeartMeansLike
  BY DEF IInv
<1>1. ASSUME Read PROVE IInv'
  <2>1. /\ list' \in [Positions -> {list[i] : i \in Positions} \cup {Blog(p) : p \in Posts}]
        /\ NewViews /\ UNCHANGED <<likes, phase, call, failures>>
    BY <1>1 DEF Read
  <2>2. phase' \in [Calls -> Phases]
    BY <1>0, <2>1 DEF TypeOK
  <2> QED
    BY <1>0, <2>1, <2>2, ListRead, ViewsDropped
<1>2. ASSUME NEW h \in Holders, NEW i \in Positions, Bind(h, i) PROVE IInv'
  <2>1. /\ position' = [position EXCEPT ![h] = i]
        /\ shown' = [shown EXCEPT ![h] = list[i].post]
        /\ number' = [number EXCEPT ![h] = [of |-> list[i].post, value |-> list[i].nbLikes]]
        /\ asks' = [asks EXCEPT ![h] = @ + 1] /\ asks[h] < MaxAsks
        /\ overtaken' = overtaken \cup
               {c \in attached : row[c] = h /\ phase[c] \in UnderWay}
        /\ UNCHANGED <<likes, list, tag, phase, kind, row, blog, told, attached, failures>>
    BY <1>2 DEF Bind, Overtake, call
  <2>2. /\ list[i].post \in Posts /\ list[i].nbLikes \in Nat /\ i # Null
        /\ list[i].nbLikes <= likes[list[i].post]
    BY <1>0 DEF TypeOK, NumbersOK
  <2>3. TypeOK'
    BY <1>0, <2>1, <2>2 DEF TypeOK
  <2>4. ViewsOK'
    BY <1>0, <2>1, <2>2, <2>3 DEF ViewsOK, TypeOK
  <2>5. NumbersOK'
    BY <1>0, <2>1 DEF NumbersOK
  <2>6. TapHitsShown'
    BY <1>0, <2>1, <2>2 DEF TapHitsShown, TypeOK
  <2>7. RowNumberTrue'
    BY <1>0, <2>1, <2>2 DEF RowNumberTrue, TypeOK
  <2>8. HeartMeansLike'
    BY <1>0, <2>1, <2>2 DEF HeartMeansLike, TypeOK, UnderWay
  <2> QED
    BY <2>3, <2>4, <2>5, <2>6, <2>7, <2>8 DEF IInv
<1>3. ASSUME NEW h \in Holders, HeartAnswered(h) PROVE IInv'
  <2>1. /\ asks[h] > 0 /\ asks' = [asks EXCEPT ![h] = @ - 1]
        /\ tag' = [tag EXCEPT ![h] = "off"]
        /\ UNCHANGED <<likes, list, position, shown, number, phase, kind, row, blog, told,
                       attached, overtaken, failures>>
    BY <1>3 DEF HeartAnswered, call, lives
  <2>2. position[h] # Null
    BY <1>0, <2>1 DEF ViewsOK, TypeOK
  <2>3. TypeOK'
    BY <1>0, <2>1 DEF TypeOK, Tags
  <2>4. ViewsOK'
    BY <1>0, <2>1, <2>2 DEF ViewsOK, TypeOK
  <2>5. HeartMeansLike'
    BY <1>0, <2>1 DEF HeartMeansLike, TypeOK
  <2> QED
    BY <1>0, <2>1, <2>3, <2>4, <2>5 DEF IInv, NumbersOK, TapHitsShown, RowNumberTrue
<1>4. ASSUME NEW h \in Holders, HeartFailed(h) PROVE IInv'
  <2>1. /\ asks[h] > 0 /\ asks' = [asks EXCEPT ![h] = @ - 1]
        /\ failures < MaxFailures /\ failures' = failures + 1
        /\ UNCHANGED <<likes, list, position, shown, number, tag, phase, kind, row, blog, told,
                       attached, overtaken>>
    BY <1>4 DEF HeartFailed, Fail, call, lives
  <2>2. position[h] # Null
    BY <1>0, <2>1 DEF ViewsOK, TypeOK
  <2>3. TypeOK' /\ failures' # 0
    BY <1>0, <2>1 DEF TypeOK
  <2>4. ViewsOK'
    BY <1>0, <2>1, <2>2 DEF ViewsOK, TypeOK
  <2> QED
    BY <1>0, <2>1, <2>3, <2>4
       DEF IInv, NumbersOK, TapHitsShown, RowNumberTrue, HeartMeansLike
<1>5. ASSUME NEW h \in Holders, TapThrows(h) PROVE IInv'
  <2>1. /\ list' \in [Positions -> {Blog(p) : p \in Posts}]
        /\ NewViews /\ UNCHANGED <<likes, call, failures>>
        /\ phase' = [c \in Calls |-> IF phase[c] \in {"asking", "counted"} THEN "done"
                                     ELSE phase[c]]
    BY <1>5 DEF TapThrows
  <2>2. list' \in [Positions -> {list[i] : i \in Positions} \cup {Blog(p) : p \in Posts}]
    BY <2>1
  <2>3. phase' \in [Calls -> Phases] /\ \A c \in Calls : phase'[c] # "counted"
    BY <1>0, <2>1 DEF TypeOK, Phases
  <2> QED
    BY <1>0, <2>1, <2>2, <2>3, ListRead, ViewsDropped
<1>6. ASSUME NEW h \in Holders, NEW c \in Calls, Tap(h, c) PROVE IInv'
  <2>1. /\ position[h] # Null /\ tag[h] # "unset" /\ phase[c] = "free"
        /\ kind' = [kind EXCEPT ![c] = IF tag[h] = "off" THEN "like" ELSE "unlike"]
        /\ tag' = [tag EXCEPT ![h] = IF tag[h] = "off" THEN "on" ELSE "off"]
        /\ row' = [row EXCEPT ![c] = h]
        /\ blog' = [blog EXCEPT ![c] = list[position[h]]]
        /\ attached' = attached \cup {c}
        /\ phase' = [phase EXCEPT ![c] = "asking"]
        /\ UNCHANGED <<likes, list, position, shown, number, asks, told, overtaken, failures>>
    BY <1>6 DEF Tap, Goto
  <2>2. /\ list[position[h]] \in [post : Posts, nbLikes : Nat]
        /\ list[position[h]].nbLikes <= likes[list[position[h]].post]
        /\ list[position[h]].post = shown[h]
        /\ c \notin attached
    BY <1>0, <2>1 DEF TypeOK, NumbersOK, TapHitsShown
  <2>3. TypeOK'
    BY <1>0, <2>1, <2>2 DEF TypeOK, Tags, Phases
  <2>4. ViewsOK'
    BY <1>0, <2>1 DEF ViewsOK, TypeOK
  <2>5. NumbersOK'
    BY <1>0, <2>1, <2>2 DEF NumbersOK, TypeOK
  <2>6. TapHitsShown'
    BY <1>0, <2>1, <2>2 DEF TapHitsShown, TypeOK
  <2>7. RowNumberTrue'
    BY <1>0, <2>1, <2>2 DEF RowNumberTrue, TypeOK
  <2>8. HeartMeansLike'
    BY <1>0, <2>1, <2>2 DEF HeartMeansLike, TypeOK, Tags
  <2> QED
    BY <2>3, <2>4, <2>5, <2>6, <2>7, <2>8 DEF IInv
<1>7. ASSUME NEW c \in Calls, Asked(c) PROVE IInv'
  <2>1. /\ phase[c] = "asking"
        /\ UNCHANGED <<likes, list, kind, row, blog, told, attached, overtaken, failures,
                       position, shown, tag, asks>>
        /\ \/ phase' = [phase EXCEPT ![c] = "counting"] /\ number' = number
           \/ phase' = [phase EXCEPT ![c] = "done"] /\ Show(c, blog[c].nbLikes)
    BY <1>7 DEF Asked, Show, Goto, view, call, lives
  <2>2. CASE phase' = [phase EXCEPT ![c] = "counting"] /\ number' = number
    BY <1>0, <2>1, <2>2 DEF IInv, TypeOK, Phases, ViewsOK, NumbersOK, TapHitsShown,
                            RowNumberTrue, HeartMeansLike, UnderWay
  <2>3. CASE phase' = [phase EXCEPT ![c] = "done"] /\ Show(c, blog[c].nbLikes)
    <3>1. blog[c].nbLikes \in Nat /\ blog[c].nbLikes <= likes[blog[c].post]
      BY <1>0 DEF TypeOK, NumbersOK
    <3> QED
      BY <2>1, <2>3, <3>1, NumberShown
  <2> QED
    BY <2>1, <2>2, <2>3
<1>8. ASSUME NEW c \in Calls, Counted(c) PROVE IInv'
  <2> DEFINE p == blog[c].post
  <2>1. /\ phase[c] = "counting"
        /\ likes' = [likes EXCEPT ![p] = @ + 1]
        /\ told' = [told EXCEPT ![c] = likes[p] + 1]
        /\ phase' = [phase EXCEPT ![c] = "counted"]
        /\ UNCHANGED <<list, position, shown, number, tag, asks, kind, row, blog,
                       attached, overtaken, failures>>
    BY <1>8 DEF Counted, Goto, view, lives
  <2>2. p \in Posts /\ likes[p] \in Nat
    BY <1>0 DEF TypeOK
  <2>3. likes' \in [Posts -> Nat] /\ \A q \in Posts : likes[q] <= likes'[q]
    BY <1>0, <2>1, <2>2 DEF TypeOK
  <2>4. TypeOK'
    BY <1>0, <2>1, <2>2, <2>3 DEF TypeOK, Phases
  <2>5. NumbersOK'
    <3>1. likes'[p] = likes[p] + 1 /\ told'[c] = likes[p] + 1
      BY <1>0, <2>1, <2>2 DEF TypeOK
    <3>2. \A d \in Calls \ {c} : told'[d] = told[d] /\ phase'[d] = phase[d]
      BY <1>0, <2>1 DEF TypeOK
    <3>3. ASSUME NEW i \in Positions PROVE list[i].nbLikes <= likes'[list[i].post]
      <4>1. list[i].post \in Posts /\ list[i].nbLikes \in Nat
        BY <1>0 DEF TypeOK
      <4> QED
        BY <1>0, <2>3, <4>1 DEF NumbersOK, TypeOK
    <3>4. ASSUME NEW d \in Calls
          PROVE  /\ blog[d].nbLikes <= likes'[blog[d].post]
                 /\ phase'[d] = "counted" => told'[d] <= likes'[blog[d].post]
      <4>1. blog[d].post \in Posts /\ blog[d].nbLikes \in Nat /\ told[d] \in Nat
        BY <1>0 DEF TypeOK
      <4>2. CASE d = c
        BY <1>0, <2>2, <2>3, <3>1, <4>1, <4>2 DEF NumbersOK, TypeOK
      <4>3. CASE d # c
        BY <1>0, <2>3, <3>2, <4>1, <4>3 DEF NumbersOK, TypeOK
      <4> QED
        BY <4>2, <4>3
    <3> QED
      BY <2>1, <3>3, <3>4 DEF NumbersOK
  <2>6. RowNumberTrue'
    BY <1>0, <2>1, <2>3, NumbersGrow
  <2> QED
    BY <1>0, <2>1, <2>4, <2>5, <2>6
       DEF IInv, ViewsOK, TapHitsShown, HeartMeansLike, TypeOK, UnderWay
<1>9. ASSUME NEW c \in Calls, Miscounted(c) PROVE IInv'
  <2>1. PICK n \in 0..likes[blog[c].post] : told' = [told EXCEPT ![c] = n]
    BY <1>9 DEF Miscounted
  <2>2. /\ phase[c] \in {"counting", "counted"}
        /\ phase' = [phase EXCEPT ![c] = "counted"]
        /\ failures < MaxFailures /\ failures' = failures + 1
        /\ UNCHANGED <<likes, list, position, shown, number, tag, asks, kind, row, blog,
                       attached, overtaken>>
    BY <1>9 DEF Miscounted, Goto, Fail, view, lives
  <2>3. likes[blog[c].post] \in Nat /\ n \in Nat /\ n <= likes[blog[c].post]
    BY <1>0, <2>1 DEF TypeOK
  <2>4. TypeOK' /\ failures' # 0
    BY <1>0, <2>1, <2>2, <2>3 DEF TypeOK, Phases
  <2>5. NumbersOK'
    BY <1>0, <2>1, <2>2, <2>3 DEF NumbersOK, TypeOK
  <2>6. RowNumberTrue' /\ TapHitsShown'
    BY <1>0, <2>2 DEF RowNumberTrue, TapHitsShown, TypeOK, UnderWay
  <2> QED
    BY <1>0, <2>2, <2>4, <2>5, <2>6 DEF IInv, ViewsOK, HeartMeansLike
<1>10. ASSUME NEW c \in Calls, Answered(c) PROVE IInv'
  <2>1. /\ phase[c] = "counted" /\ phase' = [phase EXCEPT ![c] = "done"]
        /\ Show(c, told[c])
        /\ UNCHANGED <<likes, list, kind, row, blog, told, attached, overtaken, failures>>
    BY <1>10 DEF Answered, Goto, call, lives
  <2>2. told[c] \in Nat /\ told[c] <= likes[blog[c].post]
    BY <1>0, <2>1 DEF TypeOK, NumbersOK
  <2> QED
    BY <2>1, <2>2, NumberShown
<1>11. ASSUME NEW c \in Calls, Failed(c) PROVE IInv'
  <2>1. /\ phase[c] \in {"asking", "counting"} /\ phase' = [phase EXCEPT ![c] = "done"]
        /\ failures < MaxFailures /\ failures' = failures + 1
        /\ UNCHANGED <<likes, list, position, shown, number, tag, asks, kind, row, blog, told,
                       attached, overtaken>>
    BY <1>11 DEF Failed, Goto, Fail, view, call, lives
  <2>2. TypeOK' /\ failures' # 0
    BY <1>0, <2>1 DEF TypeOK, Phases
  <2>3. NumbersOK' /\ RowNumberTrue' /\ TapHitsShown'
    BY <1>0, <2>1 DEF NumbersOK, RowNumberTrue, TapHitsShown, TypeOK, UnderWay
  <2> QED
    BY <1>0, <2>1, <2>2, <2>3 DEF IInv, ViewsOK, HeartMeansLike
<1>12. ASSUME NEW p \in Posts, LikedElsewhere(p) PROVE IInv'
  <2>1. /\ likes' = [likes EXCEPT ![p] = @ + 1]
        /\ UNCHANGED <<list, position, shown, number, tag, asks, phase, kind, row, blog, told,
                       attached, overtaken, failures>>
    BY <1>12 DEF LikedElsewhere, view, call, lives
  <2>2. likes' \in [Posts -> Nat] /\ \A q \in Posts : likes[q] <= likes'[q]
    BY <1>0, <2>1 DEF TypeOK
  <2>3. TypeOK'
    BY <1>0, <2>1, <2>2 DEF TypeOK
  <2>4. NumbersOK'
    <3>1. ASSUME NEW i \in Positions PROVE list[i].nbLikes <= likes'[list[i].post]
      <4>1. list[i].post \in Posts /\ list[i].nbLikes \in Nat
        BY <1>0 DEF TypeOK
      <4> QED
        BY <1>0, <2>2, <4>1 DEF NumbersOK, TypeOK
    <3>2. ASSUME NEW d \in Calls
          PROVE  /\ blog[d].nbLikes <= likes'[blog[d].post]
                 /\ phase[d] = "counted" => told[d] <= likes'[blog[d].post]
      <4>1. blog[d].post \in Posts /\ blog[d].nbLikes \in Nat /\ told[d] \in Nat
        BY <1>0 DEF TypeOK
      <4> QED
        BY <1>0, <2>2, <4>1 DEF NumbersOK, TypeOK
    <3> QED
      BY <2>1, <3>1, <3>2 DEF NumbersOK
  <2>5. RowNumberTrue'
    BY <1>0, <2>1, <2>2, NumbersGrow
  <2> QED
    BY <1>0, <2>1, <2>3, <2>4, <2>5
       DEF IInv, ViewsOK, TapHitsShown, HeartMeansLike
<1>13. ASSUME UNCHANGED vars PROVE IInv'
  BY <1>0, <1>13 DEF IInv, vars, view, call, lives, TypeOK, ViewsOK, NumbersOK,
                     TapHitsShown, RowNumberTrue, HeartMeansLike
<1> QED
  BY <1>1, <1>2, <1>3, <1>4, <1>5, <1>6, <1>7, <1>8, <1>9, <1>10, <1>11, <1>12, <1>13
     DEF Next, RowStep, CallStep
-----------------------------------------------------------------------------
(* What follows.                                                           *)

\* The inductive invariant of the rows, from which the rest follows.
THEOREM Inductive == Spec => []IInv
  BY InitIInv, StepIInv, PTL DEF Spec

\* The types of TypeOK: the listeners that still have a view have a bound one.
THEOREM TypeCorrect == Spec => []TypeOK
<1>1. IInv => TypeOK
  BY DEF IInv
<1> QED
  BY <1>1, Inductive, PTL

\* TapHitsShown: a tap reaches the post its row shows.
THEOREM TapsHitShown == Spec => []TapHitsShown
<1>1. IInv => TapHitsShown
  BY DEF IInv
<1> QED
  BY <1>1, Inductive, PTL

\* RowNumberTrue: numbers on rows are true, and of the post shown unless the row was
\* bound again with a call under way.
THEOREM RowNumbersTrue == Spec => []RowNumberTrue
<1>1. IInv => RowNumberTrue
  BY DEF IInv
<1> QED
  BY <1>1, Inductive, PTL

\* HeartMeansLike: red hearts were tapped for the post shown.
THEOREM HeartsMeanLikes == Spec => []HeartMeansLike
<1>1. IInv => HeartMeansLike
  BY DEF IInv
<1> QED
  BY <1>1, Inductive, PTL
-----------------------------------------------------------------------------
(* The calls of the rows are those of LikeCalls, which BlogPost implements. *)

\* A call made of post p.
On(p, c) == phase[c] # "free" /\ blog[c].post = p

\* What the rows know of a call, if it is one of p.
Stage(p, c) == IF On(p, c) THEN phase[c] ELSE "free"
Wish(p, c) == IF On(p, c) THEN kind[c] ELSE "like"
OnItsWay(p, c) == IF On(p, c) /\ phase[c] = "counted" THEN told[c] ELSE 0

RowCalls(p) == INSTANCE LikeCalls WITH
    Call <- Calls, stored <- likes[p],
    wish <- [c \in Calls |-> Wish(p, c)],
    stage <- [c \in Calls |-> Stage(p, c)],
    answer <- [c \in Calls |-> OnItsWay(p, c)],
    troubles <- failures

\* The calls the rows make of a post, and its number, are LikeCalls: PostRows takes
\* the three requests of Blog.like for one step, and may.
RowsAreCalls ==
    /\ \A p \in Posts : RowCalls(p)!CallInit
    /\ [][\A p \in Posts : [RowCalls(p)!CallNext]_(RowCalls(p)!callVars)]_vars

Stages(p) == [c \in Calls |-> Stage(p, c)]
Wishes(p) == [c \in Calls |-> Wish(p, c)]
Answers(p) == [c \in Calls |-> OnItsWay(p, c)]

\* A step that touches no call.
LEMMA CallsKept ==
    ASSUME NEW p \in Posts, UNCHANGED <<phase, kind, blog, told>>
    PROVE  /\ UNCHANGED <<likes[p], failures>> => UNCHANGED RowCalls(p)!callVars
           /\ likes'[p] = likes[p] /\ failures' = failures + 1 => RowCalls(p)!CallNext
           /\ likes'[p] = likes[p] + 1 /\ failures' = failures => RowCalls(p)!CallNext
<1>1. UNCHANGED <<Wishes(p), Stages(p), Answers(p)>>
  BY DEF Wishes, Stages, Answers, Wish, Stage, OnItsWay, On
<1> QED
  BY <1>1 DEF RowCalls!callVars, RowCalls!CallNext, RowCalls!Trouble, RowCalls!Elsewhere,
              Wishes, Stages, Answers

\* A call on its way moves on to s, and n is told when it is counted.
Moves(c, s, n) ==
    /\ phase[c] # "free"
    /\ phase' = [phase EXCEPT ![c] = s]
    /\ told' = [told EXCEPT ![c] = n]
    /\ UNCHANGED <<kind, blog>>

\* With it moves what the rows know of it.
LEMMA CallMoved ==
    ASSUME TypeOK, NEW p \in Posts, NEW c \in Calls, NEW s \in Phases \ {"free"}, NEW n,
           Moves(c, s, n)
    PROVE  /\ Wishes(p)' = Wishes(p)
           /\ On(p, c) =>
                /\ Stages(p)[c] = phase[c] /\ Wishes(p)[c] = kind[c]
                /\ Stages(p)' = [Stages(p) EXCEPT ![c] = s]
                /\ s = "counted" => Answers(p)' = [Answers(p) EXCEPT ![c] = n]
                /\ s # "counted" => Answers(p)' = [Answers(p) EXCEPT ![c] = 0]
           /\ ~On(p, c) => Stages(p)' = Stages(p) /\ Answers(p)' = Answers(p)
           /\ phase[c] # "counted" /\ s # "counted" => Answers(p)' = Answers(p)
<1>1. /\ phase'[c] = s /\ told'[c] = n
      /\ \A d \in Calls \ {c} : phase'[d] = phase[d] /\ told'[d] = told[d]
      /\ phase[c] # "free" /\ UNCHANGED <<kind, blog>>
  BY DEF TypeOK, Moves
<1>2. \A d \in Calls : On(p, d)' <=> On(p, d)
  BY <1>1 DEF On
<1>3. \A d \in Calls : Wish(p, d)' = Wish(p, d)
  BY <1>1, <1>2 DEF Wish
<1>4. \A d \in Calls \ {c} : Stage(p, d)' = Stage(p, d) /\ OnItsWay(p, d)' = OnItsWay(p, d)
  BY <1>1, <1>2 DEF Stage, OnItsWay
<1>5. On(p, c) => /\ Stage(p, c) = phase[c] /\ Wish(p, c) = kind[c]
                  /\ Stage(p, c)' = s
                  /\ OnItsWay(p, c)' = IF s = "counted" THEN n ELSE 0
  BY <1>1, <1>2 DEF Stage, Wish, OnItsWay
<1>6. ~On(p, c) => Stage(p, c)' = Stage(p, c) /\ OnItsWay(p, c)' = OnItsWay(p, c)
  BY <1>2 DEF Stage, OnItsWay
<1>7. phase[c] # "counted" => OnItsWay(p, c) = 0
  BY DEF OnItsWay
<1> QED
  BY <1>3, <1>4, <1>5, <1>6, <1>7 DEF Wishes, Stages, Answers

\* Every step is a step of LikeCalls of every post, or none.
LEMMA StepCalls ==
    ASSUME IInv, [Next]_vars, NEW p \in Posts
    PROVE  [RowCalls(p)!CallNext]_(RowCalls(p)!callVars)
<1> USE DEF IInv
<1>2. ASSUME NEW h \in Holders, HeartFailed(h) PROVE RowCalls(p)!CallNext
  BY <1>2, CallsKept DEF HeartFailed, Fail, call
<1>3. ASSUME NEW q \in Posts, LikedElsewhere(q)
      PROVE  [RowCalls(p)!CallNext]_(RowCalls(p)!callVars)
  <2>1. /\ UNCHANGED <<phase, kind, blog, told, failures>>
        /\ likes'[p] = IF p = q THEN likes[p] + 1 ELSE likes[p]
    BY <1>3 DEF LikedElsewhere, call, TypeOK
  <2> QED
    BY <2>1, CallsKept
<1>4. ASSUME NEW h \in Holders, TapThrows(h) PROVE RowCalls(p)!CallNext
  <2>1. /\ UNCHANGED <<likes, kind, blog, told, failures>>
        /\ phase' = [c \in Calls |-> IF phase[c] \in {"asking", "counted"} THEN "done"
                                     ELSE phase[c]]
    BY <1>4 DEF TapThrows, call
  <2>2. ASSUME NEW c \in Calls
        PROVE  /\ Wish(p, c)' = Wish(p, c)
               /\ Stage(p, c)' = IF Stage(p, c) \in {"asking", "counted"} THEN "done"
                                 ELSE Stage(p, c)
               /\ OnItsWay(p, c)' = 0
    <3>1. phase'[c] = IF phase[c] \in {"asking", "counted"} THEN "done" ELSE phase[c]
      BY <2>1
    <3>2. On(p, c)' <=> On(p, c)
      BY <2>1, <3>1 DEF On
    <3> QED
      BY <2>1, <3>1, <3>2 DEF Wish, Stage, OnItsWay
  <2>3. /\ Wishes(p)' = Wishes(p)
        /\ Stages(p)' = [c \in Calls |-> IF Stages(p)[c] \in {"asking", "counted"}
                                         THEN "done" ELSE Stages(p)[c]]
        /\ Answers(p)' = [c \in Calls |-> 0]
    BY <2>2 DEF Wishes, Stages, Answers
  <2> QED
    BY <2>1, <2>3 DEF RowCalls!CallNext, RowCalls!Gone, Wishes, Stages, Answers
<1>5. ASSUME NEW h \in Holders, NEW c \in Calls, Tap(h, c)
      PROVE  [RowCalls(p)!CallNext]_(RowCalls(p)!callVars)
  <2>1. /\ phase[c] = "free" /\ phase' = [phase EXCEPT ![c] = "asking"]
        /\ UNCHANGED <<likes, told, failures>>
        /\ kind'[c] \in {"like", "unlike"}
        /\ \A d \in Calls \ {c} : kind'[d] = kind[d] /\ blog'[d] = blog[d]
    BY <1>5 DEF Tap, Goto, TypeOK
  <2>2. /\ phase'[c] = "asking"
        /\ \A d \in Calls \ {c} : phase'[d] = phase[d]
    BY <2>1 DEF TypeOK
  <2>3. \A d \in Calls \ {c} : /\ Stage(p, d)' = Stage(p, d) /\ Wish(p, d)' = Wish(p, d)
                               /\ OnItsWay(p, d)' = OnItsWay(p, d)
    BY <2>1, <2>2 DEF Stage, Wish, OnItsWay, On
  <2>4. Stage(p, c) = "free" /\ Wish(p, c) = "like" /\ OnItsWay(p, c) = 0
    BY <2>1 DEF Stage, Wish, OnItsWay, On
  <2>5. OnItsWay(p, c)' = 0
    BY <2>2 DEF OnItsWay
  <2>6. CASE blog'[c].post = p
    <3> DEFINE k == kind'[c]
    <3>1. Stage(p, c)' = "asking" /\ Wish(p, c)' = k
      BY <2>2, <2>6 DEF Stage, Wish, On
    <3>2. k \in {"like", "unlike"}
      BY <2>1
    <3> HIDE DEF k
    <3>3. /\ Stages(p)[c] = "free"
          /\ Stages(p)' = [Stages(p) EXCEPT ![c] = "asking"]
          /\ Wishes(p)' = [Wishes(p) EXCEPT ![c] = k]
          /\ Answers(p)' = Answers(p)
      BY <2>3, <2>4, <2>5, <3>1 DEF Stages, Wishes, Answers
    <3>4. RowCalls(p)!Begin(c)
      BY <2>1, <3>2, <3>3 DEF RowCalls!Begin, RowCalls!Goto, Stages, Wishes, Answers
    <3> QED
      BY <3>4 DEF RowCalls!CallNext, RowCalls!CallStep
  <2>7. CASE blog'[c].post # p
    <3>1. Stage(p, c)' = "free" /\ Wish(p, c)' = "like"
      BY <2>7 DEF Stage, Wish, On
    <3>2. UNCHANGED <<Stages(p), Wishes(p), Answers(p)>>
      BY <2>3, <2>4, <2>5, <3>1 DEF Stages, Wishes, Answers
    <3> QED
      BY <2>1, <3>2 DEF RowCalls!callVars, Stages, Wishes, Answers
  <2> QED
    BY <2>6, <2>7
<1>6. ASSUME NEW c \in Calls, CallStep(c)
      PROVE  [RowCalls(p)!CallNext]_(RowCalls(p)!callVars)
  <2>0. RowCalls(p)!CallStep(c) => RowCalls(p)!CallNext
    BY DEF RowCalls!CallNext
  <2>1. CASE Asked(c)
    <3> DEFINE s == IF kind[c] = "like" THEN "counting" ELSE "done"
    <3>1. phase[c] = "asking" /\ Moves(c, s, told[c]) /\ UNCHANGED <<likes, failures>>
      BY <2>1 DEF Asked, Goto, Moves, call, TypeOK
    <3>2. s \in Phases \ {"free"} /\ s # "counted"
      BY DEF Phases
    <3> HIDE DEF s
    <3>3. CASE On(p, c)
      <4>1. /\ Stages(p)[c] = "asking" /\ Wishes(p)[c] = kind[c]
            /\ Wishes(p)' = Wishes(p)
            /\ Stages(p)' = [Stages(p) EXCEPT ![c] = s]
            /\ Answers(p)' = Answers(p)
        BY <3>1, <3>2, <3>3, CallMoved
      <4>2. RowCalls(p)!Asked(c)
        BY <3>1, <4>1 DEF RowCalls!Asked, RowCalls!Goto, Wishes, Stages, Answers, s
      <4> QED
        BY <2>0, <4>2 DEF RowCalls!CallStep
    <3>4. CASE ~On(p, c)
      <4>1. UNCHANGED <<Wishes(p), Stages(p), Answers(p)>>
        BY <3>1, <3>2, <3>4, CallMoved
      <4> QED
        BY <3>1, <4>1 DEF RowCalls!callVars, Wishes, Stages, Answers
    <3> QED
      BY <3>3, <3>4
  <2>2. CASE Counted(c)
    <3> DEFINE n == likes[blog[c].post] + 1
    <3>1. /\ phase[c] = "counting" /\ Moves(c, "counted", n) /\ UNCHANGED failures
          /\ likes' = [likes EXCEPT ![blog[c].post] = n]
      BY <2>2 DEF Counted, Goto, Moves
    <3>2. "counted" \in Phases \ {"free"}
      BY DEF Phases
    <3> HIDE DEF n
    <3>3. CASE On(p, c)
      <4>1. /\ Stages(p)[c] = "counting"
            /\ Wishes(p)' = Wishes(p)
            /\ Stages(p)' = [Stages(p) EXCEPT ![c] = "counted"]
            /\ Answers(p)' = [Answers(p) EXCEPT ![c] = n]
        BY <3>1, <3>2, <3>3, CallMoved
      <4>2. n = likes[p] + 1 /\ likes'[p] = n
        BY <3>1, <3>3 DEF On, n, TypeOK
      <4>3. RowCalls(p)!Counted(c)
        BY <3>1, <4>1, <4>2 DEF RowCalls!Counted, RowCalls!Goto, Wishes, Stages, Answers
      <4> QED
        BY <2>0, <4>3 DEF RowCalls!CallStep
    <3>4. CASE ~On(p, c)
      <4>1. UNCHANGED <<Wishes(p), Stages(p), Answers(p)>>
        BY <3>1, <3>2, <3>4, CallMoved
      <4>2. likes'[p] = likes[p]
        BY <3>1, <3>4 DEF On, TypeOK
      <4> QED
        BY <3>1, <4>1, <4>2 DEF RowCalls!callVars, Wishes, Stages, Answers
    <3> QED
      BY <3>3, <3>4
  <2>3. CASE Miscounted(c)
    <3>1. PICK n \in 0..likes[blog[c].post] : told' = [told EXCEPT ![c] = n]
      BY <2>3 DEF Miscounted
    <3>2. /\ phase[c] \in {"counting", "counted"} /\ Moves(c, "counted", n)
          /\ failures' = failures + 1 /\ UNCHANGED likes
      BY <2>3, <3>1 DEF Miscounted, Goto, Moves, Fail
    <3>3. "counted" \in Phases \ {"free"}
      BY DEF Phases
    <3>4. CASE On(p, c)
      <4>1. /\ Stages(p)[c] \in {"counting", "counted"}
            /\ Wishes(p)' = Wishes(p)
            /\ Stages(p)' = [Stages(p) EXCEPT ![c] = "counted"]
            /\ Answers(p)' = [Answers(p) EXCEPT ![c] = n]
        BY <3>2, <3>3, <3>4, CallMoved
      <4>2. n \in 0..likes[p]
        BY <3>4 DEF On
      <4>3. RowCalls(p)!Miscounted(c)
        BY <3>2, <4>1, <4>2 DEF RowCalls!Miscounted, RowCalls!Goto, Wishes, Stages, Answers
      <4> QED
        BY <2>0, <4>3 DEF RowCalls!CallStep
    <3>5. CASE ~On(p, c)
      <4>1. UNCHANGED <<Wishes(p), Stages(p), Answers(p)>>
        BY <3>2, <3>3, <3>5, CallMoved
      <4>2. RowCalls(p)!Trouble
        BY <3>2, <4>1 DEF RowCalls!Trouble, Wishes, Stages, Answers
      <4> QED
        BY <4>2 DEF RowCalls!CallNext
    <3> QED
      BY <3>4, <3>5
  <2>4. CASE Answered(c)
    <3>1. phase[c] = "counted" /\ Moves(c, "done", told[c]) /\ UNCHANGED <<likes, failures>>
      BY <2>4 DEF Answered, Goto, Moves, call, TypeOK
    <3>2. "done" \in Phases \ {"free"}
      BY DEF Phases
    <3>3. CASE On(p, c)
      <4>1. /\ Stages(p)[c] = "counted"
            /\ Wishes(p)' = Wishes(p)
            /\ Stages(p)' = [Stages(p) EXCEPT ![c] = "done"]
            /\ Answers(p)' = [Answers(p) EXCEPT ![c] = 0]
        BY <3>1, <3>2, <3>3, CallMoved
      <4>2. RowCalls(p)!Answered(c)
        BY <3>1, <4>1 DEF RowCalls!Answered, RowCalls!Goto, Wishes, Stages, Answers
      <4> QED
        BY <2>0, <4>2 DEF RowCalls!CallStep
    <3>4. CASE ~On(p, c)
      <4>1. UNCHANGED <<Wishes(p), Stages(p), Answers(p)>>
        BY <3>1, <3>2, <3>4, CallMoved
      <4> QED
        BY <3>1, <4>1 DEF RowCalls!callVars, Wishes, Stages, Answers
    <3> QED
      BY <3>3, <3>4
  <2>5. CASE Failed(c)
    <3>1. /\ phase[c] \in {"asking", "counting"} /\ Moves(c, "done", told[c])
          /\ failures' = failures + 1 /\ UNCHANGED likes
      BY <2>5 DEF Failed, Goto, Moves, Fail, call, TypeOK
    <3>2. "done" \in Phases \ {"free"}
      BY DEF Phases
    <3>3. CASE On(p, c)
      <4>1. /\ Stages(p)[c] \in {"asking", "counting"}
            /\ Wishes(p)' = Wishes(p)
            /\ Stages(p)' = [Stages(p) EXCEPT ![c] = "done"]
            /\ Answers(p)' = Answers(p)
        BY <3>1, <3>2, <3>3, CallMoved
      <4>2. failures' \in {failures, failures + 1} \ {0}
        BY <3>1, BoundsAssumption DEF TypeOK
      <4>3. RowCalls(p)!Failed(c)
        BY <3>1, <4>1, <4>2 DEF RowCalls!Failed, RowCalls!Goto, Wishes, Stages, Answers
      <4> QED
        BY <2>0, <4>3 DEF RowCalls!CallStep
    <3>4. CASE ~On(p, c)
      <4>1. UNCHANGED <<Wishes(p), Stages(p), Answers(p)>>
        BY <3>1, <3>2, <3>4, CallMoved
      <4>2. RowCalls(p)!Trouble
        BY <3>1, <4>1 DEF RowCalls!Trouble, Wishes, Stages, Answers
      <4> QED
        BY <4>2 DEF RowCalls!CallNext
    <3> QED
      BY <3>3, <3>4
  <2> QED
    BY <1>6, <2>1, <2>2, <2>3, <2>4, <2>5 DEF CallStep
<1>7. ASSUME UNCHANGED <<likes, phase, kind, blog, told, failures>>
      PROVE  [RowCalls(p)!CallNext]_(RowCalls(p)!callVars)
  BY <1>7, CallsKept
<1>8. CASE Read \/ UNCHANGED vars
  BY <1>7, <1>8 DEF Read, vars, call
<1>9. ASSUME NEW h \in Holders, RowStep(h)
      PROVE  [RowCalls(p)!CallNext]_(RowCalls(p)!callVars)
  <2>1. CASE (\E i \in Positions : Bind(h, i)) \/ HeartAnswered(h)
    BY <1>7, <2>1 DEF Bind, HeartAnswered, call
  <2> QED
    BY <1>2, <1>4, <1>5, <1>9, <2>1 DEF RowStep
<1> QED
  BY <1>3, <1>6, <1>8, <1>9 DEF Next

\* The rows make of every post the calls of LikeCalls, as its users do in BlogPost.
THEOREM RowsMakeCalls == Spec => RowsAreCalls
<1>1. Init => \A p \in Posts : RowCalls(p)!CallInit
  <2> SUFFICES ASSUME Init, NEW p \in Posts PROVE RowCalls(p)!CallInit
    OBVIOUS
  <2>1. /\ likes = [q \in Posts |-> 0] /\ failures = 0
        /\ phase = [c \in Calls |-> "free"]
    BY DEF Init
  <2>2. \A c \in Calls : Wish(p, c) = "like" /\ Stage(p, c) = "free" /\ OnItsWay(p, c) = 0
    BY <2>1 DEF Stage, Wish, OnItsWay, On
  <2> QED
    BY <2>1, <2>2 DEF RowCalls!CallInit
<1>2. IInv /\ [Next]_vars =>
        \A p \in Posts : [RowCalls(p)!CallNext]_(RowCalls(p)!callVars)
  BY StepCalls
<1> QED
  BY <1>1, <1>2, Inductive, PTL DEF Spec, RowsAreCalls
=============================================================================
