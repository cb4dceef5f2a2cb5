--------------------------- MODULE PostDetailsProofs ---------------------------
(***************************************************************************)
(* Proofs about PostDetails, for any users, calls and failures.  What is   *)
(* proved of the post in BlogPostProofs is used through PostStep: every    *)
(* step of the screens is a step of the post, or none.                     *)
(***************************************************************************)
EXTENDS PostDetails, BlogPostProofs, SequenceTheorems

\* The values the apps keep were once the numbers of the post.
KeptOK ==
    /\ \A u \in Users : blog[u] # Null => blog[u] <= nbLikes
    /\ \A c \in awaited : phase[c] # "free" /\ blog[caller[c]] # Null
    /\ \A c \in Calls : /\ phase[c] = "free" => seen[c] = Null
                        /\ phase[c] = "asking" => kind[c] # "comment"
                        /\ seen[c] # Null => seen[c] <= Counter(kind[c])

\* A screen without a post shows and reads nothing; the calls on a screen were made.
ShapeOK ==
    /\ ScreenTypeOK
    /\ reads \in [Users -> Seq(Nat \cup {Null})]
    /\ \A u \in Users : IF screen[u] = "open" THEN shownComments[u] \in Nat
                                              ELSE reads[u] = <<>>
    /\ \A c \in onScreen : phase[c] # "free"

\* The last list asked for has at least the comments counted beside it.
ListCovers(u) ==
    IF reads[u] = <<>>
      THEN u \notin readFailed => title[u] \in Nat /\ title[u] >= shownComments[u]
      ELSE \/ reads[u][Len(reads[u])] = Null
           \/ reads[u][Len(reads[u])] >= shownComments[u]
ListsCover == \A u \in Users : screen[u] = "open" => ListCovers(u)

\* A like is stored, or on its way there as long as nothing fails.
Coming(c) ==
    /\ kind[c] = "like"
    /\ c \in likes \/ (c \in onScreen /\ phase[c] \in Moving \ {"refused"})
HeartsBacked ==
    failures = 0 =>
        \A u \in Users : heart[u] = "on" => \E c \in Calls : caller[c] = u /\ Coming(c)

ScreenIInv == IInv /\ KeptOK /\ ShapeOK /\ ShownNeverAhead /\ ListsCover /\ HeartsBacked
-----------------------------------------------------------------------------
(* The screens and the post.                                               *)

\* Every step of the screens is a step of the post, or leaves it alone.
LEMMA PostStep == [ScreenNext]_allVars => [Next]_vars
<1> SUFFICES ASSUME [ScreenNext]_allVars PROVE [Next]_vars
  OBVIOUS
<1>1. ASSUME NEW u \in Users, NoUser(u) \/ ReadCancelled(u) PROVE UNCHANGED vars
  BY <1>1 DEF NoUser, ReadCancelled
<1>2. ASSUME NEW u \in Users, ScreenStep(u) PROVE [Next]_vars
  <2>1. CASE Open(u) \/ Close(u) \/ ReadServed(u) \/ ReadDelivered(u) \/ HeartAnswered(u)
    BY <2>1 DEF Open, Close, ReadServed, ReadDelivered, HeartAnswered
  <2>2. CASE Loaded(u)
    BY <2>2 DEF Loaded, Next
  <2>3. CASE Throws(u) \/ Killed(u)
    BY <2>3 DEF Throws, Killed, Ends, Next
  <2> QED
    BY <1>2, <2>1, <2>2, <2>3 DEF ScreenStep
<1>3. ASSUME NEW u \in Users, NEW c \in Calls, TapStep(u, c) PROVE Next
  <2>1. UserStep(u, c)
    BY <1>3 DEF TapStep, SendTapped, HeartTapped, UserStep
  <2> QED
    BY <2>1 DEF Next
<1>4. ASSUME NEW c \in Calls, CallStep(c) PROVE Next
  <2>1. DatabaseStep(c) \/ AppStep(c) \/ FailureStep(c)
    BY <1>4 DEF CallStep, LikeResolved, Answered, Unseen, Misanswered, AppStep
  <2> QED
    BY <2>1 DEF Next
<1>5. CASE UNCHANGED allVars
  BY <1>5 DEF allVars
<1> QED
  BY <1>1, <1>2, <1>3, <1>4, <1>5, Zenon DEF ScreenNext

\* The invariant of the post is kept.
LEMMA PostInv == IInv /\ [ScreenNext]_allVars => IInv'
BY PostStep, StepTyped, StepSerial, StepSeen, StepNumbers DEF IInv

\* The numbers of the post never go down, and never exceed the lists.
LEMMA NumbersGrow ==
    ASSUME IInv, [Next]_vars
    PROVE  /\ nbComments \in Nat /\ nbLikes \in Nat
           /\ nbComments' >= nbComments /\ nbLikes' >= nbLikes
           /\ nbComments <= Cardinality(comments) /\ Cardinality(comments) \in Nat
<1>1. nbComments \in Nat /\ nbLikes \in Nat
  BY DEF IInv, TypeOK
<1>2. nbComments' >= nbComments /\ nbLikes' >= nbLikes
  <2>1. CASE UNCHANGED <<nbComments, nbLikes>>
    BY <1>1, <2>1
  <2>2. ASSUME NEW c \in Calls,
               nbComments' = IF kind[c] = "comment" THEN nbComments + 1 ELSE nbComments,
               nbLikes' = IF kind[c] = "like" THEN nbLikes + 1 ELSE nbLikes
        PROVE  nbComments' >= nbComments /\ nbLikes' >= nbLikes
    BY <1>1, <2>2
  <2> QED
    BY <2>1, <2>2, StepEffect
<1>3. nbComments <= Cardinality(comments) /\ Cardinality(comments) \in Nat
  <2>1. IsFiniteSet(comments)
    BY FS_Subset, CallsAssumption DEF IInv, TypeOK
  <2> QED
    BY <2>1, FS_Subset, FS_CardinalityType DEF IInv, NumbersExact
<1> QED
  BY <1>1, <1>2, <1>3

\* What the apps keep of the numbers stays behind them.
LEMMA KeptStep == IInv /\ KeptOK /\ [Next]_vars => KeptOK'
<1> SUFFICES ASSUME IInv, KeptOK, [Next]_vars PROVE KeptOK'
  OBVIOUS
<1>0. /\ nbComments \in Nat /\ nbLikes \in Nat
      /\ nbComments' \in Nat /\ nbLikes' \in Nat
      /\ nbComments' >= nbComments /\ nbLikes' >= nbLikes
  <2>1. TypeOK'
    BY StepTyped
  <2> QED
    BY <2>1, NumbersGrow DEF TypeOK
<1> USE NullAssumption DEF IInv, TypeOK, KeptOK, Kinds, Counter, server
<1>1. ASSUME NEW u \in Users, Load(u) \/ Kill(u) PROVE KeptOK'
  BY <1>0, <1>1 DEF Load, Kill, AppGone
<1>2. ASSUME NEW u \in Users, NEW c \in Calls, UserStep(u, c) PROVE KeptOK'
  <2>1. PICK k \in Kinds, p \in Phases \ {"free"} :
            Begin(u, c, k, p) /\ (p = "asking" => k # "comment")
    BY <1>2 DEF UserStep, Comment, Like, Unlike, Phases, Moving, Ended
  <2> QED
    BY <2>1 DEF Begin, Goto
<1>3. ASSUME NEW c \in Calls, DatabaseStep(c) PROVE KeptOK'
  BY <1>0, <1>3 DEF DatabaseStep, WriteApplied, TransactionCommitted, Goto
<1>4. ASSUME NEW c \in Calls, AppStep(c) PROVE KeptOK'
  <2>1. CASE HasLikeAnswered(c) \/ RefusalDelivered(c) \/ CallAnswered(c)
    BY <2>1 DEF HasLikeAnswered, RefusalDelivered, CallAnswered, Goto
  <2>2. CASE WriteAcknowledged(c) \/ TransactionRerun(c)
    BY <2>2 DEF WriteAcknowledged, TransactionRerun, Goto
  <2>3. ASSUME NEW hasSnapshot \in BOOLEAN, AbortDelivered(c, hasSnapshot) PROVE KeptOK'
    BY <2>3 DEF AbortDelivered, AppGone, Goto
  <2> QED
    BY <1>4, <2>1, <2>2, <2>3 DEF AppStep
<1>5. ASSUME NEW c \in Calls, FailureStep(c) PROVE KeptOK'
  BY <1>5 DEF FailureStep, HasLikeCancelled, WriteRefused, TransactionAborted, Goto
<1>6. CASE UNCHANGED vars
  BY <1>6 DEF vars
<1> QED
  BY <1>1, <1>2, <1>3, <1>4, <1>5, <1>6 DEF Next

\* A call that was made stays made, by whom and for what it was made.
LEMMA CallsKept ==
    ASSUME IInv, [Next]_vars, NEW c \in Calls, phase[c] # "free"
    PROVE  phase'[c] # "free" /\ caller'[c] = caller[c] /\ kind'[c] = kind[c]
<1> USE DEF IInv, TypeOK, server
<1>1. ASSUME NEW u \in Users, Load(u) \/ Kill(u) PROVE UNCHANGED <<phase, caller, kind>>
  BY <1>1 DEF Load, Kill
<1>2. ASSUME NEW u \in Users, NEW d \in Calls, UserStep(u, d)
      PROVE  phase'[c] # "free" /\ caller'[c] = caller[c] /\ kind'[c] = kind[c]
  BY <1>2 DEF UserStep, Comment, Like, Unlike, Begin, Goto
<1>3. ASSUME NEW d \in Calls, DatabaseStep(d)
      PROVE  phase'[c] # "free" /\ UNCHANGED <<caller, kind>>
  BY <1>3 DEF DatabaseStep, WriteApplied, TransactionCommitted, Goto
<1>4. ASSUME NEW d \in Calls, AppStep(d)
      PROVE  phase'[c] # "free" /\ UNCHANGED <<caller, kind>>
  BY <1>4 DEF AppStep, HasLikeAnswered, WriteAcknowledged, RefusalDelivered,
              TransactionRerun, CallAnswered, AbortDelivered, Goto
<1>5. ASSUME NEW d \in Calls, FailureStep(d)
      PROVE  phase'[c] # "free" /\ UNCHANGED <<caller, kind>>
  BY <1>5 DEF FailureStep, HasLikeCancelled, WriteRefused, TransactionAborted, Goto
<1>6. CASE UNCHANGED vars
  BY <1>6 DEF vars
<1> QED
  BY <1>1, <1>2, <1>3, <1>4, <1>5, <1>6 DEF Next

\* Failures are never taken back.
LEMMA FailuresKept == ASSUME TypeOK, [Next]_vars, failures' = 0 PROVE failures = 0
BY DEF TypeOK, Next, Load, Kill, Fail, UserStep, Comment, Like, Unlike, Begin, DatabaseStep,
       WriteApplied, TransactionCommitted, AppStep, HasLikeAnswered, WriteAcknowledged,
       RefusalDelivered, TransactionRerun, CallAnswered, AbortDelivered, FailureStep,
       HasLikeCancelled, WriteRefused, TransactionAborted, vars

\* Unless something fails, a like on its way stays so until it is stored.
LEMMA LikeComes ==
    ASSUME IInv, [Next]_vars, failures' = 0, NEW c \in Calls, kind[c] = "like",
           c \in likes \/ phase[c] \in Moving \ {"refused"}
    PROVE  c \in likes' \/ phase'[c] \in Moving \ {"refused"}
<1> USE MaxFailuresAssumption DEF IInv, TypeOK, server, Moving
<1>1. failures = 0 /\ phase[c] # "free"
  <2>1. failures = 0
    BY FailuresKept
  <2> QED
    BY <2>1 DEF ChainOK, Stored
<1>2. CASE c \in likes
  BY <1>2, StepLists
<1>3. CASE c \notin likes
  <2>1. phase[c] \in {"asking", "writing"}
    BY <1>3 DEF ChainOK, Stored, Kinds
  <2>2. ASSUME NEW u \in Users, Load(u) \/ Kill(u) PROVE UNCHANGED phase
    BY <2>2 DEF Load, Kill
  <2>3. ASSUME NEW u \in Users, NEW d \in Calls, UserStep(u, d) PROVE phase'[c] = phase[c]
    BY <1>1, <2>3 DEF UserStep, Comment, Like, Unlike, Begin, Goto
  <2>4. ASSUME NEW d \in Calls, DatabaseStep(d)
        PROVE  c \in likes' \/ phase'[c] = phase[c]
    BY <2>1, <2>4 DEF DatabaseStep, WriteApplied, TransactionCommitted, Goto
  <2>5. ASSUME NEW d \in Calls, AppStep(d) PROVE phase'[c] \in {phase[c], "writing"}
    BY <2>1, <2>5, NothingFound
       DEF AppStep, HasLikeAnswered, WriteAcknowledged, RefusalDelivered,
           TransactionRerun, CallAnswered, AbortDelivered, Goto
  <2>6. ASSUME NEW d \in Calls, FailureStep(d) PROVE FALSE
    BY <1>1, <2>6 DEF FailureStep, HasLikeCancelled, WriteRefused, TransactionAborted, Fail
  <2>7. CASE UNCHANGED vars
    BY <2>7 DEF vars
  <2> QED
    BY <2>1, <2>2, <2>3, <2>4, <2>5, <2>6, <2>7 DEF Next
<1> QED
  BY <1>2, <1>3

-----------------------------------------------------------------------------
(* What the views show.                                                    *)

\* One more read asked for.
LEMMA OneMore ==
    ASSUME NEW S, NEW s \in Seq(S), NEW x \in S
    PROVE  /\ Append(s, x) \in Seq(S) /\ Append(s, x) # <<>>
           /\ Append(s, x)[Len(Append(s, x))] = x
OBVIOUS

\* The oldest read leaves; if it was the only one, it was the last.
LEMMA OneLess ==
    ASSUME NEW S, NEW s \in Seq(S), s # <<>>
    PROVE  /\ Head(s) \in S /\ Tail(s) \in Seq(S) /\ s[Len(s)] \in S
           /\ Tail(s) = <<>> => s[Len(s)] = Head(s)
           /\ Tail(s) # <<>> => Tail(s)[Len(Tail(s))] = s[Len(s)]
<1>1. /\ Len(s) \in Nat /\ Len(s) > 0 /\ Head(s) = s[1]
      /\ Head(s) \in S /\ s[Len(s)] \in S
  OBVIOUS
<1>2. /\ Tail(s) \in Seq(S) /\ Len(Tail(s)) = Len(s) - 1
      /\ \A i \in 1..Len(Tail(s)) : Tail(s)[i] = s[i + 1]
  BY HeadTailProperties
<1>3. Tail(s) = <<>> <=> Len(Tail(s)) = 0
  BY <1>2, EmptySeq
<1> DEFINE t == Tail(s)
<1> HIDE DEF t
<1>4. t # <<>> => t[Len(t)] = s[Len(s)]
  BY <1>1, <1>2, <1>3 DEF t
<1> QED
  BY <1>1, <1>2, <1>3, <1>4 DEF t

\* A read served in its place.
LEMMA OneServed ==
    ASSUME NEW S, NEW s \in Seq(S), NEW i \in DOMAIN s, NEW x \in S
    PROVE  LET t == [s EXCEPT ![i] = x]
           IN  /\ t \in Seq(S) /\ t # <<>> /\ Len(t) = Len(s)
               /\ t[Len(t)] = IF i = Len(s) THEN x ELSE s[Len(s)]
OBVIOUS

\* The values a callback is handed were never ahead of the post.
LEMMA NumberHanded ==
    ASSUME IInv, KeptOK, NEW c \in Calls, NEW n,
           \/ HasLikeAnswered(c) /\ phase'[c] = "cached" /\ n = blog[caller[c]]
           \/ CallAnswered(c) /\ n = Answer(c)
           \/ \E hasSnapshot \in BOOLEAN :
                 AbortDelivered(c, hasSnapshot) /\ phase'[c] = "misreported" /\ n = seen[c]
    PROVE  /\ n \in Nat
           /\ IF kind[c] = "comment" THEN n <= nbComments ELSE n <= nbLikes
           /\ phase[c] # "free"
           /\ UNCHANGED <<server, kind, caller>>
<1> USE NullAssumption DEF IInv, TypeOK, KeptOK, Counter, Kinds
<1>1. CASE HasLikeAnswered(c) /\ phase'[c] = "cached" /\ n = blog[caller[c]]
  <2>1. c \in awaited /\ phase[c] = "asking" /\ UNCHANGED <<server, kind, caller>>
    BY <1>1 DEF HasLikeAnswered
  <2> QED
    BY <1>1, <2>1
<1>2. CASE CallAnswered(c) /\ n = Answer(c)
  <2>1. c \in counted /\ kind[c] # "unlike"
    BY <1>2 DEF CallAnswered, ChainOK
  <2>2. seen[c] \in Nat /\ seen[c] < Counter(kind[c])
    BY <2>1 DEF SerialOK
  <2>3. n = seen[c] + 1
    BY <1>2, <2>1, <2>2 DEF Answer, Recount
  <2> QED
    BY <1>2, <2>2, <2>3 DEF CallAnswered
<1>3. ASSUME NEW hasSnapshot \in BOOLEAN,
             AbortDelivered(c, hasSnapshot), phase'[c] = "misreported", n = seen[c]
      PROVE  /\ n \in Nat
             /\ IF kind[c] = "comment" THEN n <= nbComments ELSE n <= nbLikes
             /\ phase[c] # "free"
             /\ UNCHANGED <<server, kind, caller>>
  <2>1. seen[c] # Null
    BY <1>3 DEF AbortDelivered, Goto
  <2> QED
    BY <1>3, <2>1 DEF AbortDelivered
<1> QED
  BY <1>1, <1>2, <1>3

\* Every step keeps what the screens show true and covered.
LEMMA ScreenStepKeeps ==
    ScreenIInv /\ [ScreenNext]_allVars => ShapeOK' /\ ShownNeverAhead' /\ ListsCover'
<1> SUFFICES ASSUME ScreenIInv, [ScreenNext]_allVars
             PROVE  ShapeOK' /\ ShownNeverAhead' /\ ListsCover'
  OBVIOUS
<1> DEFINE Kept == ShapeOK' /\ ShownNeverAhead' /\ ListsCover'
<1>0. /\ IInv /\ [Next]_vars /\ TypeOK'
      /\ nbComments \in Nat /\ nbLikes \in Nat /\ nbComments' \in Nat /\ nbLikes' \in Nat
      /\ nbComments' >= nbComments /\ nbLikes' >= nbLikes
  <2>1. IInv /\ [Next]_vars
    BY PostStep DEF ScreenIInv
  <2>2. TypeOK'
    BY <2>1, StepTyped
  <2> QED
    BY <2>1, <2>2, NumbersGrow DEF TypeOK
<1>a. \A c \in Calls : phase[c] # "free" => phase'[c] # "free" /\ caller'[c] = caller[c]
  BY <1>0, CallsKept
<1> USE NullAssumption
<1>1. ASSUME NEW u \in Users, NEW s \in {"closed", "loading"}, Views(u, s) PROVE Kept
  <2>1. ShapeOK'
    BY <1>0, <1>a, <1>1 DEF ScreenIInv, ShapeOK, ScreenTypeOK, Views, CallsOf
  <2>2. ShownNeverAhead'
    BY <1>0, <1>1 DEF ScreenIInv, ShownNeverAhead, ShapeOK, ScreenTypeOK, Views
  <2>3. ListsCover'
    BY <1>1 DEF ScreenIInv, ListsCover, ListCovers, ShapeOK, ScreenTypeOK, Views
  <2> QED
    BY <2>1, <2>2, <2>3
<1>2. CASE UNCHANGED screenVars
  <2>1. ShapeOK'
    BY <1>0, <1>a, <1>2 DEF ScreenIInv, ShapeOK, ScreenTypeOK, screenVars
  <2>2. ShownNeverAhead'
    BY <1>0, <1>2 DEF ScreenIInv, ShownNeverAhead, ShapeOK, ScreenTypeOK, screenVars
  <2>3. ListsCover'
    BY <1>2 DEF ScreenIInv, ListsCover, ListCovers, screenVars
  <2> QED
    BY <2>1, <2>2, <2>3
<1>3. ASSUME NEW u \in Users, Loaded(u) PROVE Kept
  <2>1. /\ screen[u] = "loading" /\ reads[u] = <<>>
        /\ UNCHANGED <<server, kind, caller, phase>>
    BY <1>3 DEF ScreenIInv, ShapeOK, Loaded, Load
  <2>2. reads' = [reads EXCEPT ![u] = Append(reads[u], Null)]
    BY <1>3 DEF Loaded
  <2>3. /\ Append(reads[u], Null) \in Seq(Nat \cup {Null})
        /\ Append(reads[u], Null) # <<>>
        /\ Append(reads[u], Null)[Len(Append(reads[u], Null))] = Null
    BY OneMore DEF ScreenIInv, ShapeOK
  <2> DEFINE r == Append(reads[u], Null)
  <2> HIDE DEF r
  <2>4. ShapeOK'
    BY <1>0, <1>3, <2>1, <2>2, <2>3 DEF ScreenIInv, ShapeOK, ScreenTypeOK, Loaded, r
  <2>5. ShownNeverAhead'
    BY <1>0, <1>3, <2>1 DEF ScreenIInv, ShownNeverAhead, ShapeOK, ScreenTypeOK, Loaded, server
  <2>6. ListsCover'
    BY <1>3, <2>2, <2>3
       DEF ScreenIInv, ListsCover, ListCovers, ShapeOK, ScreenTypeOK, Loaded, r
  <2> QED
    BY <2>4, <2>5, <2>6
<1>4. ASSUME NEW u \in Users, NoUser(u) PROVE Kept
  <2>1. UNCHANGED <<server, kind, caller, phase>>
    BY <1>4 DEF NoUser, vars, server
  <2>2. ShapeOK'
    BY <1>0, <1>4, <2>1 DEF ScreenIInv, ShapeOK, ScreenTypeOK, NoUser
  <2>3. ShownNeverAhead'
    BY <1>4, <2>1 DEF ScreenIInv, ShownNeverAhead, NoUser, server
  <2>4. ListsCover'
    BY <1>4 DEF ScreenIInv, ListsCover, ListCovers, ShapeOK, ScreenTypeOK, NoUser
  <2> QED
    BY <2>2, <2>3, <2>4
<1>5. ASSUME NEW u \in Users, ReadServed(u) PROVE Kept
  <2>1. PICK i \in DOMAIN reads[u] :
            reads' = [reads EXCEPT ![u] = [reads[u] EXCEPT ![i] = Cardinality(comments)]]
    BY <1>5 DEF ReadServed, ScreenIInv, ShapeOK
  <2>2. nbComments <= Cardinality(comments) /\ Cardinality(comments) \in Nat
    BY <1>0, NumbersGrow
  <2> DEFINE r == [reads[u] EXCEPT ![i] = Cardinality(comments)]
  <2>3. /\ r \in Seq(Nat \cup {Null}) /\ r # <<>>
        /\ r[Len(r)] = IF i = Len(reads[u]) THEN Cardinality(comments)
                                            ELSE reads[u][Len(reads[u])]
    BY <2>2, OneServed DEF ScreenIInv, ShapeOK
  <2>4. reads[u] # <<>> /\ screen[u] = "open" /\ UNCHANGED <<server, kind, caller, phase>>
    BY <1>5, <2>1 DEF ReadServed, vars, server, ScreenIInv, ShapeOK
  <2> HIDE DEF r
  <2>5. reads' = [reads EXCEPT ![u] = r]
    BY <2>1 DEF r
  <2>6. ShapeOK'
    <3>1. UNCHANGED <<screen, heart, heartAsked, shownLikes, shownComments, title,
                      readFailed, onScreen>>
      BY <1>5 DEF ReadServed
    <3>2. ShapeOK
      BY DEF ScreenIInv
    <3>3. reads' \in [Users -> Seq(Nat \cup {Null})]
      BY <2>3, <2>5, <3>2 DEF ShapeOK
    <3>4. ScreenTypeOK'
      BY <1>0, <2>4, <3>1, <3>2, <3>3 DEF ShapeOK, ScreenTypeOK
    <3> QED
      BY <2>4, <2>5, <3>1, <3>2, <3>3, <3>4 DEF ShapeOK
  <2>7. ShownNeverAhead'
    BY <1>5, <2>4 DEF ScreenIInv, ShownNeverAhead, ReadServed, server
  <2>8. shownComments[u] \in Nat /\ shownComments[u] <= nbComments
    BY <2>4 DEF ScreenIInv, ShownNeverAhead, ShapeOK
  <2>9. ListsCover'
    <3>1. ListCovers(u)'
      BY <1>0, <1>5, <2>2, <2>3, <2>4, <2>5, <2>8
         DEF ScreenIInv, ListsCover, ListCovers, ReadServed, ShapeOK
    <3>2. ASSUME NEW w \in Users, w # u, screen'[w] = "open" PROVE ListCovers(w)'
      BY <1>5, <2>5, <3>2 DEF ScreenIInv, ListsCover, ListCovers, ReadServed, ShapeOK
    <3> QED
      BY <3>1, <3>2 DEF ListsCover
  <2> QED
    BY <2>6, <2>7, <2>9
<1>6. ASSUME NEW u \in Users, ReadDelivered(u) \/ ReadCancelled(u) PROVE Kept
  <2>1. /\ reads[u] # <<>> /\ reads' = [reads EXCEPT ![u] = Tail(reads[u])]
        /\ UNCHANGED <<vars, screen, heart, heartAsked, shownLikes, shownComments, onScreen>>
    BY <1>6 DEF ReadDelivered, ReadCancelled
  <2>2. /\ reads[u] \in Seq(Nat \cup {Null}) /\ screen[u] = "open"
        /\ shownComments[u] \in Nat
    BY <2>1 DEF ScreenIInv, ShapeOK
  <2>3. /\ Tail(reads[u]) \in Seq(Nat \cup {Null}) /\ Head(reads[u]) \in Nat \cup {Null}
        /\ Tail(reads[u]) = <<>> => reads[u][Len(reads[u])] = Head(reads[u])
        /\ Tail(reads[u]) # <<>> =>
              Tail(reads[u])[Len(Tail(reads[u]))] = reads[u][Len(reads[u])]
    BY <2>1, <2>2, OneLess
  <2> DEFINE r == Tail(reads[u])
             h == Head(reads[u])
  <2> HIDE DEF r, h
  <2>4. reads' = [reads EXCEPT ![u] = r] /\ UNCHANGED <<server, kind, caller, phase>>
    BY <2>1 DEF r, vars, server
  <2>5. title' \in [Users -> Nat \cup {Null}] /\ readFailed' \subseteq readFailed \cup {u}
    BY <1>6, <2>3 DEF ReadDelivered, ReadCancelled, ScreenIInv, ShapeOK, ScreenTypeOK
  <2>6. ShapeOK'
    <3>1. reads' \in [Users -> Seq(Nat \cup {Null})]
      BY <2>2, <2>3, <2>4 DEF ScreenIInv, ShapeOK, r
    <3>2. \A w \in Users : IF screen'[w] = "open" THEN shownComments'[w] \in Nat
                                                 ELSE reads'[w] = <<>>
      BY <2>1, <2>2, <2>4 DEF ScreenIInv, ShapeOK
    <3> QED
      BY <1>0, <2>1, <2>2, <2>4, <2>5, <3>1, <3>2 DEF ScreenIInv, ShapeOK, ScreenTypeOK
  <2>7. ShownNeverAhead'
    BY <2>1, <2>4 DEF ScreenIInv, ShownNeverAhead, server
  <2>8. ListsCover'
    <3>1. ListCovers(u)'
      <4>1. CASE r # <<>>
        BY <2>1, <2>2, <2>3, <2>4, <4>1 DEF ScreenIInv, ListsCover, ListCovers, ShapeOK, r
      <4>2. CASE r = <<>> /\ ReadCancelled(u)
        BY <2>1, <2>4, <4>2 DEF ReadCancelled, ScreenIInv, ListCovers, ShapeOK
      <4>3. CASE r = <<>> /\ ReadDelivered(u)
        <5>1. h \in Nat /\ title'[u] = h /\ reads[u][Len(reads[u])] = h
          BY <2>2, <2>3, <4>3 DEF ReadDelivered, r, h, ScreenIInv, ShapeOK, ScreenTypeOK
        <5>2. h >= shownComments[u]
          BY <2>1, <2>2, <5>1 DEF ScreenIInv, ListsCover, ListCovers
        <5> QED
          BY <2>1, <2>4, <4>3, <5>1, <5>2 DEF ListCovers, ScreenIInv, ShapeOK
      <4> QED
        BY <1>6, <4>1, <4>2, <4>3
    <3>2. ASSUME NEW w \in Users, w # u, screen'[w] = "open" PROVE ListCovers(w)'
      <4>1. reads'[w] = reads[w] /\ title'[w] = title[w] /\ shownComments'[w] = shownComments[w]
        BY <1>6, <2>1, <2>4, <3>2
           DEF ReadDelivered, ReadCancelled, ScreenIInv, ShapeOK, ScreenTypeOK
      <4>2. (w \in readFailed') = (w \in readFailed) /\ screen[w] = "open"
        BY <1>6, <2>1, <3>2 DEF ReadDelivered, ReadCancelled
      <4> QED
        BY <4>1, <4>2 DEF ScreenIInv, ListsCover, ListCovers
    <3> QED
      BY <3>1, <3>2 DEF ListsCover
  <2> QED
    BY <2>6, <2>7, <2>8
<1>7. ASSUME NEW u \in Users, HeartAnswered(u) PROVE Kept
  <2>1. UNCHANGED <<server, kind, caller, phase>>
    BY <1>7 DEF HeartAnswered, vars, server
  <2>2. ShapeOK'
    BY <1>0, <1>7, <2>1 DEF ScreenIInv, ShapeOK, ScreenTypeOK, HeartAnswered
  <2>3. ShownNeverAhead'
    BY <1>7, <2>1 DEF ScreenIInv, ShownNeverAhead, HeartAnswered, server
  <2>4. ListsCover'
    BY <1>7 DEF ScreenIInv, ListsCover, ListCovers, HeartAnswered
  <2> QED
    BY <2>2, <2>3, <2>4
<1>8. ASSUME NEW u \in Users, NEW c \in Calls, TapStep(u, c) PROVE Kept
  <2>1. PICK k \in Kinds, p \in Phases \ {"free"} : Begin(u, c, k, p)
    BY <1>8 DEF TapStep, SendTapped, HeartTapped, Comment, Like, Unlike, Kinds, Phases,
                Moving, Ended
  <2>2. /\ UNCHANGED <<screen, heartAsked, shownLikes, shownComments, title, reads, readFailed>>
        /\ heart' \in [Users -> {"unset", "off", "on"}]
        /\ onScreen' = onScreen \cup {c} /\ screen[u] = "open"
    BY <1>8 DEF TapStep, SendTapped, HeartTapped, ScreenIInv, ShapeOK, ScreenTypeOK
  <2>3. UNCHANGED server /\ caller'[c] = u /\ phase'[c] # "free"
    BY <2>1 DEF Begin, Goto, ScreenIInv, IInv, TypeOK
  <2>4. ShapeOK'
    BY <1>0, <1>a, <2>2, <2>3 DEF ScreenIInv, ShapeOK, ScreenTypeOK
  <2>5. ShownNeverAhead'
    BY <2>2, <2>3 DEF ScreenIInv, ShownNeverAhead, server
  <2>6. ListsCover'
    BY <2>2 DEF ScreenIInv, ListsCover, ListCovers
  <2> QED
    BY <2>4, <2>5, <2>6
<1>9. ASSUME NEW c \in Calls, NEW n,
             Show(c, n), n \in Nat,
             IF kind[c] = "comment" THEN n <= nbComments ELSE n <= nbLikes,
             phase[c] # "free", UNCHANGED <<server, kind, caller>>
      PROVE  Kept
  <2> DEFINE u == caller[c]
             r == Append(reads[u], Null)
  <2>1. u \in Users
    BY <1>0 DEF ScreenIInv, IInv, TypeOK
  <2>2. /\ r \in Seq(Nat \cup {Null}) /\ r # <<>> /\ r[Len(r)] = Null
    BY <2>1, OneMore DEF ScreenIInv, ShapeOK
  <2>3. IF kind[c] = "comment" /\ c \in onScreen
        THEN /\ shownComments' = [shownComments EXCEPT ![u] = n]
             /\ reads' = [reads EXCEPT ![u] = r]
        ELSE UNCHANGED <<shownComments, reads>>
    BY <1>9 DEF Show
  <2>4. c \in onScreen => screen[u] = "open"
    BY DEF ScreenIInv, ShapeOK, ScreenTypeOK
  <2> HIDE DEF u, r
  <2>5. IF kind[c] # "comment" /\ c \in onScreen
        THEN shownLikes' = [shownLikes EXCEPT ![u] = n]
        ELSE UNCHANGED shownLikes
    BY <1>9 DEF Show, u
  <2>6. UNCHANGED <<screen, heart, heartAsked, title, readFailed, onScreen>>
    BY <1>9 DEF Show
  <2>7. ShapeOK'
    <3>1. /\ reads' \in [Users -> Seq(Nat \cup {Null})]
          /\ shownLikes' \in [Users -> Nat \cup {Null}]
          /\ shownComments' \in [Users -> Nat \cup {Null}]
      <4>1. /\ shownLikes \in [Users -> Nat \cup {Null}]
            /\ shownComments \in [Users -> Nat \cup {Null}]
            /\ reads \in [Users -> Seq(Nat \cup {Null})]
        BY DEF ScreenIInv, ShapeOK, ScreenTypeOK
      <4>2. shownLikes' \in [Users -> Nat \cup {Null}]
        BY <1>9, <2>1, <2>5, <4>1
      <4>3. shownComments' \in [Users -> Nat \cup {Null}]
        BY <1>9, <2>1, <2>3, <4>1
      <4>4. reads' \in [Users -> Seq(Nat \cup {Null})]
        BY <2>1, <2>2, <2>3, <4>1
      <4> QED
        BY <4>2, <4>3, <4>4
    <3>2. \A w \in Users : IF screen'[w] = "open" THEN shownComments'[w] \in Nat
                                                 ELSE reads'[w] = <<>>
      BY <1>9, <2>1, <2>3, <2>4, <2>6 DEF ScreenIInv, ShapeOK, ScreenTypeOK
    <3>3. \A d \in onScreen' : phase'[d] # "free" /\ screen'[caller'[d]] = "open"
      BY <1>a, <1>9, <2>6 DEF ScreenIInv, ShapeOK, ScreenTypeOK
    <3> QED
      BY <1>0, <2>6, <3>1, <3>2, <3>3 DEF ScreenIInv, ShapeOK, ScreenTypeOK
  <2>8. ShownNeverAhead'
    <3>1. ShownNeverAhead /\ UNCHANGED <<nbLikes, nbComments>>
      BY <1>9 DEF ScreenIInv, server
    <3>2. /\ shownLikes \in [Users -> Nat \cup {Null}]
          /\ shownComments \in [Users -> Nat \cup {Null}]
      BY DEF ScreenIInv, ShapeOK, ScreenTypeOK
    <3>3. ASSUME NEW w \in Users, shownLikes'[w] # Null PROVE shownLikes'[w] <= nbLikes
      BY <1>9, <2>1, <2>5, <3>1, <3>2, <3>3 DEF ShownNeverAhead
    <3>4. ASSUME NEW w \in Users, shownComments'[w] # Null
          PROVE  shownComments'[w] <= nbComments
      BY <1>9, <2>1, <2>3, <3>1, <3>2, <3>4 DEF ShownNeverAhead
    <3> QED
      BY <3>1, <3>3, <3>4 DEF ShownNeverAhead
  <2>9. ListsCover'
    <3>1. ListsCover /\ reads \in [Users -> Seq(Nat \cup {Null})]
      BY DEF ScreenIInv, ShapeOK
    <3>2. shownComments \in [Users -> Nat \cup {Null}]
      BY DEF ScreenIInv, ShapeOK, ScreenTypeOK
    <3>3. CASE kind[c] = "comment" /\ c \in onScreen
      <4>1. reads'[u] = r
        BY <2>1, <2>3, <3>1, <3>3
      <4>2. ASSUME NEW w \in Users, w = u PROVE ListCovers(w)'
        BY <2>2, <4>1, <4>2 DEF ListCovers
      <4>3. ASSUME NEW w \in Users, w # u
            PROVE  reads'[w] = reads[w] /\ shownComments'[w] = shownComments[w]
        BY <2>3, <3>1, <3>2, <3>3, <4>3
      <4> QED
        BY <2>6, <3>1, <4>2, <4>3 DEF ListsCover, ListCovers
    <3>4. CASE ~(kind[c] = "comment" /\ c \in onScreen)
      BY <2>3, <2>6, <3>1, <3>4 DEF ListsCover, ListCovers
    <3> QED
      BY <3>3, <3>4
  <2> QED
    BY <2>7, <2>8, <2>9
<1>10. ASSUME NEW u \in Users, ScreenStep(u) PROVE Kept
  BY <1>1, <1>3, <1>5, <1>6, <1>7, <1>10, Zenon
     DEF ScreenStep, Open, Throws, Killed, Ends, Close
<1>11. ASSUME NEW c \in Calls, CallStep(c) PROVE Kept
  <2>1. CASE LikeResolved(c)
    <3>1. CASE phase'[c] = "cached"
      <4>1. HasLikeAnswered(c) /\ Show(c, blog[caller[c]])
        BY <2>1, <3>1 DEF LikeResolved
      <4> QED
        BY <1>0, <1>9, <3>1, <4>1, NumberHanded DEF ScreenIInv
    <3>2. CASE phase'[c] # "cached"
      BY <1>2, <2>1, <3>2 DEF LikeResolved
    <3> QED
      BY <3>1, <3>2
  <2>2. CASE Answered(c)
    BY <1>0, <1>9, <2>2, NumberHanded DEF Answered, ScreenIInv
  <2>3. CASE Unseen(c)
    BY <1>2, <2>3 DEF Unseen
  <2>4. ASSUME NEW hasSnapshot \in BOOLEAN, Misanswered(c, hasSnapshot) PROVE Kept
    <3>1. CASE phase'[c] = "misreported"
      <4>1. AbortDelivered(c, hasSnapshot) /\ Show(c, seen[c])
        BY <2>4, <3>1 DEF Misanswered
      <4> QED
        BY <1>0, <1>9, <3>1, <4>1, NumberHanded DEF ScreenIInv
    <3>2. CASE phase'[c] # "misreported"
      <4>1. Views(caller[c], "closed") /\ caller[c] \in Users
        BY <1>0, <2>4, <3>2 DEF Misanswered, IInv, TypeOK
      <4> QED
        BY <1>1, <4>1
    <3> QED
      BY <3>1, <3>2
  <2> QED
    BY <1>11, <2>1, <2>2, <2>3, <2>4 DEF CallStep
<1>12. CASE UNCHANGED allVars
  BY <1>2, <1>12 DEF allVars
<1> QED
  BY <1>4, <1>6, <1>8, <1>10, <1>11, <1>12, Zenon DEF ScreenNext

\* Every step keeps a like behind every red heart, or on its way.
LEMMA HeartStep == ScreenIInv /\ [ScreenNext]_allVars => HeartsBacked'
<1> SUFFICES ASSUME ScreenIInv, [ScreenNext]_allVars, failures' = 0,
                    NEW u \in Users, heart'[u] = "on"
             PROVE  \E c \in Calls : caller'[c] = u /\ Coming(c)'
  BY DEF HeartsBacked
<1> DEFINE Backed == \E c \in Calls : caller'[c] = u /\ Coming(c)'
<1>0. IInv /\ TypeOK /\ [Next]_vars /\ failures = 0
  <2>1. IInv /\ TypeOK /\ [Next]_vars
    BY PostStep DEF ScreenIInv, IInv
  <2> QED
    BY <2>1, FailuresKept
<1>1. ASSUME heart[u] = "on", \A c \in onScreen : caller[c] = u => c \in onScreen'
      PROVE  Backed
  <2>1. PICK c \in Calls : caller[c] = u /\ Coming(c)
    BY <1>0, <1>1 DEF ScreenIInv, HeartsBacked
  <2>2. /\ kind[c] = "like"
        /\ c \in likes \/ (c \in onScreen /\ phase[c] \in Moving \ {"refused"})
    BY <2>1 DEF Coming
  <2>3. phase[c] # "free"
    BY <1>0, <2>2 DEF IInv, ChainOK, Stored, Moving
  <2>4. caller'[c] = u /\ kind'[c] = "like"
    BY <1>0, <2>1, <2>2, <2>3, CallsKept
  <2>5. c \in likes => c \in likes'
    BY <1>0, StepLists
  <2>6. c \in likes' \/ phase'[c] \in Moving \ {"refused"}
    BY <1>0, <2>2, LikeComes
  <2>7. c \in likes' \/ c \in onScreen'
    BY <1>1, <2>1, <2>2, <2>5
  <2> QED
    BY <2>4, <2>6, <2>7 DEF Coming
<1>2. ASSUME NEW w \in Users, NEW s, Views(w, s) PROVE Backed
  <2>1. w # u /\ heart[u] = "on"
    BY <1>2 DEF Views, ScreenIInv, ShapeOK, ScreenTypeOK
  <2>2. \A c \in onScreen : caller[c] = u => c \in onScreen'
    BY <1>2, <2>1 DEF Views, CallsOf
  <2> QED
    BY <1>1, <2>1, <2>2
<1>3. CASE heart' = heart /\ onScreen \subseteq onScreen'
  BY <1>1, <1>3
<1>4. ASSUME NEW w \in Users, HeartAnswered(w) PROVE Backed
  <2>1. heart' = [heart EXCEPT ![w] = "off"] /\ onScreen' = onScreen
    BY <1>4, NothingFound DEF HeartAnswered
  <2>2. heart[u] = "on"
    BY <2>1 DEF ScreenIInv, ShapeOK, ScreenTypeOK
  <2> QED
    BY <1>1, <2>1, <2>2
<1>5. ASSUME NEW w \in Users, NEW c \in Calls, HeartTapped(w, c) PROVE Backed
  <2>1. onScreen' = onScreen \cup {c}
    BY <1>5 DEF HeartTapped
  <2>2. CASE heart[u] = "on"
    BY <1>1, <2>1, <2>2
  <2>3. CASE heart[u] # "on"
    <3>1. u = w /\ Like(u, c)
      BY <1>5, <2>3 DEF HeartTapped, ScreenIInv, ShapeOK, ScreenTypeOK
    <3>2. caller'[c] = u /\ kind'[c] = "like" /\ phase'[c] = "asking"
      BY <1>0, <3>1 DEF Like, Begin, Goto, TypeOK
    <3> QED
      BY <2>1, <3>2 DEF Coming, Moving
  <2> QED
    BY <2>2, <2>3
<1>6. ASSUME NEW w \in Users, ScreenStep(w) PROVE Backed
  BY <1>2, <1>3, <1>4, <1>6
     DEF ScreenStep, Open, Loaded, Throws, Killed, Ends, Close, ReadServed, ReadDelivered
<1>7. ASSUME NEW w \in Users, NEW c \in Calls, TapStep(w, c) PROVE Backed
  BY <1>3, <1>5, <1>7 DEF TapStep, SendTapped
<1>8. ASSUME NEW c \in Calls, CallStep(c) PROVE Backed
  <2>1. caller[c] \in Users
    BY <1>0 DEF TypeOK
  <2>2. CASE LikeResolved(c) \/ Answered(c) \/ Unseen(c)
    BY <1>3, <2>2 DEF LikeResolved, Answered, Unseen, Show, screenVars
  <2>3. ASSUME NEW hasSnapshot \in BOOLEAN, Misanswered(c, hasSnapshot) PROVE Backed
    BY <1>2, <1>3, <2>1, <2>3 DEF Misanswered, Show
  <2> QED
    BY <1>8, <2>2, <2>3 DEF CallStep
<1>9. ASSUME NEW w \in Users, NoUser(w) \/ ReadCancelled(w) PROVE Backed
  BY <1>3, <1>9 DEF NoUser, ReadCancelled
<1>10. CASE UNCHANGED allVars
  BY <1>3, <1>10 DEF allVars, screenVars
<1> QED
  BY <1>6, <1>7, <1>8, <1>9, <1>10, Zenon DEF ScreenNext

\* No screen is open, no call is made.
LEMMA ScreenInitIInv == ScreenInit => ScreenIInv
<1> SUFFICES ASSUME ScreenInit PROVE ScreenIInv
  OBVIOUS
<1>1. IInv /\ TypeOK
  BY InitIInv DEF ScreenInit, IInv
<1>2. KeptOK
  BY DEF ScreenInit, Init, KeptOK
<1>3. ShapeOK
  BY <1>1 DEF ScreenInit, ShapeOK, ScreenTypeOK
<1>4. ShownNeverAhead /\ ListsCover /\ HeartsBacked
  BY DEF ScreenInit, ShownNeverAhead, ListsCover, HeartsBacked
<1> QED
  BY <1>1, <1>2, <1>3, <1>4 DEF ScreenIInv
-----------------------------------------------------------------------------
\* The inductive invariant of the screens over the post.
THEOREM ScreenInductive == ScreenSpec => []ScreenIInv
<1>1. ScreenIInv /\ [ScreenNext]_allVars => ScreenIInv'
  BY PostInv, PostStep, KeptStep, ScreenStepKeeps, HeartStep DEF ScreenIInv
<1> QED
  BY <1>1, ScreenInitIInv, PTL DEF ScreenSpec

\* Leaving, reopening or losing a screen never disturbs a call: the screens are a
\* use of the post, and every theorem about the post holds under them.
THEOREM ScreensUsePost == ScreenSpec => Spec
<1>1. ScreenInit => Init
  BY DEF ScreenInit
<1> QED
  BY <1>1, PostStep, PTL DEF ScreenSpec, Spec

\* So the hearts of all screens together still make calls that count in one step.
THEOREM ScreensMakeCalls == ScreenSpec => LikesAreCalls
  BY ScreensUsePost, LikesImplementCalls, PTL

\* A closed screen shows and waits for nothing.
THEOREM ScreenTypeCorrect == ScreenSpec => []ScreenTypeOK
<1>1. ScreenIInv => ScreenTypeOK
  BY DEF ScreenIInv, ShapeOK
<1> QED
  BY <1>1, ScreenInductive, PTL

\* The numbers on a screen never exceed the stored ones, whatever failed or was late.
THEOREM ScreensNeverAhead == ScreenSpec => []ShownNeverAhead
<1>1. ScreenIInv => ShownNeverAhead
  BY DEF ScreenIInv
<1> QED
  BY <1>1, ScreenInductive, PTL

\* The title covers the count once all reads of the list are in.
THEOREM TitlesCoverCounts == ScreenSpec => []TitleCoversCount
<1>1. ScreenIInv => TitleCoversCount
  BY DEF ScreenIInv, ListsCover, ListCovers, TitleCoversCount
<1> QED
  BY <1>1, ScreenInductive, PTL

\* A red heart left alone means a like, as long as nothing fails.
THEOREM HeartsAreTrue == ScreenSpec => []HeartTrue
<1>1. ScreenIInv => HeartTrue
  BY DEF ScreenIInv, HeartsBacked, Coming, HeartTrue
<1> QED
  BY <1>1, ScreenInductive, PTL
=============================================================================
