---------------------------- MODULE BlogPostProofs ----------------------------
(***************************************************************************)
(* Proofs about BlogPost for every set of users and calls and any number   *)
(* of failures.                                                            *)
(***************************************************************************)
EXTENDS BlogPost, FiniteSetTheorems, TLAPS

\* Adding one call to a finite set of counted calls raises its size by one.
LEMMA TallyOneMore ==
    ASSUME NEW S \in SUBSET Calls, NEW c \in Calls, c \notin S
    PROVE  /\ Cardinality(S) \in Nat
           /\ Cardinality(S \cup {c}) = Cardinality(S) + 1
  <1>1. IsFiniteSet(S)
    BY FS_Subset, CallsAssumption
  <1>2. QED
    BY <1>1, FS_CardinalityType, FS_AddElement

\* The post starts without comments, likes or calls.
LEMMA InitIInv == Init => IInv
  <1> SUFFICES ASSUME Init PROVE IInv
    OBVIOUS
  <1> USE DEF Init
  <1>1. TypeOK
    BY PostAuthorAssumption, MaxFailuresAssumption
       DEF TypeOK, Kinds, Phases
  <1>2. ChainOK
    BY DEF ChainOK, Stored
  <1>3. BlameOK
    BY DEF BlameOK, Moving
  <1>4. SerialOK
    BY DEF SerialOK
  <1>5. SeenOK
    BY DEF SeenOK
  <1>6. NumbersExact
    <2>1. Tallied("comment") = {} /\ Tallied("like") = {}
      BY DEF Tallied
    <2>2. QED
      BY <2>1, FS_EmptySet DEF NumbersExact
  <1>7. QED
    BY <1>1, <1>2, <1>3, <1>4, <1>5, <1>6 DEF IInv

\* A stored like has no child "uid", so hasLike finds none (Blog.java:337-338).
LEMMA NothingFound == LikesFound = {}
  BY DEF LikesFound, LikeFields

\* Every step keeps types and the agreement of phases and data.
LEMMA StepTyped == IInv /\ [Next]_vars => TypeOK' /\ ChainOK' /\ BlameOK'
  <1> SUFFICES ASSUME IInv, [Next]_vars
               PROVE  TypeOK' /\ ChainOK' /\ BlameOK'
    OBVIOUS
  <1> USE NullAssumption, MaxFailuresAssumption
      DEF IInv, TypeOK, ChainOK, BlameOK, Kinds, Phases, Moving, Ended, Stored, server
  <1>1. ASSUME NEW u \in Users, Load(u)
        PROVE  TypeOK' /\ ChainOK' /\ BlameOK'
    BY <1>1 DEF Load
  <1>2. ASSUME NEW u \in Users, Kill(u)
        PROVE  TypeOK' /\ ChainOK' /\ BlameOK'
    BY <1>2 DEF Kill, AppGone, Fail
  <1>3. ASSUME NEW u \in Users, NEW c \in Calls, UserStep(u, c)
        PROVE  TypeOK' /\ ChainOK' /\ BlameOK'
    <2>1. ASSUME NEW empty \in BOOLEAN, Comment(u, c, empty)
          PROVE  TypeOK' /\ ChainOK' /\ BlameOK'
      BY <2>1 DEF Comment, Begin, Goto
    <2>2. CASE Like(u, c)
      BY <2>2 DEF Like, Begin, Goto
    <2>3. CASE Unlike(u, c)
      BY <2>3 DEF Unlike, Begin, Goto
    <2>4. QED
      BY <1>3, <2>1, <2>2, <2>3 DEF UserStep
  <1>4. ASSUME NEW c \in Calls, DatabaseStep(c)
        PROVE  TypeOK' /\ ChainOK' /\ BlameOK'
    <2>1. CASE WriteApplied(c)
      BY <2>1 DEF WriteApplied, Goto
    <2>2. CASE TransactionCommitted(c)
      <3>1. kind[c] # "unlike" /\ c \notin counted /\ c \in comments \cup likes
        BY <2>2 DEF TransactionCommitted
      <3>2. nbComments' \in Nat /\ nbLikes' \in Nat
        BY <2>2, <3>1 DEF TransactionCommitted, Recount, Counter
      <3>3. QED
        BY <2>2, <3>1, <3>2 DEF TransactionCommitted, Goto
    <2>3. QED
      BY <1>4, <2>1, <2>2 DEF DatabaseStep
  <1>5. ASSUME NEW c \in Calls, AppStep(c)
        PROVE  TypeOK' /\ ChainOK' /\ BlameOK'
    <2>1. CASE HasLikeAnswered(c)
      BY <2>1, NothingFound DEF HasLikeAnswered, Goto
    <2>2. CASE WriteAcknowledged(c)
      BY <2>2 DEF WriteAcknowledged, Counter, Goto
    <2>3. CASE RefusalDelivered(c)
      BY <2>3 DEF RefusalDelivered, Goto
    <2>4. CASE TransactionRerun(c)
      BY <2>4 DEF TransactionRerun, Counter
    <2>5. CASE CallAnswered(c)
      BY <2>5 DEF CallAnswered, Goto
    <2>6. ASSUME NEW hasSnapshot \in BOOLEAN, AbortDelivered(c, hasSnapshot)
          PROVE  TypeOK' /\ ChainOK' /\ BlameOK'
      BY <2>6 DEF AbortDelivered, AppGone, Goto
    <2>7. QED
      BY <1>5, <2>1, <2>2, <2>3, <2>4, <2>5, <2>6 DEF AppStep
  <1>6. ASSUME NEW c \in Calls, FailureStep(c)
        PROVE  TypeOK' /\ ChainOK' /\ BlameOK'
    <2>1. CASE HasLikeCancelled(c)
      BY <2>1 DEF HasLikeCancelled, Goto, Fail
    <2>2. CASE WriteRefused(c)
      BY <2>2 DEF WriteRefused, Goto, Fail
    <2>3. CASE TransactionAborted(c)
      BY <2>3 DEF TransactionAborted, Goto, Fail
    <2>4. QED
      BY <1>6, <2>1, <2>2, <2>3 DEF FailureStep
  <1>7. CASE UNCHANGED vars
    BY <1>7 DEF vars
  <1>8. QED
    BY <1>1, <1>2, <1>3, <1>4, <1>5, <1>6, <1>7 DEF Next

\* The counter moves only when a transaction commits, and then to one more than
\* the value the transaction ran on, which is the present value; a committed
\* call is not called or counted again.
LEMMA StepEffect ==
    ASSUME IInv, [Next]_vars
    PROVE  \/ /\ UNCHANGED <<nbComments, nbLikes, counted>>
              /\ \A c \in counted : kind'[c] = kind[c] /\ seen'[c] = seen[c]
           \/ \E c \in Calls \ counted :
                 /\ kind[c] \in {"comment", "like"}
                 /\ c \in comments \cup likes
                 /\ seen[c] = Counter(kind[c])
                 /\ counted' = counted \cup {c}
                 /\ nbComments' = IF kind[c] = "comment" THEN nbComments + 1 ELSE nbComments
                 /\ nbLikes' = IF kind[c] = "like" THEN nbLikes + 1 ELSE nbLikes
                 /\ UNCHANGED <<kind, seen, comments, likes>>
  <1> DEFINE Still == /\ UNCHANGED <<nbComments, nbLikes, counted>>
                      /\ \A c \in counted : kind'[c] = kind[c] /\ seen'[c] = seen[c]
             Commit(c) == /\ kind[c] \in {"comment", "like"}
                          /\ c \in comments \cup likes
                          /\ seen[c] = Counter(kind[c])
                          /\ counted' = counted \cup {c}
                          /\ nbComments' = IF kind[c] = "comment" THEN nbComments + 1 ELSE nbComments
                          /\ nbLikes' = IF kind[c] = "like" THEN nbLikes + 1 ELSE nbLikes
                          /\ UNCHANGED <<kind, seen, comments, likes>>
  <1> SUFFICES Still \/ \E c \in Calls \ counted : Commit(c)
    OBVIOUS
  <1> USE DEF IInv, TypeOK, ChainOK, Stored, server
  <1>1. ASSUME NEW u \in Users, Load(u) \/ Kill(u) PROVE Still
    BY <1>1 DEF Load, Kill, AppGone
  <1>2. ASSUME NEW u \in Users, NEW c \in Calls, UserStep(u, c) PROVE Still
    BY <1>2 DEF UserStep, Comment, Like, Unlike, Begin
  <1>3. ASSUME NEW c \in Calls, WriteApplied(c) PROVE Still
    BY <1>3 DEF WriteApplied
  <1>4. ASSUME NEW c \in Calls, TransactionCommitted(c)
        PROVE  c \notin counted /\ Commit(c)
    <2>1. c \notin counted /\ c \in comments \cup likes
      BY <1>4 DEF TransactionCommitted
    <2>2. kind[c] \in {"comment", "like"}
      BY <1>4 DEF TransactionCommitted, Kinds
    <2>3. nbComments' = IF kind[c] = "comment" THEN nbComments + 1 ELSE nbComments
      BY <1>4, <2>2, NullAssumption DEF TransactionCommitted, Recount, Counter
    <2>4. nbLikes' = IF kind[c] = "like" THEN nbLikes + 1 ELSE nbLikes
      BY <1>4, <2>2, NullAssumption DEF TransactionCommitted, Recount, Counter
    <2>5. QED
      BY <1>4, <2>1, <2>2, <2>3, <2>4 DEF TransactionCommitted
  <1>5. ASSUME NEW c \in Calls, AppStep(c) PROVE Still
    BY <1>5 DEF AppStep, HasLikeAnswered, WriteAcknowledged, RefusalDelivered,
                TransactionRerun, CallAnswered, AbortDelivered, AppGone
  <1>6. ASSUME NEW c \in Calls, FailureStep(c) PROVE Still
    BY <1>6 DEF FailureStep, HasLikeCancelled, WriteRefused, TransactionAborted
  <1>7. CASE UNCHANGED vars
    BY <1>7 DEF vars
  <1>8. QED
    BY <1>1, <1>2, <1>3, <1>4, <1>5, <1>6, <1>7 DEF Next, DatabaseStep

\* Committed transactions stay told apart by the value they ran on.
LEMMA StepSerial == IInv /\ [Next]_vars => SerialOK'
  <1> SUFFICES ASSUME IInv, [Next]_vars PROVE SerialOK'
    OBVIOUS
  <1> USE DEF IInv, TypeOK, SerialOK, Counter
  <1>1. CASE /\ UNCHANGED <<nbComments, nbLikes, counted>>
             /\ \A c \in counted : kind'[c] = kind[c] /\ seen'[c] = seen[c]
    BY <1>1
  <1>2. ASSUME NEW c \in Calls \ counted,
               kind[c] \in {"comment", "like"},
               seen[c] = Counter(kind[c]),
               counted' = counted \cup {c},
               nbComments' = IF kind[c] = "comment" THEN nbComments + 1 ELSE nbComments,
               nbLikes' = IF kind[c] = "like" THEN nbLikes + 1 ELSE nbLikes,
               UNCHANGED <<kind, seen>>
        PROVE  SerialOK'
    <2>0. \A d \in counted : kind[d] \in {"comment", "like"}
      BY DEF ChainOK, Kinds
    <2>1. \A d \in counted' : seen'[d] \in Nat /\ seen'[d] < Counter(kind[d])'
      BY <1>2, <2>0
    <2>2. \A d, e \in counted' : d # e /\ kind'[d] = kind'[e] => seen'[d] # seen'[e]
      BY <1>2
    <2>3. QED
      BY <2>1, <2>2
  <1>3. QED
    BY <1>1, <1>2, StepEffect

\* The numbers only grow.
LEMMA StepGrows ==
    ASSUME IInv, [Next]_vars
    PROVE  nbComments <= nbComments' /\ nbLikes <= nbLikes'
  <1>1. nbComments \in Nat /\ nbLikes \in Nat
    BY DEF IInv, TypeOK
  <1>2. QED
    BY <1>1, StepEffect

\* A running transaction has still seen no value to come.
LEMMA StepSeen == IInv /\ [Next]_vars => SeenOK'
  <1> SUFFICES ASSUME IInv, [Next]_vars, NEW c \in Calls,
                      phase'[c] = "counting", seen'[c] # Null
               PROVE  seen'[c] <= Counter(kind[c])'
    BY DEF SeenOK
  <1> USE DEF IInv, TypeOK, server
  <1> DEFINE Ran == /\ kind'[c] = kind[c]
                    /\ \/ phase[c] = "counting" /\ seen'[c] = seen[c]
                       \/ seen'[c] = Counter(kind[c])
  <1>1. Ran
    <2>1. ASSUME NEW u \in Users, Load(u) \/ Kill(u) PROVE Ran
      BY <2>1 DEF Load, Kill, AppGone
    <2>2. ASSUME NEW u \in Users, NEW d \in Calls, UserStep(u, d) PROVE Ran
      BY <2>2 DEF UserStep, Comment, Like, Unlike, Begin, Goto
    <2>3. ASSUME NEW d \in Calls, DatabaseStep(d) PROVE Ran
      BY <2>3 DEF DatabaseStep, WriteApplied, TransactionCommitted, Goto
    <2>4. ASSUME NEW d \in Calls, AppStep(d) PROVE Ran
      BY <2>4 DEF AppStep, HasLikeAnswered, WriteAcknowledged, RefusalDelivered,
                  TransactionRerun, CallAnswered, AbortDelivered, Goto
    <2>5. ASSUME NEW d \in Calls, FailureStep(d) PROVE Ran
      BY <2>5 DEF FailureStep, HasLikeCancelled, WriteRefused, TransactionAborted, Goto
    <2>6. CASE UNCHANGED vars
      BY <2>6 DEF vars
    <2>7. QED
      BY <2>1, <2>2, <2>3, <2>4, <2>5, <2>6 DEF Next
  <1>2. seen'[c] \in Nat /\ seen'[c] <= Counter(kind[c])
    BY <1>1 DEF SeenOK, Counter
  <1>3. Counter(kind[c]) \in Nat /\ Counter(kind[c]) <= Counter(kind[c])'
    BY <1>1, StepGrows DEF Counter
  <1>4. Counter(kind[c])' \in Nat
    BY StepTyped DEF Counter
  <1>5. QED
    BY <1>2, <1>3, <1>4

\* The numbers stay the numbers of counted entries.
LEMMA StepNumbers == IInv /\ [Next]_vars /\ ChainOK' => NumbersExact'
  <1> SUFFICES ASSUME IInv, [Next]_vars, ChainOK' PROVE NumbersExact'
    OBVIOUS
  <1> USE DEF IInv, TypeOK
  <1>1. Tallied("comment")' \subseteq comments' /\ Tallied("like")' \subseteq likes'
    <2>1. counted' \subseteq Calls
      BY StepEffect
    <2>2. QED
      BY <2>1 DEF Tallied, ChainOK, Stored
  <1>2. CASE /\ UNCHANGED <<nbComments, nbLikes, counted>>
             /\ \A c \in counted : kind'[c] = kind[c] /\ seen'[c] = seen[c]
    <2>1. \A k : Tallied(k)' = Tallied(k)
      BY <1>2 DEF Tallied
    <2>2. QED
      BY <1>1, <1>2, <2>1 DEF NumbersExact
  <1>3. ASSUME NEW c \in Calls \ counted,
               kind[c] \in {"comment", "like"},
               counted' = counted \cup {c},
               nbComments' = IF kind[c] = "comment" THEN nbComments + 1 ELSE nbComments,
               nbLikes' = IF kind[c] = "like" THEN nbLikes + 1 ELSE nbLikes,
               UNCHANGED <<kind, seen>>
        PROVE  NumbersExact'
    <2>1. Tallied(kind[c])' = Tallied(kind[c]) \cup {c}
      BY <1>3 DEF Tallied
    <2>2. \A k \in {"comment", "like"} \ {kind[c]} : Tallied(k)' = Tallied(k)
      BY <1>3 DEF Tallied
    <2>3. \A k : Tallied(k) \in SUBSET Calls /\ c \notin Tallied(k)
      BY <1>3 DEF Tallied
    <2>4. Cardinality(Tallied(kind[c]) \cup {c}) = Cardinality(Tallied(kind[c])) + 1
      BY <2>3, TallyOneMore
    <2>5. CASE kind[c] = "comment"
      BY <1>1, <1>3, <2>1, <2>2, <2>4, <2>5 DEF NumbersExact
    <2>6. CASE kind[c] = "like"
      BY <1>1, <1>3, <2>1, <2>2, <2>4, <2>6 DEF NumbersExact
    <2>7. QED
      BY <1>3, <2>5, <2>6
  <1>4. QED
    BY <1>2, <1>3, StepEffect

\* IInv is an inductive invariant of the post.
THEOREM Inductive == Spec => []IInv
  <1>1. IInv /\ [Next]_vars => IInv'
    BY StepTyped, StepSerial, StepSeen, StepNumbers DEF IInv
  <1>2. QED
    BY InitIInv, <1>1, PTL DEF Spec

\* Every variable keeps its type, whatever the users do and whatever fails.
THEOREM TypeCorrect == Spec => []TypeOK
  BY Inductive, PTL DEF IInv

\* The numbers stored under a post are the numbers of entries stored and counted.
THEOREM ExactNumbers == Spec => []NumbersExact
  BY Inductive, PTL DEF IInv

\* The numbers shown never exceed what the post holds.
THEOREM NumbersNeverAhead == Spec => []NumbersBehindLists
  <1>1. IInv => NumbersBehindLists
    <2> SUFFICES ASSUME IInv PROVE NumbersBehindLists
      OBVIOUS
    <2>1. IsFiniteSet(comments) /\ IsFiniteSet(likes)
      BY FS_Subset, CallsAssumption DEF IInv, TypeOK
    <2>2. /\ Cardinality(Tallied("comment")) <= Cardinality(comments)
          /\ Cardinality(Tallied("like")) <= Cardinality(likes)
      BY <2>1, FS_Subset DEF IInv, NumbersExact
    <2>3. QED
      BY <2>2 DEF IInv, NumbersExact, NumbersBehindLists
  <1>2. QED
    BY Inductive, <1>1, PTL

\* A stored entry missing from its number has a call under way or a failure to blame.
THEOREM EveryGapHasCause == Spec => []GapHasCause
  <1>1. IInv => GapHasCause
    BY DEF IInv, TypeOK, ChainOK, BlameOK, GapHasCause, Stored, Moving
  <1>2. QED
    BY Inductive, <1>1, PTL

\* Callbacks tell the truth about what the database holds.
THEOREM TruthfulCallbacks == Spec => []CallbacksTruthful
  <1>1. IInv => CallbacksTruthful
    BY DEF IInv, TypeOK, ChainOK, CallbacksTruthful, Stored
  <1>2. QED
    BY Inductive, <1>1, PTL

\* No two calls are answered with the same number.
THEOREM SerialAnswers == Spec => []NumbersSerial
  <1>1. IInv => NumbersSerial
    <2> SUFFICES ASSUME IInv,
                        NEW c \in Calls, NEW d \in Calls, c # d, kind[c] = kind[d],
                        phase[c] = "answered", phase[d] = "answered"
                 PROVE  Answer(c) # Answer(d)
      BY DEF NumbersSerial
    <2>1. c \in counted /\ d \in counted
      BY DEF IInv, ChainOK
    <2>2. seen[c] \in Nat /\ seen[d] \in Nat /\ seen[c] # seen[d]
      BY <2>1 DEF IInv, SerialOK
    <2>3. QED
      BY <2>2, NullAssumption DEF Answer, Recount
  <1>2. QED
    BY Inductive, <1>1, PTL

\* A step changes the lists by at most one call's entry.
LEMMA StepLists ==
    ASSUME IInv, [Next]_vars
    PROVE  \/ UNCHANGED <<comments, likes>>
           \/ \E c \in Calls :
                /\ UNCHANGED <<nbComments, nbLikes, counted, kind>>
                /\ \/ /\ c \notin comments
                      /\ comments' = comments \cup {c} /\ likes' = likes
                   \/ /\ c \notin likes
                      /\ likes' = likes \cup {c} /\ comments' = comments
  <1> USE DEF IInv, TypeOK, ChainOK, Stored, server
  <1>1. ASSUME NEW u \in Users, Load(u) \/ Kill(u) PROVE UNCHANGED <<comments, likes>>
    BY <1>1 DEF Load, Kill, AppGone
  <1>2. ASSUME NEW u \in Users, NEW c \in Calls, UserStep(u, c)
        PROVE  UNCHANGED <<comments, likes>>
    BY <1>2 DEF UserStep, Comment, Like, Unlike, Begin
  <1>3. ASSUME NEW c \in Calls, WriteApplied(c)
        PROVE  /\ UNCHANGED <<nbComments, nbLikes, counted, kind>>
               /\ \/ /\ c \notin comments
                     /\ comments' = comments \cup {c} /\ likes' = likes
                  \/ /\ c \notin likes
                     /\ likes' = likes \cup {c} /\ comments' = comments
    <2>1. c \notin comments /\ c \notin likes /\ kind[c] # "unlike"
      BY <1>3 DEF WriteApplied
    <2>2. CASE kind[c] = "comment"
      BY <1>3, <2>1, <2>2 DEF WriteApplied
    <2>3. CASE kind[c] = "like"
      BY <1>3, <2>1, <2>3 DEF WriteApplied
    <2>4. QED
      BY <2>1, <2>2, <2>3 DEF Kinds
  <1>4. ASSUME NEW c \in Calls, TransactionCommitted(c)
        PROVE  UNCHANGED <<comments, likes>>
    BY <1>4 DEF TransactionCommitted
  <1>5. ASSUME NEW c \in Calls, AppStep(c) PROVE UNCHANGED <<comments, likes>>
    BY <1>5 DEF AppStep, HasLikeAnswered, WriteAcknowledged, RefusalDelivered,
                TransactionRerun, CallAnswered, AbortDelivered
  <1>6. ASSUME NEW c \in Calls, FailureStep(c) PROVE UNCHANGED <<comments, likes>>
    BY <1>6 DEF FailureStep, HasLikeCancelled, WriteRefused, TransactionAborted
  <1>7. CASE UNCHANGED vars
    BY <1>7 DEF vars
  <1>8. QED
    BY <1>1, <1>2, <1>3, <1>4, <1>5, <1>6, <1>7 DEF Next, DatabaseStep

\* The comments of a post and their number implement the counted list.
THEOREM CommentsImplementList == Spec => CommentsAreCountedList
  <1> USE DEF CommentList!listVars
  <1>1. Init => CommentList!ListInit
    BY DEF Init, CommentList!ListInit, Tallied
  <1>2. IInv /\ [Next]_vars => [CommentList!ListNext]_(CommentList!listVars)
    <2> SUFFICES ASSUME IInv, [Next]_vars
                 PROVE  [CommentList!ListNext]_(CommentList!listVars)
      OBVIOUS
    <2>1. CASE /\ UNCHANGED <<nbComments, nbLikes, counted>>
               /\ \A c \in counted : kind'[c] = kind[c] /\ seen'[c] = seen[c]
      <3>1. Tallied("comment")' = Tallied("comment")
        BY <2>1 DEF Tallied
      <3>2. CASE UNCHANGED <<comments, likes>>
        BY <2>1, <3>1, <3>2
      <3>3. ASSUME NEW c \in Calls, c \notin comments, comments' = comments \cup {c}
            PROVE  CommentList!ListNext
        <4>1. CommentList!Append(c)
          BY <2>1, <3>1, <3>3 DEF CommentList!Append
        <4>2. QED
          BY <4>1 DEF CommentList!ListNext
      <3>4. QED
        BY <2>1, <3>1, <3>2, <3>3, StepLists
    <2>2. ASSUME NEW c \in Calls \ counted,
                 kind[c] \in {"comment", "like"},
                 c \in comments \cup likes,
                 counted' = counted \cup {c},
                 nbComments' = IF kind[c] = "comment" THEN nbComments + 1 ELSE nbComments,
                 UNCHANGED <<kind, comments>>
          PROVE  [CommentList!ListNext]_(CommentList!listVars)
      <3>1. CASE kind[c] = "comment"
        <4>1. Tallied("comment")' = Tallied("comment") \cup {c} /\ c \notin Tallied("comment")
          BY <2>2, <3>1 DEF Tallied
        <4>2. c \in comments
          BY <2>2, <3>1 DEF IInv, ChainOK
        <4>3. CommentList!Tally(c)
          BY <2>2, <3>1, <4>1, <4>2 DEF CommentList!Tally
        <4>4. QED
          BY <4>3 DEF CommentList!ListNext
      <3>2. CASE kind[c] = "like"
        <4>1. Tallied("comment")' = Tallied("comment")
          BY <2>2, <3>2 DEF Tallied
        <4>2. QED
          BY <2>2, <3>2, <4>1
      <3>3. QED
        BY <2>2, <3>1, <3>2
    <2>3. QED
      BY <2>1, <2>2, StepEffect
  <1>3. QED
    BY <1>1, <1>2, Inductive, PTL
       DEF Spec, CommentsAreCountedList, CommentList!ListSpec

\* The likes of a post and their number implement it too: no step, unlike
\* included, takes a like back.
THEOREM LikesImplementList == Spec => LikesAreCountedList
  <1> USE DEF LikeList!listVars
  <1>1. Init => LikeList!ListInit
    BY DEF Init, LikeList!ListInit, Tallied
  <1>2. IInv /\ [Next]_vars => [LikeList!ListNext]_(LikeList!listVars)
    <2> SUFFICES ASSUME IInv, [Next]_vars
                 PROVE  [LikeList!ListNext]_(LikeList!listVars)
      OBVIOUS
    <2>1. CASE /\ UNCHANGED <<nbComments, nbLikes, counted>>
               /\ \A c \in counted : kind'[c] = kind[c] /\ seen'[c] = seen[c]
      <3>1. Tallied("like")' = Tallied("like")
        BY <2>1 DEF Tallied
      <3>2. CASE UNCHANGED <<comments, likes>>
        BY <2>1, <3>1, <3>2
      <3>3. ASSUME NEW c \in Calls, c \notin likes, likes' = likes \cup {c}
            PROVE  LikeList!ListNext
        <4>1. LikeList!Append(c)
          BY <2>1, <3>1, <3>3 DEF LikeList!Append
        <4>2. QED
          BY <4>1 DEF LikeList!ListNext
      <3>4. QED
        BY <2>1, <3>1, <3>2, <3>3, StepLists
    <2>2. ASSUME NEW c \in Calls \ counted,
                 kind[c] \in {"comment", "like"},
                 c \in comments \cup likes,
                 counted' = counted \cup {c},
                 nbLikes' = IF kind[c] = "like" THEN nbLikes + 1 ELSE nbLikes,
                 UNCHANGED <<kind, likes>>
          PROVE  [LikeList!ListNext]_(LikeList!listVars)
      <3>1. CASE kind[c] = "like"
        <4>1. Tallied("like")' = Tallied("like") \cup {c} /\ c \notin Tallied("like")
          BY <2>2, <3>1 DEF Tallied
        <4>2. c \in likes
          BY <2>2, <3>1 DEF IInv, ChainOK
        <4>3. LikeList!Tally(c)
          BY <2>2, <3>1, <4>1, <4>2 DEF LikeList!Tally
        <4>4. QED
          BY <4>3 DEF LikeList!ListNext
      <3>2. CASE kind[c] = "comment"
        <4>1. Tallied("like")' = Tallied("like")
          BY <2>2, <3>2 DEF Tallied
        <4>2. QED
          BY <2>2, <3>2, <4>1
      <3>3. QED
        BY <2>2, <3>1, <3>2
    <2>3. QED
      BY <2>1, <2>2, StepEffect
  <1>3. QED
    BY <1>1, <1>2, Inductive, PTL DEF Spec, LikesAreCountedList, LikeList!ListSpec

-----------------------------------------------------------------------------
(* To one user the calls of like and unlike implement LikeCalls.           *)

\* The functions LikeCallsOf(u) puts for wish, stage and answer.
Wishes(u) == [c \in Calls |-> Wish(u, c)]
Stages(u) == [c \in Calls |-> Stage(u, c)]
Answers(u) == [c \in Calls |-> OnItsWay(u, c)]

\* u sees no difference in call d.
Same(u, d) ==
    /\ Stage(u, d)' = Stage(u, d)
    /\ Wish(u, d)' = Wish(u, d)
    /\ OnItsWay(u, d)' = OnItsWay(u, d)

\* What u sees of a call depends on nothing but the call.
LEMMA SameCall ==
    ASSUME NEW u \in Users, NEW d \in Calls,
           kind'[d] = kind[d], caller'[d] = caller[d],
           phase'[d] = phase[d], seen'[d] = seen[d],
           d \in awaited' <=> d \in awaited
    PROVE  Same(u, d)
  BY DEF Same, Stage, Wish, OnItsWay, Answer, Recount

\* A step in which u sees no difference at all.
LEMMA NothingSeen ==
    ASSUME NEW u \in Users, \A d \in Calls : Same(u, d)
    PROVE  UNCHANGED <<Wishes(u), Stages(u), Answers(u)>>
  BY DEF Same, Wishes, Stages, Answers

\* A step in which u sees a difference in c only.
LEMMA OneSeen ==
    ASSUME NEW u \in Users, NEW c \in Calls, \A d \in Calls \ {c} : Same(u, d)
    PROVE  /\ Wishes(u)' = [Wishes(u) EXCEPT ![c] = Wish(u, c)']
           /\ Stages(u)' = [Stages(u) EXCEPT ![c] = Stage(u, c)']
           /\ Answers(u)' = [Answers(u) EXCEPT ![c] = OnItsWay(u, c)']
  BY DEF Same, Wishes, Stages, Answers

\* What is seen of a call before it is made, and of a step that does not touch it.
LEMMA OneKept ==
    ASSUME NEW u \in Users, NEW c \in Calls
    PROVE  /\ Wishes(u)[c] = Wish(u, c)
           /\ Stages(u)[c] = Stage(u, c)
           /\ Answers(u)[c] = OnItsWay(u, c)
           /\ Wishes(u) = [Wishes(u) EXCEPT ![c] = Wish(u, c)]
           /\ Stages(u) = [Stages(u) EXCEPT ![c] = Stage(u, c)]
           /\ Answers(u) = [Answers(u) EXCEPT ![c] = OnItsWay(u, c)]
  BY DEF Wishes, Stages, Answers

\* The steps of LikeCalls, told of one call.
LEMMA CallMaps ==
    ASSUME NEW u \in Users, NEW c \in Calls, \A d \in Calls \ {c} : Same(u, d),
           \/ /\ Stage(u, c) = "free" /\ Stage(u, c)' = "asking"
              /\ Wish(u, c)' \in {"like", "unlike"}
              /\ OnItsWay(u, c)' = OnItsWay(u, c)
              /\ UNCHANGED <<nbLikes, failures>>
           \/ /\ Stage(u, c) = "asking"
              /\ Stage(u, c)' = IF Wish(u, c) = "like" THEN "counting" ELSE "done"
              /\ Wish(u, c)' = Wish(u, c) /\ OnItsWay(u, c)' = OnItsWay(u, c)
              /\ UNCHANGED <<nbLikes, failures>>
           \/ /\ Stage(u, c) = "counting"
              /\ nbLikes' = nbLikes + 1
              /\ \/ Stage(u, c)' = "counted" /\ OnItsWay(u, c)' = nbLikes + 1
                 \/ Stage(u, c)' = "done" /\ OnItsWay(u, c)' = OnItsWay(u, c)
              /\ Wish(u, c)' = Wish(u, c)
              /\ UNCHANGED failures
           \/ /\ Stage(u, c) \in {"counting", "counted"} /\ Stage(u, c)' = "counted"
              /\ failures' = failures + 1
              /\ OnItsWay(u, c)' \in 0..nbLikes
              /\ Wish(u, c)' = Wish(u, c)
              /\ UNCHANGED nbLikes
           \/ /\ Stage(u, c) = "counted" /\ Stage(u, c)' = "done"
              /\ OnItsWay(u, c)' = 0
              /\ Wish(u, c)' = Wish(u, c)
              /\ UNCHANGED <<nbLikes, failures>>
           \/ /\ Stage(u, c) \in {"asking", "counting"} /\ Stage(u, c)' = "done"
              /\ failures' \in {failures, failures + 1} \ {0}
              /\ Wish(u, c)' = Wish(u, c) /\ OnItsWay(u, c)' = OnItsWay(u, c)
              /\ UNCHANGED nbLikes
    PROVE  LikeCallsOf(u)!CallNext
  <1> DEFINE W == Wish(u, c)'
             G == Stage(u, c)'
             A == OnItsWay(u, c)'
  <1>1. /\ Wishes(u)' = [Wishes(u) EXCEPT ![c] = W]
        /\ Stages(u)' = [Stages(u) EXCEPT ![c] = G]
        /\ Answers(u)' = [Answers(u) EXCEPT ![c] = A]
    BY OneSeen
  <1>2. /\ Wishes(u)[c] = Wish(u, c)
        /\ Stages(u)[c] = Stage(u, c)
    BY OneKept
  <1>3. /\ W = Wish(u, c) => Wishes(u)' = Wishes(u)
        /\ A = OnItsWay(u, c) => Answers(u)' = Answers(u)
    BY <1>1, OneKept
  <1> HIDE DEF W, G, A
  <1>4. LikeCallsOf(u)!CallStep(c)
    BY <1>1, <1>2, <1>3 DEF LikeCallsOf!CallStep, LikeCallsOf!Begin, LikeCallsOf!Asked,
       LikeCallsOf!Counted, LikeCallsOf!Miscounted, LikeCallsOf!Answered,
       LikeCallsOf!Failed, LikeCallsOf!Goto, Wishes, Stages, Answers
  <1>5. QED
    BY <1>4 DEF LikeCallsOf!CallNext

\* Steps u sees nothing of, but a failure or a like of somebody else.
LEMMA RestMaps ==
    ASSUME NEW u \in Users, \A d \in Calls : Same(u, d)
    PROVE  /\ UNCHANGED <<nbLikes, failures>> => UNCHANGED LikeCallsOf(u)!callVars
           /\ nbLikes' = nbLikes /\ failures' = failures + 1 => LikeCallsOf(u)!CallNext
           /\ nbLikes' = nbLikes + 1 /\ failures' = failures => LikeCallsOf(u)!CallNext
  <1>1. UNCHANGED <<Wishes(u), Stages(u), Answers(u)>>
    BY NothingSeen
  <1>2. QED
    BY <1>1 DEF LikeCallsOf!callVars, LikeCallsOf!CallNext, LikeCallsOf!Trouble,
       LikeCallsOf!Elsewhere, Wishes, Stages, Answers

\* The app of u goes away.
LEMMA GoneMaps ==
    ASSUME NEW u \in Users, AppGone(u), UNCHANGED <<nbLikes, kind, caller>>,
           failures' \in {failures, failures + 1},
           \A d \in Calls : \/ phase'[d] = phase[d]
                            \/ phase[d] = "aborted" /\ phase'[d] = "crashed" /\ d \in awaited
    PROVE  LikeCallsOf(u)!CallNext
  <1>1. ASSUME NEW d \in Calls
        PROVE  /\ Wish(u, d)' = Wish(u, d)
               /\ Stage(u, d)' = IF Stage(u, d) \in {"asking", "counted"} THEN "done"
                                 ELSE Stage(u, d)
               /\ OnItsWay(u, d)' = 0
    <2>1. Stage(u, d)' = IF Stage(u, d) \in {"asking", "counted"} THEN "done"
                         ELSE Stage(u, d)
      BY DEF Stage, AppGone
    <2>2. Stage(u, d)' # "counted" /\ (Stage(u, d)' = "free" <=> Stage(u, d) = "free")
      BY <2>1
    <2>3. QED
      BY <2>1, <2>2 DEF Wish, OnItsWay
  <1>2. /\ Wishes(u)' = Wishes(u)
        /\ Stages(u)' = [d \in Calls |-> IF Stages(u)[d] \in {"asking", "counted"}
                                         THEN "done" ELSE Stages(u)[d]]
        /\ Answers(u)' = [d \in Calls |-> 0]
    BY <1>1 DEF Wishes, Stages, Answers
  <1>3. QED
    BY <1>2 DEF LikeCallsOf!CallNext, LikeCallsOf!Gone, Wishes, Stages, Answers

\* The app of somebody else goes away: u sees nothing of it.
LEMMA GoneUnseen ==
    ASSUME NEW u \in Users, NEW w \in Users \ {u}, AppGone(w),
           UNCHANGED <<kind, caller, seen>>,
           \A d \in Calls : phase'[d] = phase[d] \/ caller[d] = w
    PROVE  \A d \in Calls : Same(u, d)
  <1> TAKE d \in Calls
  <1>1. CASE caller[d] = w
    BY <1>1 DEF Same, Stage, Wish, OnItsWay
  <1>2. CASE caller[d] # w
    <2>1. d \in awaited' <=> d \in awaited
      BY <1>2 DEF AppGone
    <2>2. QED
      BY <1>2, <2>1, SameCall
  <1>3. QED
    BY <1>1, <1>2

\* A call that is begun.
LEMMA BeginMaps ==
    ASSUME IInv, NEW u \in Users, NEW v \in Users, NEW c \in Calls,
           UserStep(v, c)
    PROVE  [LikeCallsOf(u)!CallNext]_(LikeCallsOf(u)!callVars)
  <1> USE DEF IInv, TypeOK, server
  <1>1. PICK k \in Kinds, p \in {"asking", "failed", "writing"} :
           /\ Begin(v, c, k, p)
           /\ k # "comment" => p = "asking"
    BY DEF UserStep, Comment, Like, Unlike, Kinds
  <1>2. \A d \in Calls \ {c} : Same(u, d)
    BY <1>1, SameCall DEF Begin, Goto
  <1>3. UNCHANGED <<nbLikes, failures>>
    BY <1>1 DEF Begin
  <1>4. Stage(u, c) = "free"
    BY <1>1 DEF Begin, Stage
  <1>5. CASE v = u /\ k # "comment"
    <2>1. Stage(u, c)' = "asking"
      BY <1>1, <1>5 DEF Begin, Stage, Goto
    <2>2. Wish(u, c)' \in {"like", "unlike"}
      BY <1>1, <1>5, <2>1 DEF Begin, Wish, Kinds
    <2>3. OnItsWay(u, c)' = OnItsWay(u, c)
      BY <1>4, <2>1 DEF OnItsWay
    <2>4. QED
      BY <1>2, <1>3, <1>4, <2>1, <2>2, <2>3, CallMaps
  <1>6. CASE v # u \/ k = "comment"
    <2>1. Stage(u, c)' = "free"
      BY <1>1, <1>6 DEF Begin, Stage
    <2>2. Same(u, c)
      BY <1>4, <2>1 DEF Same, Wish, OnItsWay
    <2>3. QED
      BY <1>2, <1>3, <2>2, RestMaps
  <1>7. QED
    BY <1>5, <1>6

\* What the database does.
LEMMA DatabaseMaps ==
    ASSUME IInv, NEW u \in Users, NEW c \in Calls, DatabaseStep(c)
    PROVE  [LikeCallsOf(u)!CallNext]_(LikeCallsOf(u)!callVars)
  <1> USE DEF IInv, TypeOK, server
  <1>1. \A d \in Calls \ {c} : Same(u, d)
    BY SameCall DEF DatabaseStep, WriteApplied, TransactionCommitted, Goto
  <1>2. CASE WriteApplied(c)
    <2>1. Same(u, c)
      BY <1>2 DEF WriteApplied, Goto, Same, Stage, Wish, OnItsWay
    <2>2. UNCHANGED <<nbLikes, failures>>
      BY <1>2 DEF WriteApplied
    <2>3. QED
      BY <1>1, <2>1, <2>2, RestMaps
  <1>3. CASE TransactionCommitted(c)
    <2>1. kind[c] \in {"comment", "like"} /\ UNCHANGED <<kind, caller, seen, awaited, failures>>
      BY <1>3 DEF TransactionCommitted, ChainOK, Kinds
    <2>2. phase[c] = "counting" /\ phase'[c] = "counted"
      BY <1>3 DEF TransactionCommitted, Goto
    <2>3. CASE kind[c] = "comment"
      <3>1. nbLikes' = nbLikes
        BY <1>3, <2>3 DEF TransactionCommitted
      <3>2. Same(u, c)
        BY <2>1, <2>3 DEF Same, Stage, Wish, OnItsWay
      <3>3. QED
        BY <1>1, <2>1, <3>1, <3>2, RestMaps
    <2>4. CASE kind[c] = "like"
      <3>1. nbLikes' = nbLikes + 1 /\ seen[c] = nbLikes /\ nbLikes # Null
        BY <1>3, <2>4, NullAssumption DEF TransactionCommitted, Recount, Counter
      <3>2. CASE caller[c] # u
        <4>1. Same(u, c)
          BY <2>1, <3>2 DEF Same, Stage, Wish, OnItsWay
        <4>2. QED
          BY <1>1, <2>1, <3>1, <4>1, RestMaps
      <3>3. CASE caller[c] = u
        <4>1. Stage(u, c) = "counting"
          BY <2>2, <2>4, <3>3 DEF Stage
        <4>2. Stage(u, c)' = IF c \in awaited THEN "counted" ELSE "done"
          BY <2>1, <2>2, <2>4, <3>3 DEF Stage
        <4>3. Wish(u, c)' = Wish(u, c)
          BY <2>1, <4>1, <4>2 DEF Wish
        <4>4. OnItsWay(u, c) = 0
          BY <4>1 DEF OnItsWay
        <4>5. Answer(c)' = nbLikes + 1
          BY <2>1, <2>4, <3>1 DEF Answer, Recount
        <4>6. OnItsWay(u, c)' = IF c \in awaited THEN nbLikes + 1 ELSE 0
          BY <2>1, <2>2, <3>1, <4>2, <4>5 DEF OnItsWay
        <4>7. CASE c \in awaited
          BY <1>1, <2>1, <3>1, <4>1, <4>2, <4>3, <4>6, <4>7, CallMaps
        <4>8. CASE c \notin awaited
          BY <1>1, <2>1, <3>1, <4>1, <4>2, <4>3, <4>4, <4>6, <4>8, CallMaps
        <4>9. QED
          BY <4>7, <4>8
      <3>4. QED
        BY <3>2, <3>3
    <2>5. QED
      BY <2>1, <2>3, <2>4
  <1>4. QED
    BY <1>2, <1>3 DEF DatabaseStep

\* What the app of a call does: u sees the answers of its own calls, and the end
\* of its own app.
LEMMA AppMaps ==
    ASSUME IInv, NEW u \in Users, NEW c \in Calls, AppStep(c)
    PROVE  [LikeCallsOf(u)!CallNext]_(LikeCallsOf(u)!callVars)
  <1> USE DEF IInv, TypeOK, server
  <1>1. ASSUME UNCHANGED <<nbLikes, failures, kind, caller>>,
               \A d \in Calls \ {c} : Same(u, d), kind[c] = "comment" \/ caller[c] # u
        PROVE  [LikeCallsOf(u)!CallNext]_(LikeCallsOf(u)!callVars)
    <2>1. Same(u, c)
      BY <1>1 DEF Same, Stage, Wish, OnItsWay
    <2>2. QED
      BY <1>1, <2>1, RestMaps
  <1>2. CASE HasLikeAnswered(c)
    <2>1. \A d \in Calls \ {c} : Same(u, d)
      BY <1>2, SameCall DEF HasLikeAnswered, Goto
    <2>2. UNCHANGED <<nbLikes, failures, kind, caller, seen, awaited>>
      BY <1>2 DEF HasLikeAnswered
    <2>3. CASE kind[c] # "comment" /\ caller[c] = u
      <3>1. Stage(u, c) = "asking"
        BY <1>2, <2>3 DEF HasLikeAnswered, Stage
      <3>2. phase'[c] = IF kind[c] = "like" THEN "writing" ELSE "cached"
        BY <1>2, NothingFound DEF HasLikeAnswered, Goto
      <3>3. Stage(u, c)' = IF kind[c] = "like" THEN "counting" ELSE "done"
        BY <2>2, <2>3, <3>2 DEF Stage
      <3>4. Wish(u, c) = kind[c] /\ Wish(u, c)' = kind[c]
        BY <2>2, <3>1, <3>3 DEF Wish
      <3>5. OnItsWay(u, c)' = OnItsWay(u, c)
        BY <3>1, <3>3 DEF OnItsWay
      <3>6. QED
        BY <2>1, <2>2, <3>1, <3>3, <3>4, <3>5, CallMaps
    <2>4. QED
      BY <1>1, <2>1, <2>2, <2>3
  <1>3. CASE WriteAcknowledged(c) \/ TransactionRerun(c)
    <2>1. \A d \in Calls \ {c} : Same(u, d)
      BY <1>3, SameCall DEF WriteAcknowledged, TransactionRerun, Goto
    <2>2. UNCHANGED <<nbLikes, failures, kind, caller, awaited>>
      BY <1>3 DEF WriteAcknowledged, TransactionRerun
    <2>3. phase[c] \in {"written", "counting"} /\ phase'[c] = "counting"
      BY <1>3 DEF WriteAcknowledged, TransactionRerun, Goto
    <2>4. Same(u, c)
      BY <2>2, <2>3 DEF Same, Stage, Wish, OnItsWay
    <2>5. QED
      BY <2>1, <2>2, <2>4, RestMaps
  <1>4. CASE RefusalDelivered(c)
    <2>1. \A d \in Calls \ {c} : Same(u, d)
      BY <1>4, SameCall DEF RefusalDelivered, Goto
    <2>2. UNCHANGED <<nbLikes, failures, kind, caller>>
      BY <1>4 DEF RefusalDelivered
    <2>3. CASE kind[c] # "comment" /\ caller[c] = u
      <3>1. Stage(u, c) = "counting" /\ Stage(u, c)' = "done"
        BY <1>4, <2>3 DEF RefusalDelivered, Stage, Goto
      <3>2. failures' \in {failures, failures + 1} \ {0}
        BY <1>4, <2>2, MaxFailuresAssumption DEF RefusalDelivered, BlameOK
      <3>3. Wish(u, c)' = Wish(u, c) /\ OnItsWay(u, c)' = OnItsWay(u, c)
        BY <2>2, <3>1 DEF Wish, OnItsWay
      <3>4. QED
        BY <2>1, <2>2, <3>1, <3>2, <3>3, CallMaps
    <2>4. QED
      BY <1>1, <2>1, <2>2, <2>3
  <1>5. ASSUME NEW p \in {"answered", "misreported"},
               c \in awaited, phase[c] \in {"counted", "aborted"}, Goto(c, p),
               UNCHANGED <<nbLikes, failures, kind, caller, seen, awaited>>
        PROVE  [LikeCallsOf(u)!CallNext]_(LikeCallsOf(u)!callVars)
    <2>1. \A d \in Calls \ {c} : Same(u, d)
      BY <1>5, SameCall DEF Goto
    <2>2. CASE kind[c] # "comment" /\ caller[c] = u
      <3>1. Stage(u, c) = "counted" /\ Stage(u, c)' = "done"
        BY <1>5, <2>2 DEF Stage, Goto
      <3>2. Wish(u, c)' = Wish(u, c) /\ OnItsWay(u, c)' = 0
        BY <1>5, <3>1 DEF Wish, OnItsWay
      <3>3. QED
        BY <1>5, <2>1, <3>1, <3>2, CallMaps
    <2>3. QED
      BY <1>1, <1>5, <2>1, <2>2
  <1>6. CASE CallAnswered(c)
    BY <1>5, <1>6 DEF CallAnswered
  <1>7. ASSUME NEW hasSnapshot \in BOOLEAN, AbortDelivered(c, hasSnapshot)
        PROVE  [LikeCallsOf(u)!CallNext]_(LikeCallsOf(u)!callVars)
    <2>1. /\ c \in awaited /\ phase[c] = "aborted"
          /\ UNCHANGED <<nbLikes, failures, kind, caller, seen>>
      BY <1>7 DEF AbortDelivered
    <2>2. CASE hasSnapshot /\ seen[c] # Null
      BY <1>5, <1>7, <2>1, <2>2 DEF AbortDelivered
    <2>3. CASE ~(hasSnapshot /\ seen[c] # Null)
      <3>1. AppGone(caller[c]) /\ Goto(c, "crashed")
        BY <1>7, <2>3 DEF AbortDelivered
      <3>2. phase'[c] = "crashed" /\ \A d \in Calls \ {c} : phase'[d] = phase[d]
        BY <3>1 DEF Goto
      <3>3. CASE caller[c] = u
        BY <2>1, <3>1, <3>2, <3>3, GoneMaps
      <3>4. CASE caller[c] # u
        <4>1. \A d \in Calls : Same(u, d)
          BY <2>1, <3>1, <3>2, <3>4, GoneUnseen
        <4>2. QED
          BY <2>1, <4>1, RestMaps
      <3>5. QED
        BY <3>3, <3>4
    <2>4. QED
      BY <2>2, <2>3
  <1>8. QED
    BY <1>2, <1>3, <1>4, <1>6, <1>7 DEF AppStep

\* What fails: u sees its own call fail or misreported, and of others a failure.
LEMMA FailureMaps ==
    ASSUME IInv, NEW u \in Users, NEW c \in Calls, FailureStep(c)
    PROVE  [LikeCallsOf(u)!CallNext]_(LikeCallsOf(u)!callVars)
  <1> USE DEF IInv, TypeOK, server
  <1>1. /\ failures' = failures + 1
        /\ UNCHANGED <<nbLikes, kind, caller, seen, awaited>>
    BY DEF FailureStep, HasLikeCancelled, WriteRefused, TransactionAborted, Fail
  <1>2. \A d \in Calls \ {c} : Same(u, d)
    BY SameCall DEF FailureStep, HasLikeCancelled, WriteRefused, TransactionAborted, Goto
  <1>3. ASSUME Same(u, c) PROVE LikeCallsOf(u)!CallNext
    BY <1>1, <1>2, <1>3, RestMaps
  <1>4. ASSUME Stage(u, c) \in {"asking", "counting"}, Stage(u, c)' = "done"
        PROVE  LikeCallsOf(u)!CallNext
    <2>1. Wish(u, c)' = Wish(u, c) /\ OnItsWay(u, c)' = OnItsWay(u, c)
      BY <1>1, <1>4 DEF Wish, OnItsWay
    <2>2. failures' \in {failures, failures + 1} \ {0}
      BY <1>1, MaxFailuresAssumption
    <2>3. QED
      BY <1>1, <1>2, <1>4, <2>1, <2>2, CallMaps
  <1>5. CASE kind[c] = "comment" \/ caller[c] # u
    <2>1. Same(u, c)
      BY <1>1, <1>5 DEF Same, Stage, Wish, OnItsWay
    <2>2. QED
      BY <1>3, <2>1
  <1>6. CASE kind[c] # "comment" /\ caller[c] = u
    <2>1. CASE HasLikeCancelled(c)
      <3>1. Stage(u, c) = "asking" /\ Stage(u, c)' = "done"
        BY <1>1, <1>6, <2>1 DEF HasLikeCancelled, Goto, Stage
      <3>2. QED
        BY <1>4, <3>1
    <2>2. CASE WriteRefused(c)
      <3>1. phase[c] = "writing" /\ phase'[c] = "refused"
        BY <2>2 DEF WriteRefused, Goto
      <3>2. Same(u, c)
        BY <1>1, <3>1 DEF Same, Stage, Wish, OnItsWay
      <3>3. QED
        BY <1>3, <3>2
    <2>3. CASE TransactionAborted(c)
      <3>1. phase[c] \in {"counting", "counted"} /\ phase'[c] = "aborted"
        BY <2>3 DEF TransactionAborted, Goto
      <3>2. CASE c \in awaited
        <4>1. Stage(u, c) \in {"counting", "counted"} /\ Stage(u, c)' = "counted"
          BY <1>1, <1>6, <3>1, <3>2 DEF Stage
        <4>2. Wish(u, c)' = Wish(u, c)
          BY <1>1, <4>1 DEF Wish
        <4>3. seen[c] # Null => seen[c] \in 0..nbLikes
          <5>1. CASE phase[c] = "counting"
            BY <1>6, <5>1 DEF SeenOK, Counter
          <5>2. CASE phase[c] = "counted"
            BY <1>6, <5>2 DEF ChainOK, SerialOK, Counter
          <5>3. QED
            BY <3>1, <5>1, <5>2
        <4>4. OnItsWay(u, c)' = IF seen[c] = Null THEN 0 ELSE seen[c]
          BY <1>1, <3>1, <4>1 DEF OnItsWay
        <4>5. OnItsWay(u, c)' \in 0..nbLikes
          BY <4>3, <4>4
        <4>6. QED
          BY <1>1, <1>2, <4>1, <4>2, <4>5, CallMaps
      <3>3. CASE c \notin awaited /\ phase[c] = "counting"
        <4>1. Stage(u, c) = "counting" /\ Stage(u, c)' = "done"
          BY <1>1, <1>6, <3>1, <3>3 DEF Stage
        <4>2. QED
          BY <1>4, <4>1
      <3>4. CASE c \notin awaited /\ phase[c] = "counted"
        <4>1. Same(u, c)
          BY <1>1, <3>1, <3>4 DEF Same, Stage, Wish, OnItsWay
        <4>2. QED
          BY <1>3, <4>1
      <3>5. QED
        BY <3>1, <3>2, <3>3, <3>4
    <2>4. QED
      BY <2>1, <2>2, <2>3 DEF FailureStep
  <1>7. QED
    BY <1>5, <1>6

\* To every user every step of the post is a step of LikeCalls, or none.
LEMMA StepMaps ==
    ASSUME IInv, [Next]_vars, NEW u \in Users
    PROVE  [LikeCallsOf(u)!CallNext]_(LikeCallsOf(u)!callVars)
  <1>1. ASSUME NEW w \in Users, Load(w)
        PROVE  [LikeCallsOf(u)!CallNext]_(LikeCallsOf(u)!callVars)
    <2>1. \A d \in Calls : Same(u, d)
      BY <1>1, SameCall DEF Load
    <2>2. UNCHANGED <<nbLikes, failures>>
      BY <1>1 DEF Load, server
    <2>3. QED
      BY <2>1, <2>2, RestMaps
  <1>2. ASSUME NEW w \in Users, Kill(w)
        PROVE  [LikeCallsOf(u)!CallNext]_(LikeCallsOf(u)!callVars)
    <2>1. /\ AppGone(w) /\ failures' = failures + 1
          /\ UNCHANGED <<nbLikes, kind, caller, phase, seen>>
      BY <1>2 DEF Kill, Fail, server
    <2>2. CASE w = u
      BY <2>1, <2>2, GoneMaps
    <2>3. CASE w # u
      <3>1. \A d \in Calls : Same(u, d)
        BY <2>1, <2>3, GoneUnseen
      <3>2. QED
        BY <2>1, <3>1, RestMaps
    <2>4. QED
      BY <2>2, <2>3
  <1>3. CASE UNCHANGED vars
    <2>1. \A d \in Calls : Same(u, d)
      BY <1>3, SameCall DEF vars
    <2>2. UNCHANGED <<nbLikes, failures>>
      BY <1>3 DEF vars, server
    <2>3. QED
      BY <2>1, <2>2, RestMaps
  <1>4. QED
    BY <1>1, <1>2, <1>3, BeginMaps, DatabaseMaps, AppMaps, FailureMaps DEF Next

\* To each user the chains of like and unlike, with everybody else's between their
\* requests, implement calls that count in one step.
THEOREM LikesImplementCalls == Spec => LikesAreCalls
  <1>1. Init => \A u \in Users : LikeCallsOf(u)!CallInit
    BY DEF Init, LikeCallsOf!CallInit, Stage, Wish, OnItsWay
  <1>2. IInv /\ [Next]_vars =>
          \A u \in Users : [LikeCallsOf(u)!CallNext]_(LikeCallsOf(u)!callVars)
    BY StepMaps
  <1>3. QED
    BY <1>1, <1>2, Inductive, PTL DEF Spec, LikesAreCalls

-----------------------------------------------------------------------------
(* The half of CallsEnd that needs no fairness.                            *)

Most == Cardinality(Calls)

\* How far a call has come: its phase, and while it counts, the number it last saw.
Progress(c) ==
    IF phase[c] = "free" THEN 0
    ELSE IF phase[c] = "asking" THEN 1
    ELSE IF phase[c] = "writing" THEN 2
    ELSE IF phase[c] \in {"written", "refused"} THEN 3
    ELSE IF phase[c] = "counting" THEN IF seen[c] = Null THEN 4 ELSE 5 + seen[c]
    ELSE IF phase[c] = "counted" THEN Most + 6
    ELSE IF phase[c] = "aborted" THEN Most + 7
    ELSE Most + 8

\* A step of the chain of c.
ChainStep(c) ==
    DatabaseStep(c) \/ AppStep(c) \/ FailureStep(c) \/ \E u \in Users : UserStep(u, c)

\* Every step of a chain takes the call further, no step of anything takes it back,
\* and there is only so far to go: doTransaction (Blog.java:177, 241) is run again
\* only on a number that grew, so other calls delay a call but never hold it for good.
CallsAdvance ==
    /\ \A c \in Calls : Progress(c) = 0
    /\ [][\A c \in Calls :
            /\ Progress(c) <= Progress(c)' /\ Progress(c)' <= Most + 8
            /\ ChainStep(c) => Progress(c) < Progress(c)']_vars

\* A number counts calls, so none exceeds how many there are.
LEMMA FewNumbers ==
    ASSUME IInv
    PROVE  /\ Most \in Nat
           /\ nbComments \in 0..Most /\ nbLikes \in 0..Most
  <1>1. /\ IsFiniteSet(Calls) /\ Tallied("comment") \subseteq Calls
        /\ Tallied("like") \subseteq Calls
    BY CallsAssumption DEF IInv, TypeOK, Tallied
  <1>2. /\ Cardinality(Tallied("comment")) <= Cardinality(Calls)
        /\ Cardinality(Tallied("like")) <= Cardinality(Calls)
        /\ Cardinality(Calls) \in Nat
    BY <1>1, FS_Subset, FS_CardinalityType
  <1>3. QED
    BY <1>2 DEF IInv, TypeOK, NumbersExact, Most

\* Where a call can be.
LEMMA ProgressType ==
    ASSUME IInv, NEW c \in Calls
    PROVE  /\ Progress(c) \in 0..(Most + 8)
           /\ phase[c] = "counting" => Progress(c) \in 4..(Most + 5)
  <1>1. Most \in Nat /\ nbComments \in 0..Most /\ nbLikes \in 0..Most
    BY FewNumbers
  <1>2. phase[c] = "counting" /\ seen[c] # Null => seen[c] \in 0..Most
    BY <1>1 DEF IInv, TypeOK, SeenOK, Counter
  <1>3. QED
    BY <1>1, <1>2 DEF Progress

\* Steps of other chains leave a call where it is.
LEMMA StaysPut ==
    ASSUME NEW d \in Calls, phase'[d] = phase[d], seen'[d] = seen[d]
    PROVE  Progress(d)' = Progress(d)
  BY DEF Progress, Most

\* A chain moves one call only.
LEMMA OthersStay ==
    ASSUME IInv, NEW c \in Calls, ChainStep(c), NEW d \in Calls \ {c}
    PROVE  phase'[d] = phase[d] /\ seen'[d] = seen[d]
  <1> USE DEF IInv, TypeOK
  <1>1. CASE DatabaseStep(c)
    BY <1>1 DEF DatabaseStep, WriteApplied, TransactionCommitted, Goto
  <1>2. CASE AppStep(c)
    BY <1>2 DEF AppStep, HasLikeAnswered, WriteAcknowledged, RefusalDelivered,
                TransactionRerun, CallAnswered, AbortDelivered, Goto
  <1>3. CASE FailureStep(c)
    BY <1>3 DEF FailureStep, HasLikeCancelled, WriteRefused, TransactionAborted, Goto
  <1>4. ASSUME NEW u \in Users, UserStep(u, c)
        PROVE  phase'[d] = phase[d] /\ seen'[d] = seen[d]
    BY <1>4 DEF UserStep, Comment, Like, Unlike, Begin, Goto
  <1>5. QED
    BY <1>1, <1>2, <1>3, <1>4 DEF ChainStep

\* From phase to phase there is only one way.
LEMMA PhaseAdvances ==
    ASSUME IInv, NEW c \in Calls, ChainStep(c)
    PROVE  \/ /\ phase[c] = "counting" /\ phase'[c] = "counting"
              /\ seen[c] # Counter(kind[c]) /\ seen'[c] = Counter(kind[c])
           \/ phase[c] = "free" /\ phase'[c] \notin {"free"}
           \/ phase[c] = "asking" /\ phase'[c] \in {"writing"} \cup Ended
           \/ phase[c] = "writing" /\ phase'[c] \in {"written", "refused"}
           \/ phase[c] = "written" /\ phase'[c] = "counting"
           \/ phase[c] = "refused" /\ phase'[c] \in Ended
           \/ phase[c] = "counting" /\ phase'[c] \in {"counted", "aborted"}
           \/ phase[c] = "counted" /\ phase'[c] \in {"aborted"} \cup Ended
           \/ phase[c] = "aborted" /\ phase'[c] \in Ended
  <1> USE DEF IInv, TypeOK, Ended
  <1>1. CASE DatabaseStep(c)
    BY <1>1 DEF DatabaseStep, WriteApplied, TransactionCommitted, Goto
  <1>2. CASE AppStep(c)
    <2>1. CASE HasLikeAnswered(c)
      BY <2>1, NothingFound DEF HasLikeAnswered, Goto
    <2>2. CASE WriteAcknowledged(c) \/ RefusalDelivered(c) \/ CallAnswered(c)
      BY <2>2 DEF WriteAcknowledged, RefusalDelivered, CallAnswered, Goto
    <2>3. CASE TransactionRerun(c)
      BY <2>3 DEF TransactionRerun
    <2>4. ASSUME NEW hasSnapshot \in BOOLEAN, AbortDelivered(c, hasSnapshot)
          PROVE  phase[c] = "aborted" /\ phase'[c] \in Ended
      BY <2>4 DEF AbortDelivered, Goto
    <2>5. QED
      BY <1>2, <2>1, <2>2, <2>3, <2>4 DEF AppStep
  <1>3. CASE FailureStep(c)
    BY <1>3 DEF FailureStep, HasLikeCancelled, WriteRefused, TransactionAborted, Goto
  <1>4. ASSUME NEW u \in Users, UserStep(u, c)
        PROVE  phase[c] = "free" /\ phase'[c] # "free"
    BY <1>4 DEF UserStep, Comment, Like, Unlike, Begin, Goto
  <1>5. QED
    BY <1>1, <1>2, <1>3, <1>4 DEF ChainStep

\* A step of its chain takes a call further.
LEMMA ChainAdvances ==
    ASSUME IInv, [Next]_vars, NEW c \in Calls, ChainStep(c)
    PROVE  Progress(c) < Progress(c)'
  <1>1. IInv'
    BY StepTyped, StepSerial, StepSeen, StepNumbers DEF IInv
  <1>2. Most \in Nat /\ nbComments \in 0..Most /\ nbLikes \in 0..Most
    BY FewNumbers
  <1>3. Most' = Most
    BY DEF Most
  <1>4. /\ phase[c] = "counting" => Progress(c) \in 4..(Most + 5)
        /\ phase[c] # "counting" => Progress(c) =
             IF phase[c] = "free" THEN 0
             ELSE IF phase[c] = "asking" THEN 1
             ELSE IF phase[c] = "writing" THEN 2
             ELSE IF phase[c] \in {"written", "refused"} THEN 3
             ELSE IF phase[c] = "counted" THEN Most + 6
             ELSE IF phase[c] = "aborted" THEN Most + 7
             ELSE Most + 8
    BY ProgressType DEF Progress
  <1>5. /\ phase'[c] = "counting" => Progress(c)' \in Nat /\ Progress(c)' >= 4
        /\ phase'[c] # "counting" => Progress(c)' =
             IF phase'[c] = "free" THEN 0
             ELSE IF phase'[c] = "asking" THEN 1
             ELSE IF phase'[c] = "writing" THEN 2
             ELSE IF phase'[c] \in {"written", "refused"} THEN 3
             ELSE IF phase'[c] = "counted" THEN Most + 6
             ELSE IF phase'[c] = "aborted" THEN Most + 7
             ELSE Most + 8
    <2>1. phase'[c] = "counting" => Progress(c)' \in Nat /\ Progress(c)' >= 4
      BY <1>1, NullAssumption DEF IInv, TypeOK, Progress
    <2>2. QED
      BY <2>1, <1>3 DEF Progress
  <1>6. CASE /\ phase[c] = "counting" /\ phase'[c] = "counting"
             /\ seen[c] # Counter(kind[c]) /\ seen'[c] = Counter(kind[c])
    <2>1. seen'[c] \in Nat /\ Progress(c)' = 5 + seen'[c]
      BY <1>2, <1>6, NullAssumption DEF Progress, Counter
    <2>2. seen[c] # Null => seen[c] \in Nat /\ seen[c] < seen'[c]
      BY <1>2, <1>6 DEF IInv, TypeOK, SeenOK, Counter
    <2>3. Progress(c) = IF seen[c] = Null THEN 4 ELSE 5 + seen[c]
      BY <1>6 DEF Progress
    <2>4. QED
      BY <2>1, <2>2, <2>3
  <1>7. CASE phase[c] = "free" /\ phase'[c] # "free"
    BY <1>2, <1>4, <1>5, <1>7
  <1>8. CASE \/ phase[c] = "asking" /\ phase'[c] \in {"writing"} \cup Ended
             \/ phase[c] = "writing" /\ phase'[c] \in {"written", "refused"}
             \/ phase[c] = "written" /\ phase'[c] = "counting"
             \/ phase[c] = "refused" /\ phase'[c] \in Ended
    BY <1>2, <1>4, <1>5, <1>8 DEF Ended
  <1>9. CASE \/ phase[c] = "counting" /\ phase'[c] \in {"counted", "aborted"}
             \/ phase[c] = "counted" /\ phase'[c] \in {"aborted"} \cup Ended
             \/ phase[c] = "aborted" /\ phase'[c] \in Ended
    BY <1>2, <1>4, <1>5, <1>9 DEF Ended
  <1>10. QED
    BY <1>6, <1>7, <1>8, <1>9, PhaseAdvances

\* Every call is somewhere on its way, after a step as well.
Somewhere == \A c \in Calls : Progress(c) \in 0..(Most + 8)

LEMMA AlwaysThere == IInv' => Somewhere'
  <1>1. IInv => Somewhere
    BY ProgressType DEF Somewhere
  <1>2. QED
    BY <1>1, PTL

\* Calls only go forward, so each takes a bounded number of steps.
THEOREM EveryCallAdvances == Spec => CallsAdvance
  <1>1. Init => \A c \in Calls : Progress(c) = 0
    BY DEF Init, Progress
  <1>2. ASSUME IInv, [Next]_vars, NEW c \in Calls
        PROVE  /\ Progress(c) <= Progress(c)' /\ Progress(c)' <= Most + 8
               /\ ChainStep(c) => Progress(c) < Progress(c)'
    <2>1. IInv'
      BY <1>2, StepTyped, StepSerial, StepSeen, StepNumbers DEF IInv
    <2>2. Progress(c) \in Nat
      BY <1>2, ProgressType, FewNumbers
    <2>3. Progress(c)' \in 0..(Most + 8)
      BY <2>1, AlwaysThere DEF Somewhere, Most
    <2>4. CASE ChainStep(c)
      BY <1>2, <2>2, <2>3, <2>4, ChainAdvances
    <2>5. CASE ~ChainStep(c)
      <3>1. phase'[c] = phase[c] /\ seen'[c] = seen[c]
        <4>1. ASSUME NEW u \in Users, Load(u) \/ Kill(u)
              PROVE  phase' = phase /\ seen' = seen
          BY <4>1 DEF Load, Kill
        <4>2. ASSUME NEW d \in Calls, ChainStep(d)
              PROVE  phase'[c] = phase[c] /\ seen'[c] = seen[c]
          BY <1>2, <2>5, <4>2, OthersStay
        <4>3. UNCHANGED vars => phase' = phase /\ seen' = seen
          BY DEF vars
        <4>4. QED
          BY <1>2, <4>1, <4>2, <4>3 DEF Next, ChainStep
      <3>2. QED
        BY <2>2, <2>3, <2>5, <3>1, StaysPut
    <2>6. QED
      BY <2>4, <2>5
  <1>3. IInv /\ [Next]_vars =>
          \A c \in Calls :
             /\ Progress(c) <= Progress(c)' /\ Progress(c)' <= Most + 8
             /\ ChainStep(c) => Progress(c) < Progress(c)'
    BY <1>2
  <1>4. QED
    BY <1>1, <1>3, Inductive, PTL DEF Spec, CallsAdvance
=============================================================================
