------------------------------ MODULE LikeCalls ------------------------------
(***************************************************************************)
(* What one app may rely on when it calls like and unlike of a post: the   *)
(* requests of a call, the compare-and-set loop of its transaction and the *)
(* calls of all other apps come down to one step that stores the like and  *)
(* counts it, and to an answer that is the number this step made.  Only a  *)
(* failure makes the answer another number, and one that was stored before.*)
(***************************************************************************)
EXTENDS Naturals

CONSTANT Call           \* the calls this app may make

VARIABLES
    stored,             \* the number of likes of the post
    wish,               \* wish[c]: "like" or "unlike"
    stage,              \* stage[c]: how far c has come
    answer,             \* answer[c]: the number on its way to the listener of c, or 0
    troubles            \* what has failed so far, anywhere

callVars == <<stored, wish, stage, answer, troubles>>

CallInit ==
    /\ stored = 0
    /\ wish = [c \in Call |-> "like"]
    /\ stage = [c \in Call |-> "free"]
    /\ answer = [c \in Call |-> 0]
    /\ troubles = 0

Goto(c, s) == stage' = [stage EXCEPT ![c] = s]

\* A call is made.
Begin(c) ==
    /\ stage[c] = "free"
    /\ \E k \in {"like", "unlike"} : wish' = [wish EXCEPT ![c] = k]
    /\ Goto(c, "asking")
    /\ UNCHANGED <<stored, answer, troubles>>

\* A like goes on to be counted, an unlike is over.
Asked(c) ==
    /\ stage[c] = "asking"
    /\ Goto(c, IF wish[c] = "like" THEN "counting" ELSE "done")
    /\ UNCHANGED <<stored, wish, answer, troubles>>

\* The like is stored and counted; its app is told the number, or it is gone.
Counted(c) ==
    /\ stage[c] = "counting"
    /\ stored' = stored + 1
    /\ \/ Goto(c, "counted") /\ answer' = [answer EXCEPT ![c] = stored + 1]
       \/ Goto(c, "done") /\ UNCHANGED answer
    /\ UNCHANGED <<wish, troubles>>

\* Counting fails, before or after it was done: the app is told a number that was.
Miscounted(c) ==
    /\ stage[c] \in {"counting", "counted"}
    /\ troubles' = troubles + 1
    /\ Goto(c, "counted")
    /\ \E n \in 0..stored : answer' = [answer EXCEPT ![c] = n]
    /\ UNCHANGED <<stored, wish>>

\* The listener is given the answer.
Answered(c) ==
    /\ stage[c] = "counted"
    /\ Goto(c, "done")
    /\ answer' = [answer EXCEPT ![c] = 0]
    /\ UNCHANGED <<stored, wish, troubles>>

\* The call fails, now or because something has failed.
Failed(c) ==
    /\ stage[c] \in {"asking", "counting"}
    /\ troubles' \in {troubles, troubles + 1} \ {0}
    /\ Goto(c, "done")
    /\ UNCHANGED <<stored, wish, answer>>

\* The app goes: nobody is left to be answered, but a like sent may be counted yet.
Gone ==
    /\ stage' = [c \in Call |-> IF stage[c] \in {"asking", "counted"} THEN "done"
                                ELSE stage[c]]
    /\ answer' = [c \in Call |-> 0]
    /\ troubles' \in {troubles, troubles + 1}
    /\ UNCHANGED <<stored, wish>>

\* Another app likes the post.
Elsewhere ==
    /\ stored' = stored + 1
    /\ UNCHANGED <<wish, stage, answer, troubles>>

\* Something else fails.
Trouble ==
    /\ troubles' = troubles + 1
    /\ UNCHANGED <<stored, wish, stage, answer>>

CallStep(c) ==
    \/ Begin(c) \/ Asked(c) \/ Counted(c)
    \/ Miscounted(c) \/ Answered(c) \/ Failed(c)

CallNext == Gone \/ Elsewhere \/ Trouble \/ \E c \in Call : CallStep(c)

CallSpec == CallInit /\ [][CallNext]_callVars
=============================================================================
