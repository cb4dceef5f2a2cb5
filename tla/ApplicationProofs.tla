--------------------------- MODULE ApplicationProofs ---------------------------
(***************************************************************************)
(* Proofs about Application, for any posters, screens, presses, texts and  *)
(* any number of events and failures.                                      *)
(***************************************************************************)
EXTENDS Application, TLAPS

\* How far a listener got bounds what it started: nothing before it was attached,
\* and one load, one thread for each event of each state it heard.
StartedByStates ==
    /\ \A l \in Listeners : next[l] <= Len(poster) + 1
    /\ \A d \in Screens : details[d] \in {"unopened", "loading"} => next[d] = 0
    /\ \A s \in Presses : press[s] \in {"free", "posted", "starting"} => next[s] = 0
    /\ \A s \in Presses : \A e \in Events :
          \/ mailed[s][e] + threads[s][e] = 0
          \/ mailed[s][e] + threads[s][e] <= next[s] - e
    /\ \A d \in Screens : 2 * loaded[d] <= next[d] * (next[d] - 1)

\* A form is finished before anything is mailed, and says what it said at the press.
FormLeft ==
    \A s \in Presses :
        /\ press[s] = "posted" => form[on[s]] # "unopened"
        /\ press[s] \in {"starting", "listening", "lost"} => form[on[s]] = "finished"
        /\ press[s] \in {"free", "posted", "starting"} => bodies[s] = {}
        /\ press[s] # "free" /\ s \notin edited => text[on[s]] = typed[s]

IInv == TypeOK /\ StartedByStates /\ FormLeft /\ FormAsPressed
-----------------------------------------------------------------------------
\* Nothing was opened, pressed or started.
LEMMA InitIInv == Init => IInv
<1> SUFFICES ASSUME Init PROVE IInv
  OBVIOUS
<1> USE NullAssumption, SomeAssumption, BoundsAssumption
<1> DEFINE some == CHOOSE d \in Screens : TRUE
<1>1. some \in Screens /\ on = [s \in Presses |-> some]
  BY Zenon DEF Init
<1> HIDE DEF some
<1>2. PICK n \in 0..MaxEvents : poster \in [1..n -> Posters]
  BY DEF Init
<1>3. poster \in Seq(Posters) /\ Len(poster) = n
  BY <1>2
<1>4. TypeOK
  BY <1>1, <1>3 DEF Init, TypeOK, PressPhases, Listeners
<1>5. StartedByStates
  <2>1. \A s \in Presses : \A e \in Events : mailed[s][e] = 0 /\ threads[s][e] = 0
    BY DEF Init
  <2>2. \A l \in Listeners : next[l] = 0
    BY DEF Init
  <2>3. \A d \in Screens : loaded[d] = 0
    BY DEF Init
  <2> QED
    BY <1>3, <2>1, <2>2, <2>3 DEF StartedByStates, Listeners
<1>6. FormLeft /\ FormAsPressed
  BY DEF Init, FormLeft, FormAsPressed
<1> QED
  BY <1>4, <1>5, <1>6 DEF IInv

\* Every action keeps the types; who listens stays opened, or pressed and run.
LEMMA TypeStep == TypeOK /\ [Next]_vars => TypeOK'
<1> SUFFICES ASSUME TypeOK, [Next]_vars PROVE TypeOK'
  OBVIOUS
<1> USE NullAssumption, SomeAssumption, BoundsAssumption DEF TypeOK
<1>1. ASSUME NEW p \in Posters, Publish(p) PROVE TypeOK'
  BY <1>1 DEF Publish, Fail, Attach, Hear, Listeners, PressPhases,
     screenVars, formVars, pressVars, mailVars
<1>2. ASSUME NEW d \in Screens, NEW e \in Events, OpenDetails(d, e) PROVE TypeOK'
  BY <1>2 DEF OpenDetails, Fail, Attach, Hear, Listeners, PressPhases,
     screenVars, formVars, pressVars, mailVars
<1>3. ASSUME NEW d \in Screens, UserLoaded(d) PROVE TypeOK'
  BY <1>3 DEF UserLoaded, Fail, Attach, Hear, Listeners, PressPhases,
     screenVars, formVars, pressVars, mailVars
<1>4. ASSUME NEW d \in Screens, NoUser(d) PROVE TypeOK'
  <2>1. failures' \in 0..MaxFailures
    BY <1>4 DEF NoUser, Fail
  <2>2. /\ details' \in [Screens -> {"unopened", "loading", "blank", "open", "lost"}]
        /\ \A x \in Screens : details[x] = "open" => details'[x] = "open"
    BY <1>4 DEF NoUser
  <2> HIDE BoundsAssumption, SomeAssumption, NullAssumption
  <2> QED
    BY <1>4, <2>1, <2>2 DEF NoUser, formVars, pressVars, mailVars
<1>5. ASSUME NEW d \in Screens, DetailsHeard(d) PROVE TypeOK'
  <2>1. d \in Listeners /\ next[d] \in Nat
    BY DEF Listeners
  <2>2. next' \in [Listeners -> Nat]
    BY <1>5, <2>1 DEF DetailsHeard, Hear
  <2>3. loads' \in [Screens -> Nat] /\ loaded' \in [Screens -> Nat]
    BY <1>5, <2>1 DEF DetailsHeard
  <2> QED
    BY <1>5, <2>2, <2>3 DEF DetailsHeard, formVars, pressVars, mailVars
<1>6. ASSUME NEW d \in Screens, EventLoaded(d) PROVE TypeOK'
  <2>1. loads[d] \in Nat /\ loads[d] > 0
    BY <1>6 DEF EventLoaded
  <2>2. loads' \in [Screens -> Nat]
    BY <1>6, <2>1 DEF EventLoaded
  <2> HIDE BoundsAssumption, SomeAssumption, NullAssumption
  <2> QED
    BY <1>6, <2>2 DEF EventLoaded, formVars, pressVars, mailVars
<1>7. ASSUME NEW d \in Screens, EventFailed(d) PROVE TypeOK'
  <2>1. failures' \in 0..MaxFailures
    BY <1>7 DEF EventFailed, Fail
  <2>2. loads[d] \in Nat /\ loads[d] > 0
    BY <1>7 DEF EventFailed
  <2>3. loads' \in [Screens -> Nat]
    BY <1>7, <2>2 DEF EventFailed
  <2> HIDE BoundsAssumption, SomeAssumption, NullAssumption
  <2> QED
    BY <1>7, <2>1, <2>3 DEF EventFailed, formVars, pressVars, mailVars
<1>8. ASSUME NEW l \in Listeners, Cancelled(l) PROVE TypeOK'
  <2>1. failures' \in 0..MaxFailures
    BY <1>8 DEF Cancelled, Fail
  <2> HIDE BoundsAssumption, SomeAssumption, NullAssumption
  <2> QED
    BY <1>8, <2>1 DEF Cancelled, screenVars, formVars, pressVars, mailVars
<1>9. ASSUME NEW d \in Screens, Apply(d) PROVE TypeOK'
  BY <1>9 DEF Apply, Fail, Attach, Hear, Listeners, PressPhases,
     screenVars, formVars, pressVars, mailVars
<1>10. ASSUME NEW d \in Screens, NEW t \in Texts \cup {Null}, Edit(d, t) PROVE TypeOK'
  BY <1>10 DEF Edit, Fail, Attach, Hear, Listeners, PressPhases,
     screenVars, formVars, pressVars, mailVars
<1>11. ASSUME NEW d \in Screens, NEW s \in Presses, Press(d, s) PROVE TypeOK'
  BY <1>11 DEF Press, Fail, Attach, Hear, Listeners, PressPhases,
     screenVars, formVars, pressVars, mailVars
<1>12. ASSUME NEW s \in Presses, Run(s) PROVE TypeOK'
  BY <1>12 DEF Run, Fail, Attach, Hear, Listeners, PressPhases,
     screenVars, formVars, pressVars, mailVars
<1>13. ASSUME NEW s \in Presses, MailStarted(s) PROVE TypeOK'
  BY <1>13 DEF MailStarted, Fail, Attach, Hear, Listeners, PressPhases,
     screenVars, formVars, pressVars, mailVars
<1>14. ASSUME NEW s \in Presses, ListHeard(s) PROVE TypeOK'
  <2>1. s \in Listeners /\ next[s] \in Nat /\ threads[s] \in [Events -> Nat]
    BY DEF Listeners
  <2>2. next' \in [Listeners -> Nat]
    BY <1>14, <2>1 DEF ListHeard, Hear
  <2>3. threads' \in [Presses -> [Events -> Nat]]
    BY <1>14, <2>1 DEF ListHeard
  <2> QED
    BY <1>14, <2>2, <2>3 DEF ListHeard, screenVars, formVars, pressVars
<1>15. ASSUME NEW s \in Presses, NEW e \in Events, Mail(s, e) PROVE TypeOK'
  <2>1. threads[s] \in [Events -> Nat] /\ mailed[s] \in [Events -> Nat]
    OBVIOUS
  <2>2. threads[s][e] - 1 \in Nat /\ mailed[s][e] + 1 \in Nat
    BY <1>15, <2>1 DEF Mail
  <2>3. threads' \in [Presses -> [Events -> Nat]]
    BY <1>15, <2>1, <2>2 DEF Mail
  <2>4. mailed' \in [Presses -> [Events -> Nat]]
    BY <1>15, <2>1, <2>2 DEF Mail
  <2>5. bodies' \in [Presses -> SUBSET (Texts \cup {Null})]
    BY <1>15 DEF Mail
  <2> QED
    BY <1>15, <2>3, <2>4, <2>5 DEF Mail, screenVars, formVars, pressVars
<1>16. ASSUME NEW s \in Presses, NEW e \in Events, MailFails(s, e) PROVE TypeOK'
  BY <1>16 DEF MailFails, Fail, Attach, Hear, Listeners, PressPhases,
     screenVars, formVars, pressVars, mailVars
<1>17. CASE UNCHANGED vars
  BY <1>17 DEF vars, screenVars, formVars, pressVars, mailVars
<1> QED
  BY <1>1, <1>2, <1>3, <1>4, <1>5, <1>6, <1>7, <1>8, <1>9, <1>10,
     <1>11, <1>12, <1>13, <1>14, <1>15, <1>16, <1>17, Zenon
     DEF Next, DetailsStep, DetailsFailure, MailStep, MailFailure, UserStep, Listeners

\* Loads grow with every state heard: n more at state n, n * (n - 1) / 2 before it.
LEMMA SumStep == \A n \in Nat : (n + 1) * n = 2 * n + n * (n - 1)
OBVIOUS

LEMMA SumPositive == \A n \in Nat : 0 <= n * (n - 1)
<1> SUFFICES ASSUME NEW n \in Nat PROVE 0 <= n * (n - 1)
  OBVIOUS
<1>1. CASE n = 0
  BY <1>1
<1>2. CASE n - 1 \in Nat
  BY <1>2
<1> QED
  BY <1>1, <1>2

LEMMA SumGrows == \A n, k \in Nat : n <= k + 1 => n * (n - 1) <= (k + 1) * k
<1> SUFFICES ASSUME NEW n \in Nat, NEW k \in Nat, n <= k + 1
             PROVE  n * (n - 1) <= (k + 1) * k
  OBVIOUS
<1>1. CASE n = 0
  BY <1>1
<1>2. CASE n > 0
  <2>1. PICK j \in Nat : k + 1 = n + j
    <3>1. k + 1 - n \in Nat /\ k + 1 = n + (k + 1 - n)
      OBVIOUS
    <3> QED
      BY <3>1
  <2>2. k = (n - 1) + j
    BY <2>1
  <2>3. (k + 1) * k = n * (n - 1) + (n * j + j * (n - 1) + j * j)
    BY <2>1, <2>2
  <2>4. n - 1 \in Nat
    BY <1>2
  <2>5. n * j + j * (n - 1) + j * j >= 0 /\ n * (n - 1) \in Nat
    BY <2>4
  <2> QED
    BY <2>3, <2>5
<1> QED
  BY <1>1, <1>2

\* Counters, positions and lengths are natural numbers.
LEMMA Numbers ==
    ASSUME TypeOK
    PROVE  /\ \A s \in Presses : \A e \in Events :
                 mailed[s][e] \in Nat /\ threads[s][e] \in Nat
           /\ \A l \in Listeners : next[l] \in Nat
           /\ \A s \in Presses : next[s] \in Nat
           /\ \A d \in Screens : next[d] \in Nat /\ loaded[d] \in Nat
           /\ \A e \in Events : e \in Nat /\ e > 0
           /\ Len(poster) \in Nat
BY BoundsAssumption DEF TypeOK, Events, Listeners

\* A thread waits only on behalf of a press whose list was heard.
LEMMA ThreadsOfListening ==
    ASSUME TypeOK, StartedByStates, NEW s \in Presses, NEW e \in Events, threads[s][e] > 0
    PROVE  press[s] \notin {"free", "posted", "starting"}
<1>1. /\ mailed[s][e] \in Nat /\ threads[s][e] \in Nat
      /\ next[s] \in Nat /\ e \in Nat /\ e > 0
  BY Numbers
<1>2. \/ mailed[s][e] + threads[s][e] = 0
      \/ mailed[s][e] + threads[s][e] <= next[s] - e
  BY DEF StartedByStates
<1>3. next[s] # 0
  BY <1>1, <1>2
<1> QED
  BY <1>3 DEF StartedByStates

\* Every action keeps what was started within what was heard.
LEMMA StartedStep == IInv /\ [Next]_vars => StartedByStates'
<1> SUFFICES ASSUME IInv, [Next]_vars PROVE StartedByStates'
  OBVIOUS
<1> USE NullAssumption, SomeAssumption, BoundsAssumption DEF IInv, TypeOK, StartedByStates
<1>1. ASSUME NEW p \in Posters, Publish(p) PROVE StartedByStates'
  BY <1>1 DEF Publish, Fail, Attach, Hear, Listeners, PressPhases,
     screenVars, formVars, pressVars, mailVars
<1>2. ASSUME NEW d \in Screens, NEW e \in Events, OpenDetails(d, e) PROVE StartedByStates'
  BY <1>2 DEF OpenDetails, Fail, Attach, Hear, Listeners, PressPhases,
     screenVars, formVars, pressVars, mailVars
<1>3. ASSUME NEW d \in Screens, UserLoaded(d) PROVE StartedByStates'
  <2>1. d \in Listeners /\ next[d] = 0 /\ Len(poster) \in Nat
    BY <1>3 DEF UserLoaded, Listeners
  <2>2. next' = [next EXCEPT ![d] = Len(poster)]
    BY <1>3 DEF UserLoaded, Attach
  <2>3. loaded[d] = 0
    BY <2>1
  <2>4. 2 * loaded[d] <= Len(poster) * (Len(poster) - 1)
    <3>1. 0 <= Len(poster) * (Len(poster) - 1)
      BY <2>1, SumPositive
    <3> HIDE DEF IInv, TypeOK, StartedByStates
    <3> QED
      BY <2>3, <3>1
  <2>5. \A x \in Screens : 2 * loaded[x] <= next'[x] * (next'[x] - 1)
    BY <2>2, <2>4 DEF Listeners
  <2>6. \A s \in Presses : next'[s] = next[s]
    BY <2>2 DEF Listeners
  <2>7. \A l \in Listeners : next'[l] <= Len(poster) + 1
    <3>1. \A l \in Listeners : next'[l] = IF l = d THEN Len(poster) ELSE next[l]
      BY <2>2
    <3>2. \A l \in Listeners : next[l] <= Len(poster) + 1
      OBVIOUS
    <3> HIDE DEF IInv, TypeOK, StartedByStates
    <3> QED
      BY <2>1, <3>1, <3>2
  <2>8. \A x \in Screens : details'[x] \in {"unopened", "loading"} => next'[x] = 0
    BY <1>3, <2>2 DEF UserLoaded, Listeners
  <2> QED
    BY <1>3, <2>5, <2>6, <2>7, <2>8 DEF UserLoaded, pressVars, mailVars
<1>4. ASSUME NEW d \in Screens, NoUser(d) PROVE StartedByStates'
  BY <1>4 DEF NoUser, Fail, Attach, Hear, Listeners, PressPhases,
     screenVars, formVars, pressVars, mailVars
<1>5. ASSUME NEW d \in Screens, DetailsHeard(d) PROVE StartedByStates'
  <2>1. d \in Listeners /\ next[d] \in Nat /\ Len(poster) \in Nat
    BY DEF Listeners
  <2>2. next' = [next EXCEPT ![d] = next[d] + 1] /\ next[d] <= Len(poster)
    BY <1>5 DEF DetailsHeard, Hear
  <2>3. d \in listening /\ details[d] = "open"
    BY <1>5 DEF DetailsHeard, Hear
  <2>4. 2 * (loaded[d] + next[d]) <= (next[d] + 1) * next[d]
    <3>1. loaded[d] \in Nat /\ 2 * loaded[d] <= next[d] * (next[d] - 1)
      OBVIOUS
    <3> HIDE DEF IInv, TypeOK, StartedByStates
    <3> QED
      BY <2>1, <3>1, SumStep
  <2>5. loaded' = [loaded EXCEPT ![d] = loaded[d] + next[d]]
    BY <1>5 DEF DetailsHeard
  <2>6. \A x \in Screens : 2 * loaded'[x] <= next'[x] * (next'[x] - 1)
    <3>1. ASSUME NEW x \in Screens PROVE 2 * loaded'[x] <= next'[x] * (next'[x] - 1)
      <4>1. CASE x = d
        <5>1. next'[x] = next[d] + 1 /\ next'[x] - 1 = next[d]
          BY <2>1, <2>2, <4>1
        <5>2. loaded'[x] = loaded[d] + next[d]
          BY <2>5, <4>1
        <5> HIDE DEF IInv, TypeOK, StartedByStates
        <5> QED
          BY <2>4, <5>1, <5>2
      <4>2. CASE x # d
        <5>1. next'[x] = next[x] /\ loaded'[x] = loaded[x]
          BY <2>2, <2>5, <4>2 DEF Listeners
        <5>2. 2 * loaded[x] <= next[x] * (next[x] - 1)
          OBVIOUS
        <5> HIDE DEF IInv, TypeOK, StartedByStates
        <5> QED
          BY <5>1, <5>2
      <4> QED
        BY <4>1, <4>2
    <3> QED
      BY <3>1
  <2>7. \A s \in Presses : next'[s] = next[s]
    BY <2>2 DEF Listeners
  <2>8. \A l \in Listeners : next'[l] <= Len(poster) + 1
    <3>1. \A l \in Listeners : next'[l] = IF l = d THEN next[d] + 1 ELSE next[l]
      BY <2>2
    <3>2. \A l \in Listeners : next[l] <= Len(poster) + 1
      OBVIOUS
    <3> HIDE DEF IInv, TypeOK, StartedByStates
    <3> QED
      BY <2>1, <2>2, <3>1, <3>2
  <2>9. \A x \in Screens : details[x] \in {"unopened", "loading"} => next'[x] = 0
    BY <2>2, <2>3 DEF Listeners
  <2> QED
    BY <1>5, <2>6, <2>7, <2>8, <2>9 DEF DetailsHeard, pressVars, mailVars
<1>6. ASSUME NEW d \in Screens, EventLoaded(d) PROVE StartedByStates'
  BY <1>6 DEF EventLoaded, Fail, Attach, Hear, Listeners, PressPhases,
     screenVars, formVars, pressVars, mailVars
<1>7. ASSUME NEW d \in Screens, EventFailed(d) PROVE StartedByStates'
  BY <1>7 DEF EventFailed, Fail, Attach, Hear, Listeners, PressPhases,
     screenVars, formVars, pressVars, mailVars
<1>8. ASSUME NEW l \in Listeners, Cancelled(l) PROVE StartedByStates'
  BY <1>8 DEF Cancelled, Fail, Attach, Hear, Listeners, PressPhases,
     screenVars, formVars, pressVars, mailVars
<1>9. ASSUME NEW d \in Screens, Apply(d) PROVE StartedByStates'
  BY <1>9 DEF Apply, Fail, Attach, Hear, Listeners, PressPhases,
     screenVars, formVars, pressVars, mailVars
<1>10. ASSUME NEW d \in Screens, NEW t \in Texts \cup {Null}, Edit(d, t)
       PROVE  StartedByStates'
  BY <1>10 DEF Edit, Fail, Attach, Hear, Listeners, PressPhases,
     screenVars, formVars, pressVars, mailVars
<1>11. ASSUME NEW d \in Screens, NEW s \in Presses, Press(d, s) PROVE StartedByStates'
  BY <1>11 DEF Press, Fail, Attach, Hear, Listeners, PressPhases,
     screenVars, formVars, pressVars, mailVars
<1>12. ASSUME NEW s \in Presses, Run(s) PROVE StartedByStates'
  BY <1>12 DEF Run, Fail, Attach, Hear, Listeners, PressPhases,
     screenVars, formVars, pressVars, mailVars
<1>13. ASSUME NEW s \in Presses, MailStarted(s) PROVE StartedByStates'
  <2>1. s \in Listeners /\ next[s] = 0 /\ Len(poster) \in Nat
    BY <1>13 DEF MailStarted, Listeners
  <2>2. next' = [next EXCEPT ![s] = Len(poster)]
    BY <1>13 DEF MailStarted, Attach
  <2>3. \A d \in Screens : next'[d] = next[d]
    BY <2>2 DEF Listeners
  <2>4. \A l \in Listeners : next'[l] <= Len(poster) + 1
    BY <2>1, <2>2
  <2>5. \A r \in Presses : press'[r] \in {"free", "posted", "starting"} => next'[r] = 0
    BY <1>13, <2>2 DEF MailStarted, Listeners
  <2>6. ASSUME NEW r \in Presses, NEW e \in Events
        PROVE  \/ mailed[r][e] + threads[r][e] = 0
               \/ mailed[r][e] + threads[r][e] <= next'[r] - e
    <3>1. mailed[r][e] \in Nat /\ threads[r][e] \in Nat /\ next[r] \in Nat /\ e \in Nat
      BY Numbers
    <3>2. next'[r] \in Nat /\ next'[r] >= next[r]
      <4>1. next'[r] = IF r = s THEN Len(poster) ELSE next[r]
        BY <2>2 DEF Listeners
      <4> HIDE DEF IInv, TypeOK, StartedByStates
      <4> QED
        BY <2>1, <3>1, <4>1
    <3>3. \/ mailed[r][e] + threads[r][e] = 0
          \/ mailed[r][e] + threads[r][e] <= next[r] - e
      OBVIOUS
    <3> HIDE DEF IInv, TypeOK, StartedByStates
    <3> QED
      BY <3>1, <3>2, <3>3
  <2> QED
    BY <1>13, <2>3, <2>4, <2>5, <2>6 DEF MailStarted, screenVars, mailVars
<1>14. ASSUME NEW s \in Presses, ListHeard(s) PROVE StartedByStates'
  <2>1. s \in Listeners /\ next[s] \in Nat /\ Len(poster) \in Nat
    BY DEF Listeners
  <2>2. next' = [next EXCEPT ![s] = next[s] + 1] /\ next[s] <= Len(poster)
    BY <1>14 DEF ListHeard, Hear
  <2>3. press[s] = "listening"
    BY <1>14 DEF ListHeard, Hear
  <2>4. \A d \in Screens : next'[d] = next[d]
    BY <2>2 DEF Listeners
  <2>5. \A l \in Listeners : next'[l] <= Len(poster) + 1
    BY <2>1, <2>2
  <2>6. \A r \in Presses : press[r] \in {"free", "posted", "starting"} => next'[r] = 0
    BY <2>2, <2>3 DEF Listeners
  <2>7. ASSUME NEW r \in Presses, NEW e \in Events
        PROVE  \/ mailed[r][e] + threads'[r][e] = 0
               \/ mailed[r][e] + threads'[r][e] <= next'[r] - e
    <3>1. mailed[r][e] \in Nat /\ threads[r][e] \in Nat /\ next[r] \in Nat /\ e \in Nat
      BY Numbers
    <3>2. \/ mailed[r][e] + threads[r][e] = 0
          \/ mailed[r][e] + threads[r][e] <= next[r] - e
      OBVIOUS
    <3>3. CASE r = s
      <4>1. /\ next'[r] = next[r] + 1
            /\ threads'[r][e] = IF e <= next[r] THEN threads[r][e] + 1 ELSE threads[r][e]
        BY <1>14, <2>1, <2>2, <3>3 DEF ListHeard
      <4> HIDE DEF IInv, TypeOK, StartedByStates
      <4> QED
        BY <3>1, <3>2, <4>1
    <3>4. CASE r # s
      BY <1>14, <2>2, <3>2, <3>4 DEF ListHeard, Listeners
    <3> QED
      BY <3>3, <3>4
  <2> QED
    BY <1>14, <2>4, <2>5, <2>6, <2>7 DEF ListHeard, screenVars, pressVars
<1>15. ASSUME NEW s \in Presses, NEW e \in Events, Mail(s, e) PROVE StartedByStates'
  <2>1. ASSUME NEW r \in Presses, NEW f \in Events
        PROVE  mailed'[r][f] + threads'[r][f] = mailed[r][f] + threads[r][f]
    <3>1. mailed[r][f] \in Nat /\ threads[r][f] \in Nat
      OBVIOUS
    <3>2. CASE r = s /\ f = e
      BY <1>15, <3>1, <3>2 DEF Mail
    <3>3. CASE ~(r = s /\ f = e)
      BY <1>15, <3>1, <3>3 DEF Mail
    <3> QED
      BY <3>2, <3>3
  <2>2. UNCHANGED <<poster, next, loaded, details, press>>
    BY <1>15 DEF Mail, screenVars, pressVars
  <2>3. \A r \in Presses : \A f \in Events :
           \/ mailed'[r][f] + threads'[r][f] = 0
           \/ mailed'[r][f] + threads'[r][f] <= next[r] - f
    BY <2>1
  <2> QED
    BY <2>2, <2>3
<1>16. ASSUME NEW s \in Presses, NEW e \in Events, MailFails(s, e) PROVE StartedByStates'
  <2>1. ASSUME NEW r \in Presses, NEW f \in Events
        PROVE  \/ mailed[r][f] + threads'[r][f] = 0
               \/ mailed[r][f] + threads'[r][f] <= next[r] - f
    <3>0. threads'[r][f] = 0
      BY <1>16 DEF MailFails
    <3>1. /\ mailed[r][f] \in Nat /\ threads[r][f] \in Nat
          /\ next[r] \in Nat /\ f \in Nat
      BY Numbers
    <3>2. \/ mailed[r][f] + threads[r][f] = 0
          \/ mailed[r][f] + threads[r][f] <= next[r] - f
      OBVIOUS
    <3> HIDE DEF IInv, TypeOK, StartedByStates
    <3> QED
      BY <3>0, <3>1, <3>2
  <2> QED
    BY <1>16, <2>1 DEF MailFails
<1>17. CASE UNCHANGED vars
  BY <1>17 DEF vars, screenVars, formVars, pressVars, mailVars
<1> QED
  BY <1>1, <1>2, <1>3, <1>4, <1>5, <1>6, <1>7, <1>8, <1>9, <1>10,
     <1>11, <1>12, <1>13, <1>14, <1>15, <1>16, <1>17, Zenon
     DEF Next, DetailsStep, DetailsFailure, MailStep, MailFailure, UserStep, Listeners

\* Every action keeps what the forms say.
LEMMA FormStep == IInv /\ [Next]_vars => FormLeft' /\ FormAsPressed'
<1> SUFFICES ASSUME IInv, [Next]_vars PROVE FormLeft' /\ FormAsPressed'
  OBVIOUS
<1> USE DEF IInv, TypeOK, FormLeft, FormAsPressed
<1>1. ASSUME NEW p \in Posters, Publish(p) PROVE (FormLeft /\ FormAsPressed)'
  BY <1>1 DEF Publish, PressPhases, screenVars, formVars, pressVars, mailVars
<1>2. ASSUME NEW d \in Screens, NEW e \in Events, OpenDetails(d, e)
       PROVE  (FormLeft /\ FormAsPressed)'
  BY <1>2 DEF OpenDetails, PressPhases, screenVars, formVars, pressVars, mailVars
<1>3. ASSUME NEW d \in Screens, UserLoaded(d) PROVE (FormLeft /\ FormAsPressed)'
  BY <1>3 DEF UserLoaded, PressPhases, screenVars, formVars, pressVars, mailVars
<1>4. ASSUME NEW d \in Screens, NoUser(d) PROVE (FormLeft /\ FormAsPressed)'
  BY <1>4 DEF NoUser, PressPhases, screenVars, formVars, pressVars, mailVars
<1>5. ASSUME NEW d \in Screens, DetailsHeard(d) PROVE (FormLeft /\ FormAsPressed)'
  BY <1>5 DEF DetailsHeard, PressPhases, screenVars, formVars, pressVars, mailVars
<1>6. ASSUME NEW d \in Screens, EventLoaded(d) PROVE (FormLeft /\ FormAsPressed)'
  BY <1>6 DEF EventLoaded, PressPhases, screenVars, formVars, pressVars, mailVars
<1>7. ASSUME NEW d \in Screens, EventFailed(d) PROVE (FormLeft /\ FormAsPressed)'
  BY <1>7 DEF EventFailed, PressPhases, screenVars, formVars, pressVars, mailVars
<1>8. ASSUME NEW l \in Listeners, Cancelled(l) PROVE (FormLeft /\ FormAsPressed)'
  BY <1>8 DEF Cancelled, PressPhases, screenVars, formVars, pressVars, mailVars
<1>9. ASSUME NEW d \in Screens, Apply(d) PROVE (FormLeft /\ FormAsPressed)'
  BY <1>9 DEF Apply, PressPhases, screenVars, formVars, pressVars, mailVars
<1>10. ASSUME NEW d \in Screens, NEW t \in Texts \cup {Null}, Edit(d, t)
       PROVE  (FormLeft /\ FormAsPressed)'
  BY <1>10 DEF Edit, PressPhases, screenVars, formVars, pressVars, mailVars
<1>11. ASSUME NEW d \in Screens, NEW s \in Presses, Press(d, s)
       PROVE  (FormLeft /\ FormAsPressed)'
  BY <1>11 DEF Press, PressPhases, screenVars, formVars, pressVars, mailVars
<1>12. ASSUME NEW s \in Presses, Run(s) PROVE (FormLeft /\ FormAsPressed)'
  BY <1>12 DEF Run, PressPhases, screenVars, formVars, pressVars, mailVars
<1>13. ASSUME NEW s \in Presses, MailStarted(s) PROVE (FormLeft /\ FormAsPressed)'
  BY <1>13 DEF MailStarted, PressPhases, screenVars, formVars, pressVars, mailVars
<1>14. ASSUME NEW s \in Presses, ListHeard(s) PROVE (FormLeft /\ FormAsPressed)'
  BY <1>14 DEF ListHeard, PressPhases, screenVars, formVars, pressVars, mailVars
<1>15. ASSUME NEW s \in Presses, NEW e \in Events, Mail(s, e)
       PROVE  (FormLeft /\ FormAsPressed)'
  <2>1. press[s] \notin {"free", "posted", "starting"}
    BY <1>15, ThreadsOfListening DEF Mail
  <2>2. /\ bodies' = [bodies EXCEPT ![s] = @ \cup {text[on[s]]}]
        /\ UNCHANGED <<form, text, press, on, typed, edited>>
    BY <1>15 DEF Mail, formVars, pressVars
  <2>3. s \notin edited => text[on[s]] = typed[s]
    BY <2>1
  <2>4. \A r \in Presses : r # s => bodies'[r] = bodies[r]
    BY <2>2
  <2>5. bodies'[s] = bodies[s] \cup {text[on[s]]}
    BY <2>2
  <2>6. FormLeft'
    BY <2>1, <2>2, <2>4
  <2>7. FormAsPressed'
    BY <2>2, <2>3, <2>4, <2>5
  <2> QED
    BY <2>6, <2>7
<1>16. ASSUME NEW s \in Presses, NEW e \in Events, MailFails(s, e)
       PROVE  (FormLeft /\ FormAsPressed)'
  BY <1>16 DEF MailFails, PressPhases, screenVars, formVars, pressVars, mailVars
<1>17. CASE UNCHANGED vars
  BY <1>17 DEF vars, screenVars, formVars, pressVars, mailVars
<1> QED
  BY <1>1, <1>2, <1>3, <1>4, <1>5, <1>6, <1>7, <1>8, <1>9, <1>10,
     <1>11, <1>12, <1>13, <1>14, <1>15, <1>16, <1>17, Zenon
     DEF Next, DetailsStep, DetailsFailure, MailStep, MailFailure, UserStep, Listeners

\* The inductive invariant of an application: types, what was started, what is said.
THEOREM Inductive == Spec => []IInv
<1>1. IInv /\ [Next]_vars => IInv'
  BY TypeStep, StartedStep, FormStep DEF IInv
<1> QED
  BY <1>1, InitIInv, PTL DEF Spec

\* The variables have their types; only opened screens and pressed forms listen.
THEOREM TypeCorrect == Spec => []TypeOK
<1>1. IInv => TypeOK
  BY DEF IInv
<1> QED
  BY <1>1, Inductive, PTL

\* However long the listeners live (FormActivity.java:137, EventDetailsActivity.java:71),
\* they mail and load at most once for each event of each state of the list.
THEOREM StatesHeardOnce == Spec => []EachStateOnce
<1>1. IInv => EachStateOnce
  <2> SUFFICES ASSUME IInv PROVE EachStateOnce
    OBVIOUS
  <2> USE BoundsAssumption DEF IInv, TypeOK, StartedByStates
  <2>1. ASSUME NEW s \in Presses, NEW e \in DOMAIN poster
        PROVE  mailed[s][e] + threads[s][e] <= Len(poster) + 1 - e
    <3>0. poster \in Seq(Posters) /\ Len(poster) <= MaxEvents
      OBVIOUS
    <3>1. e \in Events /\ e <= Len(poster) /\ Len(poster) \in Nat
      <4> HIDE DEF IInv, TypeOK, StartedByStates
      <4> QED
        BY <3>0 DEF Events
    <3>2. /\ mailed[s][e] \in Nat /\ threads[s][e] \in Nat /\ next[s] \in Nat
          /\ e \in Nat /\ next[s] <= Len(poster) + 1
      BY <3>1, Numbers DEF Listeners
    <3>3. \/ mailed[s][e] + threads[s][e] = 0
          \/ mailed[s][e] + threads[s][e] <= next[s] - e
      BY <3>1
    <3> DEFINE m == mailed[s][e]
               t == threads[s][e]
               k == next[s]
               n == Len(poster)
    <3>4. m \in Nat /\ t \in Nat /\ k \in Nat /\ n \in Nat /\ e \in Nat /\ e <= n
      BY <3>1, <3>2
    <3>5. k <= n + 1 /\ (m + t = 0 \/ m + t <= k - e)
      BY <3>2, <3>3
    <3>6. m + t <= n + 1 - e
      <4> HIDE DEF IInv, TypeOK, StartedByStates, m, t, k, n
      <4> QED
        BY <3>4, <3>5
    <3> QED
      BY <3>6
  <2>2. ASSUME NEW d \in Screens PROVE 2 * loaded[d] <= Len(poster) * (Len(poster) + 1)
    <3>1. Len(poster) \in Nat /\ next[d] \in Nat /\ next[d] <= Len(poster) + 1
      BY DEF Listeners
    <3>2. next[d] * (next[d] - 1) <= (Len(poster) + 1) * Len(poster)
      BY <3>1, SumGrows
    <3>3. 2 * loaded[d] <= next[d] * (next[d] - 1)
      OBVIOUS
    <3>4. next[d] * (next[d] - 1) \in Int /\ loaded[d] \in Nat
      BY <3>1
    <3> QED
      BY <3>1, <3>2, <3>3, <3>4
  <2> QED
    BY <2>1, <2>2 DEF EachStateOnce
<1> QED
  BY <1>1, Inductive, PTL

\* What a press mails is what its form said when it was pressed, unless the form was
\* edited before the runnable ran (FormActivity.java:84, 153).
THEOREM MailedAsPressed == Spec => []FormAsPressed
<1>1. IInv => FormAsPressed
  BY DEF IInv
<1> QED
  BY <1>1, Inductive, PTL
=============================================================================
