------------------------------ MODULE Application ------------------------------
(***************************************************************************)
(* Applying to an event: the screen of an event (EventDetailsActivity),    *)
(* the form it opens (FormActivity), and sendMail.  Both screens listen to *)
(* the whole list of events and never stop: the first loads its event      *)
(* again for every event there is, the second starts a thread for every    *)
(* event there is that mails the form to its poster, and both do so again  *)
(* on every change of the list.                                            *)
(***************************************************************************)
EXTENDS Integers, Sequences

CONSTANTS
    Posters,        \* people who publish events, that is their addresses
    Screens,        \* screens of events, each opened once, with the form it opens
    Presses,        \* presses of the forms' submit buttons
    Texts,          \* what a complete form can say
    Null,           \* an incomplete form; no event
    MaxEvents,      \* bound on the events published
    MaxFailures     \* bound on failed requests

ASSUME NullAssumption == Null \notin Texts \cup Nat
ASSUME SomeAssumption == Screens # {} /\ Screens \cap Presses = {}
ASSUME BoundsAssumption == MaxEvents \in Nat /\ MaxFailures \in Nat

VARIABLES
    poster,         \* poster[e]: who published event e; the list only grows
    event,          \* event[d]: the event d was opened for, or Null
    details,        \* details[d]: "unopened", "loading", "blank", "open", "lost"
    loads,          \* loads[d]: loads of its event that d waits for
    loaded,         \* loaded[d]: loads d asked for so far
    displayed,      \* screens that show their event
    form,           \* form[d]: the form d opened: "unopened", "open", "finished"
    text,           \* text[d]: what its fields say: a text, or Null if one is empty
    press,          \* press[s]: how far press s has come
    on,             \* on[s]: the screen whose form was pressed
    next,           \* next[l]: a screen or press l that listens waits for the
                    \* states next[l]..Len(poster) of the list, given by their length
    listening,      \* the screens and presses whose listener is attached
    threads,        \* threads[s][e]: threads of s about to mail the poster of e
    mailed,         \* mailed[s][e]: mails about s sent to the poster of e
    bodies,         \* bodies[s]: what they said
    typed,          \* history: typed[s]: what the form said at the press
    edited,         \* history: presses whose form was edited before they were run
    failures        \* failures so far

screenVars == <<event, details, loads, loaded, displayed>>
formVars == <<form, text>>
pressVars == <<press, on, typed, edited>>
mailVars == <<threads, mailed, bodies>>
vars == <<poster, screenVars, formVars, pressVars, next, listening, mailVars, failures>>

Events == 1..MaxEvents
Listeners == Screens \cup Presses
PressPhases ==
    {"free",
     "posted",      \* a runnable waits on the main thread
     "starting",    \* sendMail has started its thread
     "listening",   \* the listener was attached
     "lost"}        \* the app ended

Init ==
    /\ poster \in UNION {[1..n -> Posters] : n \in 0..MaxEvents}
    /\ event = [d \in Screens |-> Null]
    /\ details = [d \in Screens |-> "unopened"]
    /\ loads = [d \in Screens |-> 0]
    /\ loaded = [d \in Screens |-> 0]
    /\ displayed = {}
    /\ form = [d \in Screens |-> "unopened"]
    /\ text = [d \in Screens |-> Null]
    /\ press = [s \in Presses |-> "free"]
    /\ on = [s \in Presses |-> CHOOSE d \in Screens : TRUE]
    /\ next = [l \in Listeners |-> 0]
    /\ listening = {}
    /\ threads = [s \in Presses |-> [e \in Events |-> 0]]
    /\ mailed = [s \in Presses |-> [e \in Events |-> 0]]
    /\ bodies = [s \in Presses |-> {}]
    /\ typed = [s \in Presses |-> Null]
    /\ edited = {}
    /\ failures = 0

Fail == failures < MaxFailures /\ failures' = failures + 1

\* Somebody publishes an event: another state of the list for every listener.
Publish(p) ==
    /\ Len(poster) < MaxEvents
    /\ poster' = Append(poster, p)
    /\ UNCHANGED <<screenVars, formVars, pressVars, next, listening, mailVars, failures>>

\* addValueEventListener: the first state it hears is the present one.
Attach(l) ==
    /\ listening' = listening \cup {l}
    /\ next' = [next EXCEPT ![l] = Len(poster)]

\* Mutant: the state is heard and waits on.
HearAgain(l) ==
    /\ l \in listening
    /\ next[l] <= Len(poster)
    /\ UNCHANGED next

\* onDataChange gets the oldest state that waits for l.
Hear(l) ==
    /\ l \in listening
    /\ next[l] <= Len(poster)
    /\ next' = [next EXCEPT ![l] = @ + 1]

\* The listener of l is cancelled; both onCancelled are empty.
Cancelled(l) ==
    /\ Fail
    /\ l \in listening
    /\ listening' = listening \ {l}
    /\ UNCHANGED <<poster, screenVars, formVars, pressVars, next, mailVars>>

-----------------------------------------------------------------------------
(* The screen of an event.                                                 *)

\* A row of the list of events is tapped: the user is asked for.
OpenDetails(d, e) ==
    /\ details[d] = "unopened"
    /\ e \in DOMAIN poster
    /\ details' = [details EXCEPT ![d] = "loading"]
    /\ event' = [event EXCEPT ![d] = e]
    /\ UNCHANGED <<poster, loads, loaded, displayed, formVars, pressVars, next, listening,
                   mailVars, failures>>

\* loadCurrentUser answers: all events are listened to.
UserLoaded(d) ==
    /\ details[d] = "loading"
    /\ details' = [details EXCEPT ![d] = "open"]
    /\ Attach(d)
    /\ UNCHANGED <<poster, event, loads, loaded, displayed, formVars, pressVars, mailVars,
                   failures>>

\* loadCurrentUser fails: a toast, and nothing is shown.
NoUser(d) ==
    /\ Fail
    /\ details[d] = "loading"
    /\ details' = [details EXCEPT ![d] = "blank"]
    /\ UNCHANGED <<poster, event, loads, loaded, displayed, formVars, pressVars, next,
                   listening, mailVars>>

\* Mutant: the loop stops one event short.
DetailsHeardShort(d) ==
    /\ Hear(d)
    /\ loads' = [loads EXCEPT ![d] = @ + next[d] - 1]
    /\ loaded' = [loaded EXCEPT ![d] = @ + next[d] - 1]
    /\ UNCHANGED <<poster, event, details, displayed, formVars, pressVars, listening,
                   mailVars, failures>>

\* onDataChange: the same event is loaded once for each event there is.
DetailsHeard(d) ==
    /\ Hear(d)
    /\ loads' = [loads EXCEPT ![d] = @ + next[d]]
    /\ loaded' = [loaded EXCEPT ![d] = @ + next[d]]
    /\ UNCHANGED <<poster, event, details, displayed, formVars, pressVars, listening,
                   mailVars, failures>>

\* Events.load answers, and the event is shown.
EventLoaded(d) ==
    /\ loads[d] > 0
    /\ loads' = [loads EXCEPT ![d] = @ - 1]
    /\ displayed' = displayed \cup {d}
    /\ UNCHANGED <<poster, event, details, loaded, formVars, pressVars, next, listening,
                   mailVars, failures>>

\* Events.load fails; onFailed is empty.
EventFailed(d) ==
    /\ Fail
    /\ loads[d] > 0
    /\ loads' = [loads EXCEPT ![d] = @ - 1]
    /\ UNCHANGED <<poster, event, details, loaded, displayed, formVars, pressVars, next,
                   listening, mailVars>>

-----------------------------------------------------------------------------
(* The form.                                                               *)

\* The apply button, loaded or not; the form is not told for which event.
Apply(d) ==
    /\ details[d] \in {"loading", "blank", "open"}
    /\ form[d] = "unopened"
    /\ form' = [form EXCEPT ![d] = "open"]
    /\ UNCHANGED <<poster, screenVars, text, pressVars, next, listening, mailVars, failures>>

\* The fields are filled in or emptied.
Edit(d, t) ==
    /\ form[d] = "open"
    /\ text[d] # t
    /\ text' = [text EXCEPT ![d] = t]
    /\ edited' = edited \cup {s \in Presses : press[s] = "posted" /\ on[s] = d}
    /\ UNCHANGED <<poster, screenVars, form, press, on, typed, next, listening, mailVars,
                   failures>>

\* The submit button posts a runnable, and stays enabled.
Press(d, s) ==
    /\ form[d] = "open"
    /\ press[s] = "free"
    /\ press' = [press EXCEPT ![s] = "posted"]
    /\ on' = [on EXCEPT ![s] = d]
    /\ typed' = [typed EXCEPT ![s] = text[d]]
    /\ UNCHANGED <<poster, screenVars, formVars, edited, next, listening, mailVars, failures>>

\* Mutant: the form stays open for another application.
RunKeepingForm(s) ==
    /\ press[s] = "posted"
    /\ press' = [press EXCEPT ![s] = "starting"]
    /\ UNCHANGED <<poster, screenVars, formVars, on, typed, edited, next, listening, mailVars,
                   failures>>

\* The runnable: sendMail starts a thread, the list of posts opens, the form ends.
Run(s) ==
    /\ press[s] = "posted"
    /\ press' = [press EXCEPT ![s] = "starting"]
    /\ form' = [form EXCEPT ![on[s]] = "finished"]
    /\ UNCHANGED <<poster, screenVars, text, on, typed, edited, next, listening, mailVars,
                   failures>>

\* The thread: all events are listened to.
MailStarted(s) ==
    /\ press[s] = "starting"
    /\ press' = [press EXCEPT ![s] = "listening"]
    /\ Attach(s)
    /\ UNCHANGED <<poster, screenVars, formVars, on, typed, edited, mailVars, failures>>

\* Mutant: the loop stops one event short.
ListHeardShort(s) ==
    /\ Hear(s)
    /\ threads' = [threads EXCEPT ![s] =
                      [e \in Events |-> IF e < next[s] THEN @[e] + 1 ELSE @[e]]]
    /\ UNCHANGED <<poster, screenVars, formVars, pressVars, listening, mailed, bodies,
                   failures>>

\* onDataChange: a thread for each event.
ListHeard(s) ==
    /\ Hear(s)
    /\ threads' = [threads EXCEPT ![s] =
                      [e \in Events |-> IF e <= next[s] THEN @[e] + 1 ELSE @[e]]]
    /\ UNCHANGED <<poster, screenVars, formVars, pressVars, listening, mailed, bodies,
                   failures>>

\* A thread takes what the fields of the form say, finished though it is, and sends
\* it to the poster of its event; an incomplete form is sent as null.
Mail(s, e) ==
    /\ threads[s][e] > 0
    /\ threads' = [threads EXCEPT ![s][e] = @ - 1]
    /\ mailed' = [mailed EXCEPT ![s][e] = @ + 1]
    /\ bodies' = [bodies EXCEPT ![s] = @ \cup {text[on[s]]}]
    /\ UNCHANGED <<poster, screenVars, formVars, pressVars, next, listening, failures>>

\* Mutant: the listeners outlive the app.
MailFailsHeard(s, e) ==
    /\ Fail
    /\ threads[s][e] > 0
    /\ threads' = [r \in Presses |-> [f \in Events |-> 0]]
    /\ press' = [r \in Presses |-> IF press[r] = "free" THEN "free" ELSE "lost"]
    /\ details' = [d \in Screens |-> IF details[d] = "unopened" THEN "unopened" ELSE "lost"]
    /\ form' = [d \in Screens |-> IF form[d] = "unopened" THEN "unopened" ELSE "finished"]
    /\ loads' = [d \in Screens |-> 0]
    /\ displayed' = {}
    /\ UNCHANGED <<poster, event, loaded, text, on, typed, edited, next, listening, mailed,
                   bodies>>

\* The service cannot be reached: the exception of a thread ends the app.
MailFails(s, e) ==
    /\ Fail
    /\ threads[s][e] > 0
    /\ threads' = [r \in Presses |-> [f \in Events |-> 0]]
    /\ press' = [r \in Presses |-> IF press[r] = "free" THEN "free" ELSE "lost"]
    /\ details' = [d \in Screens |-> IF details[d] = "unopened" THEN "unopened" ELSE "lost"]
    /\ form' = [d \in Screens |-> IF form[d] = "unopened" THEN "unopened" ELSE "finished"]
    /\ loads' = [d \in Screens |-> 0]
    /\ listening' = {} /\ displayed' = {}
    /\ UNCHANGED <<poster, event, loaded, text, on, typed, edited, next, mailed, bodies>>

DetailsStep(d) == UserLoaded(d) \/ DetailsHeard(d) \/ EventLoaded(d)
DetailsFailure(d) == NoUser(d) \/ EventFailed(d) \/ Cancelled(d)
MailStep(s) ==
    \/ Run(s) \/ MailStarted(s) \/ ListHeard(s)
    \/ \E e \in Events : Mail(s, e)
MailFailure(s) == Cancelled(s) \/ \E e \in Events : MailFails(s, e)
UserStep(d) ==
    \/ \E e \in Events : OpenDetails(d, e)
    \/ Apply(d)
    \/ \E t \in Texts \cup {Null} : Edit(d, t)
    \/ \E s \in Presses : Press(d, s)

Next ==
    \/ \E p \in Posters : Publish(p)
    \/ \E d \in Screens : UserStep(d) \/ DetailsStep(d) \/ DetailsFailure(d)
    \/ \E s \in Presses : MailStep(s) \/ MailFailure(s)

Spec == Init /\ [][Next]_vars

\* Runnables and threads run, listeners are told, loads are answered.
Fairness ==
    /\ \A d \in Screens : WF_vars(DetailsStep(d))
    /\ \A s \in Presses : WF_vars(MailStep(s))

FairSpec == Spec /\ Fairness
-----------------------------------------------------------------------------
(* What makes an application correct.                                      *)

\* The variables have their types; who listens was opened, or pressed and run.
TypeOK ==
    /\ poster \in Seq(Posters) /\ Len(poster) <= MaxEvents
    /\ event \in [Screens -> Events \cup {Null}]
    /\ details \in [Screens -> {"unopened", "loading", "blank", "open", "lost"}]
    /\ loads \in [Screens -> Nat] /\ loaded \in [Screens -> Nat]
    /\ displayed \subseteq Screens
    /\ form \in [Screens -> {"unopened", "open", "finished"}]
    /\ text \in [Screens -> Texts \cup {Null}]
    /\ press \in [Presses -> PressPhases]
    /\ on \in [Presses -> Screens]
    /\ next \in [Listeners -> Nat]
    /\ listening \subseteq {d \in Screens : details[d] = "open"}
                           \cup {s \in Presses : press[s] = "listening"}
    /\ threads \in [Presses -> [Events -> Nat]]
    /\ mailed \in [Presses -> [Events -> Nat]]
    /\ bodies \in [Presses -> SUBSET (Texts \cup {Null})]
    /\ typed \in [Presses -> Texts \cup {Null}]
    /\ edited \subseteq Presses
    /\ failures \in 0..MaxFailures

\* What the listeners that are never removed (FormActivity.java:137, EventDetails-
\* Activity.java:71) cost: the poster of event e is mailed by one press at most once
\* for each state of the list that had e, and a screen loads its event at most once
\* for each event of each state.
EachStateOnce ==
    /\ \A s \in Presses : \A e \in DOMAIN poster :
          mailed[s][e] + threads[s][e] <= Len(poster) + 1 - e
    /\ \A d \in Screens : 2 * loaded[d] <= Len(poster) * (Len(poster) + 1)

\* The threads read the fields long after the form was left (line 153 and 105-108),
\* and yet say what the form said when it was pressed, unless it was edited before
\* the runnable of the press was run.
FormAsPressed == \A s \in Presses : s \notin edited => bodies[s] \subseteq {typed[s]}

\* A press reaches the poster of the event applied to, though the form is not told
\* which event that is, if nothing fails.
ApplicationArrives ==
    \A s \in Presses :
        press[s] = "posted" ~>
            \/ failures > 0
            \/ \E e \in Events : e = event[on[s]] /\ mailed[s][e] > 0

\* An event that was opened is shown, if nothing fails.
EventGetsShown ==
    \A d \in Screens : details[d] = "loading" ~> (d \in displayed \/ failures > 0)

\* The doc of sendMail (FormActivity.java:128-130): "it gets the event poster email
\* and to send the completed form"; that of sendFormViaEmail (99-102): "to be sent to
\* the Post poster".  Nobody but the poster of the event applied to is mailed.
OnlyPosterMailed ==
    \A s \in Presses : \A e \in DOMAIN poster :
        mailed[s][e] > 0 => poster[e] = poster[event[on[s]]]
=============================================================================
