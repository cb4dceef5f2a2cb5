# Volvi: specification, model checking and proofs

Volvi is an Android app (`src/app/`, 37 Java classes, about 4,500 lines) on which volunteers and nursing homes register, publish posts and events, comment on posts, like them, and apply to events. It has no server code of its own: every screen talks to Firebase (Authentication, Realtime Database, Storage) through asynchronous calls and listeners. What can go wrong in it goes wrong *between* these calls. The project's tests are the two placeholders of a new Android project.

Paths below are relative to `src/app/src/main/java/com/fernandotenorio/volvifinalapp/`.

## 1. Inventory

| Part | State | Operations | Hard behaviour |
|---|---|---|---|
| **Post** (`Model/Blog.java`, `Like`, `Comment`) | node `Volvi Blog/<id>`: comments, likes, `nbComments`, `nbLikes`; in the app a `Blog` object with a snapshot of the numbers | `comment`, `like`, `unlike`, `hasLike`, `loadComments`; `update` is called by nothing | a call is up to three requests chained by callbacks; many users; transactions that are run again; failures and the end of the app between two requests |
| **Screen of a post** (`PostDetailsActivity`) | views: heart and its tag, two numbers, list and title; the `Blog` object | `onCreate`, send, heart, return, `refreshComments` | answers arrive in any order, on a screen that may be gone; taps before loading throw |
| **Registration, sign-in** (`RegisterActivity`, `HomeCareRegistrationActivity`, `MainActivity`) | accounts, profiles `Users/<uid>/<uid>`, the session of the device | validation, `createNewAccount`, `saveDisplayName`, `login`, Google sign-in, sign-out | a chain of five requests, all but one without failure listener, each asking anew who is signed in |
| **Publishing** (`AddPostActivity`, `AddEventActivity`, `Blogs.add`, `Events.add`, `Users`) | image in Storage, record of the user, posts | `startPosting`, `add`, `onSaved` | user taken at three different moments; a listener never removed; screens covered and uncovered |
| **Lists** (`PostListActivity`, `EventListActivity`) | list of rows, child listeners, keep-synced cache | menus, `onStart`, `onChildAdded`, `onDataChange` | the whole list is read again for each child added, and added to what is there; every `onStart` attaches one listener more |
| **Rows** (`BlogsAdapter`, `EventRecycleAdapter`, `CommentsAdapter`) | recycled views, each with the position it was bound to | bind, like, unlike, open | late answers on recycled rows; positions looked up in a list that has changed |
| **Application** (`FormActivity`, `EventDetailsActivity`) | the event shown, a form, listeners on all events, threads | load, apply, `sendMail`, `sendFormViaEmail` | mails to all posters, repeated on each change of the events; threads that read a form already left |
| **The rest** (`CalendarActivity`, `ProfileActivity`, `SendEmailAsync`, `Utils`, `Listeners`) | none worth a model | | |
| **Vendored** (`src/google-cloud-sdk`, `src/emailSender`, `app/libs`) | | | not the program's own |

**Interaction.** A screen owns a `Blog`, `Blogs`, `Events` or `Users` object and hands it listeners; these objects chain Firebase requests and call the listeners on the main thread. Screens share the session (`FirebaseAuth.getCurrentUser()`), the database, and Android's back stack. Nothing cancels a listener when its screen goes.

**What makes each part correct.** Post: the numbers never run ahead of the lists, never count twice, lag only for a known reason; listeners are told the truth. Screen: it never shows what never was, and answers of old calls do not disturb it. Registration: what is typed reaches the account it created, and every chain comes to an end. Publishing: a post is one person's, not several people's, is stored once for each state of the record, and the submission is answered. Lists: every post is shown, the newest first, and how many times over is bounded. Rows: what is tapped, and what number and heart stand there, belong to the post shown. Application: the form arrives at the poster of the event, says what it said when pressed, and is not sent more often than the events change.

## 2. Modules

| Module | What it is | Source |
|---|---|---|
| `CountedList` | abstract: an append-only list of entries and a number written separately | - |
| `LikeCalls` | abstract: an app's calls of like and unlike, each of which counts in one step and is then answered | - |
| `BlogPost` | one post shared by the apps of several users; the chains of `comment`, `like`, `unlike` | `Model/Blog.java`, `Model/Like.java` |
| `BlogPostProofs` | TLAPS proofs about `BlogPost`, and that it implements `CountedList` and `LikeCalls` | |
| `PostDetails` | the screen of a post in each user's app, composed with `BlogPost` (EXTENDS it and conjoins its actions) | `Activities/PostDetailsActivity.java` |
| `Registration` | registration chains, sign-in and sign-out on one device | `RegisterActivity`, `HomeCareRegistrationActivity`, `MainActivity` |
| `RegistrationProofs` | TLAPS proofs about `Registration` | |
| `Publishing` | add-post and add-event forms, their chains, the back stack and the session | `AddPostActivity`, `AddEventActivity`, `Model/Blogs.java`, `Model/Events.java`, menus of the lists |
| `PublishingProofs` | TLAPS proofs about `Publishing` | |
| `PostDetailsProofs` | TLAPS proofs about `PostDetails`, on top of `BlogPostProofs` | |
| `PostList` | the list of posts (or events), its listeners, reads and queue of events | `PostListActivity`, `EventListActivity` |
| `PostListProofs` | TLAPS proofs about `PostList` | |
| `PostRows` | the rows of the list of posts | `Data/BlogsAdapter.java`, calls of `Model/Blog.java` |
| `PostRowsProofs` | TLAPS proofs about `PostRows`, and that its calls implement `LikeCalls` | |
| `Application` | the screen of an event, the application form, `sendMail` | `EventDetailsActivity`, `FormActivity`, `Data/EventRecycleAdapter.java` |
| `ApplicationProofs` | TLAPS proofs about `Application` | |
| `MC...` | instances and symmetry for TLC | |

Operators named "Mutant" in comments are plausible bugs. No specification uses them; replacing the definition that follows by one of them makes TLC report a violation, which shows that the properties depend on the code. `PROJECT.json` lists which mutant breaks which property, and for every definition the lines it models.

### BlogPost
A call `c` (also its push key) moves through `phase[c]`: `asking` (`hasLike` under way) -> `writing` (`updateChildren`/`removeValue` sent) -> `written` (applied; acknowledgement on its way) or `refused` -> `counting` (`runTransaction`) -> `counted` or `aborted` -> one of the ends `answered`, `cached` (`onLike(nbLikes)` from the `Blog` object), `misreported`, `failed`, `crashed`. The database's steps and the app's steps are separate actions, so that other calls, failures and the end of the app fall between any two.

- The transaction is Firebase's compare-and-set loop. `doTransaction` first runs on the local cache, which holds the number or nothing (`Null`) depending on whether the list keeps the posts synchronised; it commits if the database holds the value it ran on (`TransactionCommitted`), else is run again (`TransactionRerun`).
- `Transaction.Handler.onComplete` ignores its error (lines 188, 252, 310): `AbortDelivered` hands the last value to the listener as success, or throws if there is none.
- `hasLike` asks for `orderByChild("uid").equalTo(uid())`, the uid of the *post*; `Like.toMap` writes `authorId`, and no `uid`. `LikesFound` says so with the set of fields, and it is therefore always empty: every like of a user is stored again, `unlike` always ends `cached`. `LikesAreCountedList` is the precise consequence, `TypeOK` (numbers in `Nat`) another: once likes are found (the mutant `LikeFieldsWithUid`), a decrement can overtake the increment of the like it removes and the number becomes negative.

### PostDetails
`screen`, `heart` (the tag: unset until `hasLike` answers), `shownLikes`, `shownComments`, `title` and the queue `reads` of list reads are the views; `onScreen` are the calls whose listener still has its screen. `Close` (return) drops the views and leaves the calls alone. `Throws` are the places where the program ends itself: failed load (`mProgress` is never set, line 132), send before loading (159), heart before its tag (192).

### Registration
An attempt goes `creating` -> `uploading` -> `linking` -> `mailing` -> `registered`, then its name and profile are `saving`. `session` is the account signed in, which `createUserWithEmailAndPassword` replaces. `recipient` and `owner` record whom the callbacks found signed in. The history variable `crossed` collects the attempts during which the session became someone else's, `replaced` the accounts whose password a Google sign-in took away: `firebaseAuthWithGoogle` (`MainActivity.java:227`) asks for no more than the session to be free, and Firebase hands it an account that was registered by password and not verified, too. A password is a number of visible characters with blanks around them, which is all that `trim`, `length() > 4` and Firebase's minimum tell apart.

### Publishing
`screens` is Android's back stack, of MainActivity, forms, and lists with the `mUser` each took in `onCreate`. A submission goes `uploading` -> `linking` -> `listening`; `user`, `author`, `watched` are the three users it takes (the `User` of its form, the `FirebaseUser` of the press, the one of the URL's arrival). A listening submission stores a post for every state (`version`) of the record that it has not stored one for, until its listener is cut off (`RecordCancelled`, the empty `onCancelled`) and it is `cancelled`: it hears no more, while the posts it sent are still answered. `crossed` are the forms and submissions that saw the session change.

A post carries the `uid` of `user`, the address (`email`, of events) and the display name (`author`, in an event `user`) of the `FirebaseUser` of the press, and the `picture` of the record. The name is another thing than the account: a registration saves it by a request of its own (`NameSaved`), and `getDisplayName()` is null until then. `nameless` are the submissions pressed before; `NamesOf` lets them find the name or not, should it be saved before the post is put together.

A sign-in opens one list or two: MainActivity's listener on the session opens one and finishes the screen, and the callback of the sign-in itself opens another unless the screen has stopped by then (`MainActivity.java:93`, 172, 243). The lower one stays through a sign-out with the `mUser` of a session that is over. `SwitchList` are the menu items that lead from one list to the other; both kinds of list are the same screen here.

### PostList
The client library works on its own thread: it learns of posts (`Learn`), and serves reads (`ReadServed`), and what it has to report waits in `events` for the main thread. A report of a child makes the screen read the whole node (`ChildAdded`); an answer starts the loop of `onDataChange` (`DataChange`), whose turns (`RowAdded`) add a post and turn the whole list round. The posts are numbers in the order of their keys. `listeners` only grows: `onStart` attaches one more each time and nothing removes any; `hearing` of them were not cut off (`ListenersCancelled`, the empty `onCancelled` of the child listener). The loop is not interrupted by other callbacks (`Idle`), but the client goes on beside it.

### PostRows
A view holder `h` captured `position[h]`; its title, number and heart are `shown`, `number`, `tag`. Binding asks `hasLike` (`asks`) and leaves the heart as it was until the answer. A tap looks up `blogs.get(i)` at the captured position and starts a call, of which only what rows can tell is kept (`asking`, `counting`, `counted`); `BlogPost` has the chain, and `PostRows` takes from it that no like is ever found, and that a failed transaction tells some number it has seen. That the rows may take the chain for so little is checked from both sides: to each user the chains of `BlogPost` implement `LikeCalls` (`LikesAreCalls`), and so do the calls of the rows on each post (`RowsAreCalls`). `Read` changes the list the adapter shares with the screen, and `setAdapter` drops all views in the same callback; calls made on dropped views (those no longer `attached`) are answered to nobody. `overtaken` are calls under way when their view was bound again.

### Application
A listener `l` - of a screen `d` or of a press `s` - hears the states of the list of events in order; `next[l]` is the next one, named by its length since the list only grows. The screen loads its one event once for every event of every state (`loads`, `loaded`). A press goes `posted` (the runnable) -> `starting` (the thread of `sendMail`) -> `listening`; a state of `n` events starts `n` threads, and each reads the fields of the form when it runs. `mailed` counts what was handed to SendGrid (the code makes `MailSettings` for its sandbox at 156-159 and never attaches them to the mail). A thread that cannot reach the service throws, and the app ends.

### Assumptions about Firebase and Android (external)
Single reads are answered with a value the database held after they were made, in the order they were made; the client's speculative local values are not modelled beyond the transaction's first run. A write sent is applied or refused even if its app is gone. One account per address, passwords of at least six characters. A Google sign-in takes over an account of its address: a verified one keeps its password, an unverified one loses it. A `FirebaseUser` taken after the display name was saved knows it; one taken before may or may not. `startActivity` works from a finished screen of a living process. Security rules may refuse any write (a failure); that they cancel a listener or a read is modelled wherever state hangs on the `onCancelled` the code has (`BlogPost`, `PostDetails`, `Publishing`, `PostList`, `Application`). `setAdapter` detaches the views of the old adapter at once, so that no tap reaches them. Value listeners are told every state of the list; Firebase may join states that follow quickly, which is fewer mails and loads, never more.

## 3. Runs

| Run | Instance | Shows |
|---|---|---|
| `BlogPostSafety` | 2 users, 3 calls, 2 failures; symmetric calls; 1.1M states | `NumbersExact`, `GapHasCause`, `CallbacksTruthful`, `NumbersSerial`; refinement `CommentsAreCountedList`, `LikesAreCountedList` |
| `BlogPostLive` | 2 users, 2 calls, 2 failures, fair; 75k states | refinement `LikesAreCalls`: what a user sees of a like or unlike is a call that counts in one step; `CallsEnd`; `NumbersSettle`: without failures the gap closes for good once nobody acts |
| `PostDetailsUsers` | 2 users, 2 calls, no failure; 402k states | `HeartTrue` |
| `PostDetailsOne` | 1 user, 2 calls, 1 failure of each kind, fair; 132k states | `ShownNeverAhead`, `TitleCoversCount`, with failures, throws and reopening; `OwnCommentSeen` |
| `RegistrationSafety` | 2 attempts, 2 addresses, 10 forms, 1 failure, fair; 422k states | `DataGoesHome`, `ProfilesKept`, `AccountsComplete`, `SignInAsRegistered`, `RegistrationsEnd` |
| `RegistrationFour` | violated as expected | the documented minimum of four characters is not what the code accepts |
| `PublishingSafety` | 2 people, 2 forms, 2 submissions, names and records saved once, two lists after a sign-in, 1 failure; 5.2M states | `PostsCoherent`, `PostsAttributed` |
| `PublishingLive` | 2 people, 1 form, 1 submission, 2 states of a record, two lists after a sign-in, 1 failure, fair; 393k states | `OnePostPerState`, `SubmissionsAnswered` |
| `PostList` | 4 posts, 2 starts, 1 cancelled read or set of listeners, fair; 83k states | `RowsDealt`, `NewestFirst`, `CopiesPerPost`, `PostsGetShown` |
| `PostRows` | 1 view, 2 rows, 2 posts, 2 calls, 1 failure; symmetric; 965k states | `TapHitsShown`, `RowNumberTrue`, `HeartMeansLike` |
| `ApplicationFair` | 1 poster, 1 screen, 2 presses, 2 events, 1 failure, fair; 280k states | `EachStateOnce`, `FormAsPressed`, `ApplicationArrives`, `EventGetsShown` |
| `ApplicationOthers` | 2 posters; violated as expected | an application is mailed to people it was not made to |

Every passing run but `BlogPostLive`, `PostDetailsUsers` and `PublishingLive`, whose sisters do, also checks the type invariant of its module.

**Bounds.** A lost update takes two calls on a number; three let one commit between the first run and the second run of another, or a like and an unlike meet a comment. Two failures allow a refused write and the end of the app in one behaviour. Two attempts of registration are what it takes for one to cross another, one failure what it takes to leave a gap. In Publishing two submissions are what it takes to press a form signed out (the list that announces the first has the sign-out above that form), a second account gives the mixed post, a second state of a record the second post of one press, a second form the covered and uncovered form. In PostList four posts give three reports that cross in the queue with the answers of earlier ones, and a second start a second listener. One view, two rows and two posts are what it takes to recycle a view for another post, two calls to overtake one by another. In Application two events make a state after the first and somebody else to mail; two presses share a form. `MaxScreens` bounds the stack on which a sign-in may leave two lists, `MaxLikes` the likes given elsewhere, `MaxAsks` the answers a view waits for at once. `MaxFailures` bounds refused, cancelled and aborted requests and kills, `MaxVersion` the states of a record. Deadlock is not checked: users may stop, and calls, attempts, presses, starts, posts and events are finite.

**Fairness.** Weak fairness, and only on steps that Firebase or a callback takes: requests that were sent are answered, listeners of a running app are told, and runnables and threads that were started run (Android's main loop and scheduler). No user action, failure or kill is fair. Each action so assumed stays enabled until it is taken or the app ends.

**Findings.** `HomeCareRegistrationActivity.java:152` documents "a confirmation for the password with e length min. of 4"; line 157 tests `length() > 4`. `RegistrationFour` shows the form with a confirmed password of four characters being turned down.

`FormActivity.java:129` documents that `sendMail` "gets the event poster email and to send the completed form", and line 100 that the form is "to be sent to the Post poster". The form is opened without being told the event, and the loop at line 140 mails the poster of *every* event. `ApplicationOthers` shows an application to one person's event being mailed to another person. (The form need not be complete either: `sendFormViaEmail` returns `null` for one that is not, and that is mailed.)

What else the models say about the code, without a document to contradict it: likes are never found again and never removed (above); a failed transaction is reported as success; an account may be left without name and profile when an upload fails (the escape clauses of `AccountsComplete`); a Google sign-in takes the password of an account whose link was not followed (the `replaced` of `SignInAsRegistered`); a user signed in by Google can submit posts that are neither stored nor refused, and so can one whose listener is cut off (`Answered`); a post can be without its author's name (the `nameless` of `PostsAttributed`); a form kept below a list through a sign-out and a sign-in makes posts with the uid of one person and the name of another (the `crossed` of `PostsCoherent`); a profile saved again stores posts again (`OnePostPerState` allows exactly that); with one start of the list the oldest of n posts is shown n times over, and with k starts k times that (`CopiesPerPost`), in an order that only its first row makes sense of (`RowsDealt`); a row that was bound again while a like was under way may show the number of another post (the escape clause of `RowNumberTrue`); a new event mails every earlier application again to every poster, as long as the app runs (`EachStateOnce` allows exactly that).

## 4. Proofs

Checked by TLAPS for all values of the constants, under the `ASSUME`s of the modules (`Null` is nobody's name, the set of calls is finite, bounds are natural numbers, forms are records of the stated shape). Every proof has the same plan: an inductive invariant `IInv` with `Init => IInv` (lemma `InitIInv`) and `IInv /\ [Next]_vars => IInv'` (lemma `StepIInv`, one step per action), and the theorems drawn from it.

- **BlogPostProofs.** No property is inductive by itself: that a commit counts a stored entry for the first time needs to know what each phase says of the database (`ChainOK`: stored, counted, never an unlike that writes), that failures have a cause (`BlameOK`), and that committed transactions ran on different values below the present one (`SerialOK`, which gives `NumbersSerial`). From it: `TypeCorrect`, `ExactNumbers`, `NumbersNeverAhead`, `EveryGapHasCause`, `TruthfulCallbacks`, `SerialAnswers`, and the refinements `CommentsImplementList`, `LikesImplementList` (initial states map to initial states, every step to an append, a tally or a stutter). `LikesImplementCalls` refines `LikeCalls` once for each user `u`: `Stage` maps the phases to the stages of a call, so that `hasLike`, the write and the runs of a transaction that do not commit are stutters, the commit is the step that counts, and a failure the only way to be answered with a number the call did not make; `SeenOK` (a transaction has seen a number no greater than the present one, the very one it wrote if it is counted) is what the answer rests on, and a step of another user, or of a comment, changes nothing but the number. `EveryCallAdvances` gives every call a bounded `Progress`, which each step of its chain raises and no step lowers: a transaction is run again only because its number grew, and the number counts calls. That is `CallsEnd` but for fairness: no call can be kept turning by the others.
- **RegistrationProofs.** `ProgressOK` (how far an attempt has come tells what was done, and attempts past creation have different addresses) and `SessionOK` (the account of an attempt that nobody crossed is the session). From it `TypeCorrect`, `DataReachesHome` and the action property `ProfilesAreKept`; with `PasswordsOK` (the account of an attempt has the password the attempt trimmed, or none if it was `replaced`) also `SignsInAsRegistered`, and with `AllServed` (while nothing fails, every account registered by password is served by an attempt that is at work, has saved, or was crossed) also `AccountsAreComplete`. `EveryAttemptAdvances` counts the steps an attempt has `Left`, at most seven: its own steps lessen them, and nobody's sign-in, sign-out, registration or failure adds any, so that registrations end if only their requests are answered.
- **PublishingProofs.** `FormsOK` (forms on the stack were opened, the `User` of a form that saw no change is the session), `ChainOK` (what a submission took so far agrees with the session, then with the record listened to) and `HeardOK` (its posts are of states it heard, none beyond the record's; a submission that is cut off needs neither); the lemma `SignInStacks` covers both ways a sign-in may leave the stack. From it `TypeCorrect`, `CoherentPosts`, `AttributedPosts`, `OnePostEach`.

- **PostDetailsProofs.** First `PostStep`: every step of the screens is a step of `BlogPost` or leaves it alone, which is `ScreensUsePost` and lets `BlogPost`'s `IInv`, and what is drawn from it, be used as it stands (`ScreensMakeCalls`). To it come `KeptOK` (every number the apps keep was once the post's; numbers only grow), `ShapeOK` (a screen without a post shows and reads nothing), `ListsCover` (the *last* list asked for has at least the comments counted beside it, which makes the order of the answers harmless) and `HeartsBacked` (a red heart has a like stored or on its way). From it `ScreenTypeCorrect`, `ScreensNeverAhead`, `TitlesCoverCounts`, `HeartsAreTrue`.
- **PostListProofs.** That the newest post ends up first needs the order of the queue (`OrderOK`: answers wait in the order of what they hold), that the newest post known is always reported, read for, answered or added (`NewestOK`; without a failure every listener hears on, `HearingOK`), and that the loop leaves its last post first (`LoopOK`). `RowsDealt` is inductive with the lemma `AddReversed` about `Reverse(Append(s, x))`. From it `TypeCorrect`, `DealtAsCards`, `NewestIsFirst`. `CopiesCounted` bounds the copies of each post without a sum over the history: the rows that show a post, the turn of the loop that will add it, the reports and answers in the queue that may still add it and the reads being asked are counted together (`Copying`). Only a report makes this number grow, and there are at most `listeners * cache` reports in all (`MostOK`); a read that was cancelled, or made before the post was known, makes it less, so that without failures at least the reports of the post and of later ones remain (`LeastOK`). In a settled list all of them have become rows.
- **PostRowsProofs.** `ViewsOK` (bound views show something, unbound ones nothing) and `NumbersOK` (no number kept by the list or a call exceeds the stored one), and the three properties themselves, which are inductive only together: that a number is of the post shown rests on calls that were not overtaken having been made on it. From it `TypeCorrect`, `TapsHitShown`, `RowNumbersTrue`, `HeartsMeanLikes`. `RowsMakeCalls` proves `RowsAreCalls`, the refinement of `LikeCalls` for each post; no run checks it, since TLC needs over four minutes for it on the instance of `PostRows`.
- **ApplicationProofs.** `StartedByStates` (mails, threads and loads are paid for by states heard: at most `next - e` mails to the poster of event `e`, and `next * (next - 1) / 2` loads) and `FormLeft` (a form is finished before anything is mailed, and then says what it said at the press). From it `TypeCorrect`, `StatesHeardOnce`, `MailedAsPressed`.

Only model-checked: the liveness properties `CallsEnd`, `NumbersSettle`, `OwnCommentSeen`, `RegistrationsEnd`, `SubmissionsAnswered`, `PostsGetShown`, `ApplicationArrives` and `EventGetsShown`, since liveness under fairness is out of the prover's reach. Every invariant, action property and refinement that a passing run checks is also proved.

## 5. Not modelled, and the plan

Not modelled, with reasons, in `PROJECT.json` under `components`: calendar and profile screens, `SendEmailAsync` (sample code nobody calls), formats and constants, vendored code (`google-cloud-sdk`, which is nearly all of the repository's lines, is a copy of another project's program). The texts, dates and pictures themselves are data that no property tells apart; the loss of text typed (`PostDetailsActivity.java:162`) is listed as a hazard without a property. `Blog.update`, the choice of pictures and dates, progress dialogs, the account type `AddEventActivity` looks at (238-265, which shows a dialog and stops nothing), the search field of the list, and the return button of an event's screen are left out.

Every part of the app that keeps state or waits for answers now has a module. What could follow:

1. Composition: `PostRows` on top of `BlogPost` as `PostDetails` is (they meet in `LikeCalls` only, which leaves the stored likes aside), and `PostList` under `PostRows`, so that `Read` is the very loop of `PostList` instead of any rearrangement.
2. The stack of `Publishing` joined with the screens of `PostDetails` and `Application`, which come and go on it.
