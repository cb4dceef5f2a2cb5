--------------------------- MODULE RegistrationProofs ---------------------------
(***************************************************************************)
(* Proofs about Registration for every set of attempts, addresses and      *)
(* forms and any number of failures.                                       *)
(***************************************************************************)
EXTENDS Registration, TLAPS

\* Before anyone registers nothing has been sent or saved.
LEMMA InitIInv == Init => IInv
  <1> SUFFICES ASSUME Init PROVE IInv
    OBVIOUS
  <1> USE NullAssumption, MaxFailuresAssumption DEF Init
  <1>1. TypeOK
    BY DEF TypeOK, Phases, UnderWay
  <1>2. ProgressOK
    BY DEF ProgressOK, Owning
  <1>3. SessionOK /\ DataGoesHome
    BY DEF SessionOK, DataGoesHome
  <1>4. QED
    BY <1>1, <1>2, <1>3 DEF IInv

\* A trimmed password is a password.
LEMMA TrimType ==
    ASSUME NEW f \in Forms
    PROVE  Trim(f.password) \in [visible : Nat, blanks : Nat]
  BY FormsAssumption DEF Trim

\* Every step keeps the inductive invariant.
LEMMA StepIInv == IInv /\ [Next]_vars => IInv'
  <1> SUFFICES ASSUME IInv, [Next]_vars PROVE IInv'
    OBVIOUS
  <1> USE NullAssumption, MaxFailuresAssumption, FormsAssumption
      DEF IInv, TypeOK, ProgressOK, SessionOK, DataGoesHome, Phases, UnderWay,
          Owning, auth
  <1>1. ASSUME NEW a \in Attempts, NEW f \in Forms, Submit(a, f) PROVE IInv'
    <2>1. TypeOK' /\ SessionOK' /\ DataGoesHome'
      BY <1>1 DEF Submit, Goto
    <2>2. ProgressOK'
      BY <1>1 DEF Submit, Goto
    <2>3. QED
      BY <2>1, <2>2
  <1>2. ASSUME NEW a \in Attempts, AccountCreated(a) PROVE IInv'
    <2>a. passwords' \in [Emails -> [visible : Nat, blanks : Nat] \cup {Null}]
      <3>1. form[a] \in Forms /\ passwords' = [passwords EXCEPT ![form[a].email] = Trim(form[a].password)]
        BY <1>2 DEF AccountCreated
      <3>2. Trim(form[a].password) \in [visible : Nat, blanks : Nat]
        BY <3>1, TrimType
      <3>3. QED
        BY <3>1, <3>2
    <2>1. CASE form[a].picture
      <3>1. TypeOK'
        <4>1. /\ accounts' = accounts \cup {form[a].email} /\ form[a].email \in Emails
              /\ \A e \in Emails : passwords'[e] # Null => e \in accounts'
          BY <1>2 DEF AccountCreated
        <4>2. QED
          BY <1>2, <2>a, <2>1, <4>1 DEF AccountCreated, Goto, Crossing
      <3>2. ProgressOK'
        BY <1>2, <2>1 DEF AccountCreated, AuthAccepts, Goto
      <3>3. SessionOK' /\ DataGoesHome'
        BY <1>2, <2>1 DEF AccountCreated, AuthAccepts, Goto, Crossing
      <3>4. QED
        BY <3>1, <3>2, <3>3
    <2>2. CASE ~form[a].picture
      <3>1. TypeOK'
        <4>1. /\ accounts' = accounts \cup {form[a].email} /\ form[a].email \in Emails
              /\ \A e \in Emails : passwords'[e] # Null => e \in accounts'
          BY <1>2 DEF AccountCreated
        <4>2. QED
          BY <1>2, <2>a, <2>2, <4>1 DEF AccountCreated, AppEnds, Crossing
      <3>2. ProgressOK'
        BY <1>2, <2>2 DEF AccountCreated, AuthAccepts, AppEnds
      <3>3. SessionOK' /\ DataGoesHome'
        BY <1>2, <2>2 DEF AccountCreated, AuthAccepts, AppEnds, Crossing
      <3>4. QED
        BY <3>1, <3>2, <3>3
    <2>3. QED
      BY <2>1, <2>2
  <1>3. ASSUME NEW a \in Attempts, AccountRefused(a) PROVE IInv'
    BY <1>3 DEF AccountRefused, Goto
  <1>4. ASSUME NEW a \in Attempts, PictureUploaded(a) PROVE IInv'
    BY <1>4 DEF PictureUploaded, Goto
  <1>5. ASSUME NEW a \in Attempts, UrlArrived(a) PROVE IInv'
    <2>1. CASE session = Null
      BY <1>5, <2>1 DEF UrlArrived, AppEnds
    <2>2. CASE session # Null
      <3>1. TypeOK' /\ ProgressOK'
        BY <1>5, <2>2 DEF UrlArrived, Goto
      <3>2. SessionOK' /\ DataGoesHome'
        BY <1>5, <2>2 DEF UrlArrived, Goto
      <3>3. QED
        BY <3>1, <3>2
    <2>3. QED
      BY <2>1, <2>2
  <1>6. ASSUME NEW a \in Attempts, LinkMailed(a) PROVE IInv'
    <2>1. CASE session = Null
      BY <1>6, <2>1 DEF LinkMailed, AppEnds
    <2>2. CASE session # Null
      <3>1. /\ phase' = [phase EXCEPT ![a] = "registered"]
            /\ owner' = [owner EXCEPT ![a] = session]
            /\ saving' = [saving EXCEPT ![a] = {"name", "profile"}]
            /\ mailed' = mailed \cup {recipient[a]}
            /\ phase[a] = "mailing"
            /\ UNCHANGED <<accounts, passwords, verified, named, profiles, session,
                           form, recipient, crossed, replaced, failures>>
        BY <1>6, <2>2 DEF LinkMailed, Goto
      <3>2. TypeOK'
        BY <2>2, <3>1
      <3>3. ProgressOK'
        BY <2>2, <3>1
      <3>4. SessionOK' /\ DataGoesHome'
        BY <2>2, <3>1
      <3>5. QED
        BY <3>2, <3>3, <3>4
    <2>3. QED
      BY <2>1, <2>2
  <1>7. ASSUME NEW a \in Attempts, NameSaved(a) PROVE IInv'
    BY <1>7 DEF NameSaved
  <1>8. ASSUME NEW a \in Attempts, ProfileSaved(a) PROVE IInv'
    BY <1>8 DEF ProfileSaved
  <1>9. ASSUME NEW a \in Attempts, LinkFailed(a) PROVE IInv'
    BY <1>9 DEF LinkFailed, Goto, Fail
  <1>10. ASSUME NEW a \in Attempts, RequestFailed(a) PROVE IInv'
    BY <1>10 DEF RequestFailed, Goto, Fail
  <1>11. ASSUME NEW a \in Attempts, SaveDropped(a) PROVE IInv'
    BY <1>11 DEF SaveDropped, Fail
  <1>12. ASSUME NEW e \in Emails, NEW f \in Forms, Login(e, f.password) PROVE IInv'
    BY <1>12 DEF Login, LoginAccepts, Crossing
  <1>13. ASSUME NEW e \in Emails, GoogleSignIn(e) PROVE IInv'
    <2>1. /\ accounts' = accounts \cup {e} /\ verified' = verified \cup {e}
          /\ named' = named \cup {e} /\ session' = e
          /\ crossed' = crossed \cup Crossing(e)
          /\ UNCHANGED <<mailed, profiles, form, phase, recipient, owner, saving, failures>>
      BY <1>13 DEF GoogleSignIn
    <2>2. /\ replaced' \subseteq accounts'
          /\ passwords' \in [Emails -> [visible : Nat, blanks : Nat] \cup {Null}]
          /\ \A d \in Emails : passwords'[d] # Null => d \in accounts'
      <3>1. CASE passwords[e] # Null /\ e \notin verified
        BY <1>13, <3>1 DEF GoogleSignIn
      <3>2. CASE ~(passwords[e] # Null /\ e \notin verified)
        BY <1>13, <3>2 DEF GoogleSignIn
      <3>3. QED
        BY <3>1, <3>2
    <2>3. TypeOK'
      BY <2>1, <2>2 DEF Crossing
    <2>4. ProgressOK'
      BY <2>1
    <2>5. SessionOK' /\ DataGoesHome'
      BY <2>1 DEF Crossing
    <2>6. QED
      BY <2>3, <2>4, <2>5
  <1>14. ASSUME NEW e \in Emails, LinkFollowed(e) PROVE IInv'
    BY <1>14 DEF LinkFollowed
  <1>15. CASE SignOut
    BY <1>15 DEF SignOut, Crossing
  <1>16. CASE Kill
    BY <1>16 DEF Kill, AppEnds, Fail
  <1>17. CASE UNCHANGED vars
    BY <1>17 DEF vars
  <1>18. QED
    BY <1>1, <1>2, <1>3, <1>4, <1>5, <1>6, <1>7, <1>8, <1>9, <1>10,
       <1>11, <1>12, <1>13, <1>14, <1>15, <1>16, <1>17 DEF Next, RegistrationStep

\* IInv is an inductive invariant of registration.
THEOREM Inductive == Spec => []IInv
  BY InitIInv, StepIInv, PTL DEF Spec

\* Accounts, sessions, forms and profiles keep their types.
THEOREM TypeCorrect == Spec => []TypeOK
  BY Inductive, PTL DEF IInv

\* Link, name and profile reach the account registered, or another sign-in crossed.
THEOREM DataReachesHome == Spec => []DataGoesHome
  BY Inductive, PTL DEF IInv

\* Only a crossed registration replaces a profile, or has its own replaced.
THEOREM ProfilesAreKept == Spec => ProfilesKept
  <1> DEFINE Kept == \A e \in Emails :
                        profiles[e] # Null /\ profiles'[e] # profiles[e]
                            => profiles[e] \in crossed \/ profiles'[e] \in crossed
  <1>1. IInv /\ [Next]_vars => [Kept]_vars
    <2> SUFFICES ASSUME IInv, Next PROVE Kept
      BY DEF vars
    <2>1. CASE profiles' = profiles
      BY <2>1
    <2>2. ASSUME NEW a \in Attempts, ProfileSaved(a) PROVE Kept
      <3> SUFFICES ASSUME NEW e \in Emails, profiles[e] # Null, profiles'[e] # profiles[e],
                          profiles[e] \notin crossed, a \notin crossed
                   PROVE  FALSE
        BY <2>2 DEF ProfileSaved, IInv, TypeOK
      <3> DEFINE b == profiles[e]
      <3>1. owner[a] = e /\ b # a /\ b \in Attempts
        BY <2>2 DEF ProfileSaved, IInv, TypeOK
      <3>2. phase[a] = "registered" /\ phase[b] = "registered"
        BY <3>1, NullAssumption DEF IInv, ProgressOK
      <3>3. form[a].email = e /\ form[b].email = e
        BY <3>1, NullAssumption DEF IInv, DataGoesHome
      <3>4. QED
        BY <3>1, <3>2, <3>3 DEF IInv, ProgressOK, Owning
    <2>3. (\A a \in Attempts : ~ProfileSaved(a)) => profiles' = profiles
      BY DEF Next, RegistrationStep, Submit, AccountCreated, AccountRefused,
             PictureUploaded, UrlArrived, LinkMailed, NameSaved, LinkFailed,
             RequestFailed, SaveDropped, Login, GoogleSignIn, LinkFollowed,
             SignOut, Kill, auth
    <2>4. QED
      BY <2>1, <2>2, <2>3
  <1>2. QED
    BY Inductive, <1>1, PTL DEF Spec, ProfilesKept
-----------------------------------------------------------------------------
\* An account made by a registration has the password of its form, trimmed, until a
\* Google sign-in takes it away; a form is pressed once.
PasswordsOK ==
    /\ \A a \in Attempts : form[a] # Null => phase[a] # "idle"
    /\ \A a \in Attempts :
          phase[a] \in Owning =>
             passwords[form[a].email] = IF form[a].email \in replaced THEN Null
                                        ELSE Trim(form[a].password)

\* What a registration that nobody crossed has done, or is about to do, for e.
Serves(a, e) ==
    /\ form[a] # Null /\ form[a].email = e
    /\ \/ phase[a] \in {"uploading", "linking", "mailing"}
       \/ a \in crossed
       \/ /\ owner[a] = e
          /\ "name" \in saving[a] \/ e \in named
          /\ "profile" \in saving[a] \/ profiles[e] # Null

\* An account that was made with a password.
Registered(e) == passwords[e] # Null \/ e \in replaced

AllServed ==
    failures = 0 /\ (\A a \in Attempts : phase[a] # "lost") =>
        \A e \in accounts : Registered(e) => \E a \in Attempts : Serves(a, e)

\* Only Google takes a password away, and only a new account gets one.
LEMMA StepPasswords == IInv /\ PasswordsOK /\ [Next]_vars => PasswordsOK'
  <1> SUFFICES ASSUME IInv, PasswordsOK, [Next]_vars PROVE PasswordsOK'
    OBVIOUS
  <1> USE NullAssumption, FormsAssumption
      DEF IInv, TypeOK, ProgressOK, PasswordsOK, Phases, UnderWay, Owning, auth
  <1>1. ASSUME NEW a \in Attempts, NEW f \in Forms, Submit(a, f) PROVE PasswordsOK'
    BY <1>1 DEF Submit, Goto
  <1>2. ASSUME NEW a \in Attempts, AccountCreated(a) PROVE PasswordsOK'
    <2> DEFINE f == form[a]
    <2>1. /\ f \in Forms /\ f.email \notin accounts /\ f.email \notin replaced
          /\ passwords' = [passwords EXCEPT ![f.email] = Trim(f.password)]
          /\ UNCHANGED <<form, replaced>>
          /\ \A b \in Attempts :
                \/ phase'[b] = phase[b]
                \/ b = a /\ phase'[b] = "uploading"
                \/ phase'[b] = "lost"
          /\ phase[a] = "creating"
      BY <1>2 DEF AccountCreated, AuthAccepts, Goto, AppEnds
    <2>2. \A b \in Attempts : form'[b] # Null => phase'[b] # "idle"
      BY <2>1
    <2>3. ASSUME NEW b \in Attempts, phase'[b] \in Owning
          PROVE  passwords'[form[b].email] = IF form[b].email \in replaced THEN Null
                                             ELSE Trim(form[b].password)
      <3>1. CASE b = a
        BY <2>1, <3>1
      <3>2. CASE b # a
        <4>1. phase[b] \in Owning /\ form[b].email \in accounts /\ form[b].email \in Emails
          BY <2>1, <2>3, <3>2
        <4>2. passwords'[form[b].email] = passwords[form[b].email]
          BY <2>1, <4>1
        <4>3. QED
          BY <4>1, <4>2
      <3>3. QED
        BY <3>1, <3>2
    <2>4. QED
      BY <2>1, <2>2, <2>3
  <1>3. ASSUME NEW a \in Attempts,
               \/ AccountRefused(a) \/ PictureUploaded(a) \/ UrlArrived(a)
               \/ LinkMailed(a) \/ LinkFailed(a) \/ RequestFailed(a)
        PROVE  PasswordsOK'
    <2>1. /\ UNCHANGED <<accounts, passwords, form, replaced>>
          /\ phase[a] \in UnderWay
          /\ \/ AppEnds
             \/ \E p \in Phases \ {"idle"} :
                   phase' = [phase EXCEPT ![a] = p] /\ (p \in Owning => phase[a] \in Owning)
      <3>0. /\ {"unheard", "linking", "mailing", "registered", "refused"} \subseteq Phases \ {"idle"}
            /\ {"uploading", "linking", "mailing"} \subseteq Owning
            /\ {"creating", "uploading", "linking", "mailing"} \subseteq UnderWay
            /\ "unheard" \notin Owning /\ "refused" \notin Owning
        OBVIOUS
      <3> HIDE DEF IInv, TypeOK, ProgressOK, PasswordsOK, Phases, UnderWay, Owning
      <3>1. CASE AccountRefused(a)
        BY <3>0, <3>1 DEF AccountRefused, Goto
      <3>2. CASE PictureUploaded(a)
        BY <3>0, <3>2 DEF PictureUploaded, Goto
      <3>3. CASE UrlArrived(a)
        BY <3>0, <3>3 DEF UrlArrived, Goto
      <3>4. CASE LinkMailed(a)
        BY <3>0, <3>4 DEF LinkMailed, Goto
      <3>5. CASE LinkFailed(a)
        BY <3>0, <3>5 DEF LinkFailed, Goto
      <3>6. CASE RequestFailed(a)
        BY <3>0, <3>6 DEF RequestFailed, Goto
      <3>7. QED
        BY <1>3, <3>1, <3>2, <3>3, <3>4, <3>5, <3>6
    <2>2. \A b \in Attempts :
             /\ phase'[b] \in Owning => phase[b] \in Owning
             /\ phase'[b] = "idle" => phase[b] = "idle"
      BY <2>1 DEF AppEnds
    <2>3. QED
      BY <2>1, <2>2
  <1>4. ASSUME NEW a \in Attempts, NameSaved(a) \/ ProfileSaved(a) \/ SaveDropped(a)
        PROVE  PasswordsOK'
    BY <1>4 DEF NameSaved, ProfileSaved, SaveDropped
  <1>5. ASSUME NEW e \in Emails,
               \/ \E f \in Forms : Login(e, f.password)
               \/ GoogleSignIn(e) \/ LinkFollowed(e)
        PROVE  PasswordsOK'
    BY <1>5 DEF Login, GoogleSignIn, LinkFollowed
  <1>6. CASE SignOut
    BY <1>6 DEF SignOut
  <1>7. CASE Kill
    BY <1>7 DEF Kill, AppEnds
  <1>8. CASE UNCHANGED vars
    BY <1>8 DEF vars
  <1>9. QED
    BY <1>1, <1>2, <1>3, <1>4, <1>5, <1>6, <1>7, <1>8 DEF Next, RegistrationStep

\* As long as nothing fails or ends, every account keeps a registration that serves it.
LEMMA StepServed == IInv /\ PasswordsOK /\ AllServed /\ [Next]_vars => AllServed'
  <1> SUFFICES ASSUME IInv, PasswordsOK, AllServed, [Next]_vars,
                      failures' = 0, \A a \in Attempts : phase'[a] # "lost",
                      NEW e \in accounts', Registered(e)'
               PROVE  \E a \in Attempts : Serves(a, e)'
    BY DEF AllServed
  <1> USE NullAssumption, FormsAssumption, MaxFailuresAssumption
      DEF IInv, TypeOK, ProgressOK, SessionOK, PasswordsOK, Serves,
          Registered, Phases, UnderWay, Owning, auth
  <1>1. failures = 0 /\ \A a \in Attempts : phase[a] # "lost"
    BY DEF Next, RegistrationStep, Submit, AccountCreated, AccountRefused, PictureUploaded,
           UrlArrived, LinkMailed, LinkFailed, RequestFailed, NameSaved, ProfileSaved,
           SaveDropped, Login, GoogleSignIn, LinkFollowed, SignOut, Kill, Goto, AppEnds,
           Fail, vars
  <1>2. CASE e \in accounts /\ Registered(e)
    <2>a. PICK b \in Attempts : Serves(b, e)
      BY <1>1, <1>2 DEF AllServed
    <2>b. /\ form[b] # Null /\ form[b].email = e /\ form[b] \in Forms
          /\ \/ phase[b] \in {"uploading", "linking", "mailing"}
             \/ b \in crossed
             \/ /\ owner[b] = e /\ phase[b] = "registered"
                /\ "name" \in saving[b] \/ e \in named
                /\ "profile" \in saving[b] \/ profiles[e] # Null
          /\ phase[b] # "idle"
      <3>1. form[b] # Null /\ form[b].email = e /\ form[b] \in Forms /\ phase[b] # "idle"
        BY <2>a
      <3>2. owner[b] = e => phase[b] = "registered"
        BY <1>2
      <3>3. QED
        BY <2>a, <3>1, <3>2
    <2>1. ASSUME NEW a \in Attempts, NEW f \in Forms, Submit(a, f) PROVE Serves(b, e)'
      BY <1>1, <2>b, <2>1 DEF Submit, Goto
    <2>2. ASSUME NEW a \in Attempts, AccountCreated(a) PROVE Serves(b, e)'
      BY <1>1, <2>b, <2>2 DEF AccountCreated, AuthAccepts, Goto, AppEnds
    <2>3. ASSUME NEW a \in Attempts, AccountRefused(a) PROVE Serves(b, e)'
      BY <1>1, <2>b, <2>3 DEF AccountRefused, Goto
    <2>4. ASSUME NEW a \in Attempts, PictureUploaded(a) PROVE Serves(b, e)'
      BY <1>1, <2>b, <2>4 DEF PictureUploaded, Goto
    <2>5. ASSUME NEW a \in Attempts, UrlArrived(a) PROVE Serves(b, e)'
      BY <1>1, <2>b, <2>5 DEF UrlArrived, Goto, AppEnds
    <2>6. ASSUME NEW a \in Attempts, LinkMailed(a) PROVE Serves(b, e)'
      BY <1>1, <2>b, <2>6 DEF LinkMailed, Goto, AppEnds
    <2>7. ASSUME NEW a \in Attempts, NameSaved(a) PROVE Serves(b, e)'
      BY <1>1, <2>b, <2>7 DEF NameSaved
    <2>8. ASSUME NEW a \in Attempts, ProfileSaved(a) PROVE Serves(b, e)'
      BY <1>1, <2>b, <2>8 DEF ProfileSaved
    <2>9. ASSUME NEW a \in Attempts, LinkFailed(a) \/ RequestFailed(a) \/ SaveDropped(a) PROVE Serves(b, e)'
      BY <1>1, <2>b, <2>9 DEF LinkFailed, RequestFailed, SaveDropped, Fail
    <2>10. ASSUME NEW d \in Emails, NEW f \in Forms, Login(d, f.password) PROVE Serves(b, e)'
      BY <1>1, <2>b, <2>10 DEF Login
    <2>11. ASSUME NEW d \in Emails, GoogleSignIn(d) PROVE Serves(b, e)'
      BY <1>1, <2>b, <2>11 DEF GoogleSignIn
    <2>12. ASSUME NEW d \in Emails, LinkFollowed(d) PROVE Serves(b, e)'
      BY <1>1, <2>b, <2>12 DEF LinkFollowed
    <2>13. CASE SignOut
      BY <1>1, <2>b, <2>13 DEF SignOut
    <2>14. CASE Kill
      BY <1>1, <2>14 DEF Kill, Fail
    <2>15. CASE UNCHANGED vars
      BY <2>b, <2>15 DEF vars
    <2>16. QED
      BY <2>1, <2>2, <2>3, <2>4, <2>5, <2>6, <2>7, <2>8, <2>9, <2>10, <2>11, <2>12,
         <2>13, <2>14, <2>15 DEF Next, RegistrationStep
  <1>3. CASE ~(e \in accounts /\ Registered(e))
    <2>1. PICK a \in Attempts : AccountCreated(a) /\ form[a].email = e
      BY <1>3 DEF Next, RegistrationStep, Submit, AccountCreated, AccountRefused,
           PictureUploaded, UrlArrived, LinkMailed, LinkFailed, RequestFailed, NameSaved,
           ProfileSaved, SaveDropped, Login, GoogleSignIn, LinkFollowed, SignOut, Kill, vars
    <2>2. Serves(a, e)'
      BY <2>1 DEF AccountCreated, Goto, AppEnds
    <2>3. QED
      BY <2>2
  <1>4. QED
    BY <1>2, <1>3

\* Passwords, and who serves an account, as an invariant.
LEMMA Served == Spec => [](IInv /\ PasswordsOK /\ AllServed)
  <1>1. Init => PasswordsOK /\ AllServed
    BY DEF Init, PasswordsOK, AllServed, Owning
  <1>2. IInv /\ PasswordsOK /\ AllServed /\ [Next]_vars
            => (IInv /\ PasswordsOK /\ AllServed)'
    BY StepIInv, StepPasswords, StepServed
  <1>3. QED
    BY InitIInv, <1>1, <1>2, PTL DEF Spec

\* Without failures the only gap a registration leaves is its own, still closing, or
\* another sign-in's.
THEOREM AccountsAreComplete == Spec => []AccountsComplete
  <1>1. IInv /\ PasswordsOK /\ AllServed => AccountsComplete
    <2> SUFFICES ASSUME IInv, AllServed,
                        failures = 0, \A a \in Attempts : phase[a] # "lost",
                        NEW e \in accounts, passwords[e] # Null \/ e \in replaced,
                        ~(e \in named /\ profiles[e] # Null)
                 PROVE  \E a \in Attempts :
                           /\ form[a] # Null
                           /\ form[a].email = e
                           /\ \/ phase[a] \in {"uploading", "linking", "mailing"}
                              \/ saving[a] # {}
                              \/ a \in crossed
      BY DEF AccountsComplete
    <2>1. PICK a \in Attempts : Serves(a, e)
      BY DEF AllServed, Registered
    <2>2. QED
      BY <2>1 DEF Serves
  <1>2. QED
    BY Served, <1>1, PTL

\* The password typed signs in exactly if it has no blanks around it and no Google
\* sign-in took it away.
THEOREM SignsInAsRegistered == Spec => []SignInAsRegistered
  <1>1. IInv /\ PasswordsOK /\ AllServed => SignInAsRegistered
    <2> SUFFICES ASSUME IInv, PasswordsOK, NEW a \in Attempts, phase[a] = "registered"
                 PROVE  LoginAccepts(form[a].email, form[a].password)
                            <=> form[a].password.blanks = 0 /\ form[a].email \notin replaced
      BY DEF SignInAsRegistered
    <2>1. /\ form[a] \in Forms /\ form[a].email \in accounts
          /\ passwords[form[a].email] = IF form[a].email \in replaced THEN Null
                                        ELSE Trim(form[a].password)
      BY DEF IInv, ProgressOK, PasswordsOK, Owning
    <2>2. form[a].password \in [visible : Nat, blanks : Nat]
      BY <2>1, FormsAssumption
    <2>3. Trim(form[a].password) = form[a].password <=> form[a].password.blanks = 0
      BY <2>2 DEF Trim
    <2>4. form[a].password # Null
      BY <2>2, NullAssumption
    <2>5. QED
      BY <2>1, <2>3, <2>4 DEF LoginAccepts
  <1>2. QED
    BY Served, <1>1, PTL

-----------------------------------------------------------------------------
(* The half of RegistrationsEnd that needs no fairness.                     *)

\* How many steps an attempt has left at most.
Left(a) ==
    IF phase[a] = "idle" THEN 7
    ELSE IF phase[a] = "creating" THEN 6
    ELSE IF phase[a] = "uploading" THEN 5
    ELSE IF phase[a] = "linking" THEN 4
    ELSE IF phase[a] = "mailing" THEN 3
    ELSE (IF "name" \in saving[a] THEN 1 ELSE 0) + (IF "profile" \in saving[a] THEN 1 ELSE 0)

\* A step of the registration of a, or a failure of one of its requests.
AttemptStep(a) ==
    \/ \E f \in Forms : Submit(a, f)
    \/ RegistrationStep(a)
    \/ LinkFailed(a) \/ RequestFailed(a) \/ SaveDropped(a)

\* Every step of an attempt leaves it fewer steps, no step of anything gives it more,
\* and one with none left is over: whoever signs in or out between the requests
\* (RegisterActivity.java:209-240) may divert a registration, never prolong it.
AttemptsAdvance ==
    /\ \A a \in Attempts : Left(a) = 7
    /\ [][\A a \in Attempts :
            /\ Left(a)' <= Left(a)
            /\ AttemptStep(a) => Left(a)' < Left(a)
            /\ Left(a)' = 0 => phase'[a] \notin UnderWay /\ saving'[a] = {}]_vars

\* Only what is registered has saves on their way.
LEMMA SavesOfRegistered ==
    ASSUME IInv, NEW a \in Attempts, phase[a] # "registered"
    PROVE  saving[a] = {}
  BY NullAssumption DEF IInv, ProgressOK

\* Where an attempt can be, and that one without steps left is over.
LEMMA LeftType ==
    ASSUME IInv, NEW a \in Attempts
    PROVE  /\ Left(a) \in 0..7
           /\ phase[a] \in UnderWay => Left(a) > 2
           /\ phase[a] \in Phases \ (UnderWay \cup {"idle"}) => Left(a) <= 2
           /\ Left(a) = 0 => phase[a] \notin UnderWay /\ saving[a] = {}
  BY DEF IInv, TypeOK, Phases, UnderWay, Left

\* The same after a step.
Somewhere ==
    \A a \in Attempts :
        /\ Left(a) \in 0..7
        /\ Left(a) = 0 => phase[a] \notin UnderWay /\ saving[a] = {}

LEMMA AlwaysSomewhere == IInv' => Somewhere'
  <1>1. IInv => Somewhere
    BY LeftType DEF Somewhere
  <1>2. QED
    BY <1>1, PTL

\* An attempt that neither moves nor saves has as many steps left as before.
LEMMA StaysPut ==
    ASSUME NEW a \in Attempts, phase'[a] = phase[a], saving'[a] = saving[a]
    PROVE  Left(a)' = Left(a)
  BY DEF Left

\* The end of the app leaves no attempt more steps than it had.
LEMMA EndsLeaveLess ==
    ASSUME IInv, AppEnds, NEW a \in Attempts
    PROVE  /\ Left(a)' <= Left(a)
           /\ phase[a] \in UnderWay => Left(a)' < Left(a)
  BY DEF IInv, TypeOK, AppEnds, Phases, UnderWay, Left

\* A step of an attempt goes one way, and touches another attempt by ending the app.
LEMMA AttemptMoves ==
    ASSUME IInv, NEW a \in Attempts, AttemptStep(a)
    PROVE  \/ AppEnds /\ phase[a] \in UnderWay
           \/ /\ \A b \in Attempts \ {a} : phase'[b] = phase[b] /\ saving'[b] = saving[b]
              /\ \/ phase[a] = "idle" /\ phase'[a] \in {"rejected", "ignored", "creating"}
                    /\ saving'[a] = saving[a]
                 \/ phase[a] = "creating" /\ phase'[a] \in {"uploading", "unheard"}
                    /\ saving'[a] = saving[a]
                 \/ phase[a] = "uploading" /\ phase'[a] \in {"linking", "unheard"}
                    /\ saving'[a] = saving[a]
                 \/ phase[a] = "linking" /\ phase'[a] \in {"mailing", "unheard"}
                    /\ saving'[a] = saving[a]
                 \/ phase[a] = "mailing" /\ phase'[a] = "registered"
                    /\ saving'[a] = {"name", "profile"}
                 \/ phase[a] = "mailing" /\ phase'[a] = "refused"
                    /\ saving'[a] = saving[a]
                 \/ phase'[a] = phase[a]
                    /\ \E s \in saving[a] : saving'[a] = saving[a] \ {s}
  <1> USE DEF IInv, TypeOK, UnderWay
  <1>1. ASSUME NEW f \in Forms, Submit(a, f)
        PROVE  /\ \A b \in Attempts \ {a} : phase'[b] = phase[b] /\ saving'[b] = saving[b]
               /\ phase[a] = "idle" /\ phase'[a] \in {"rejected", "ignored", "creating"}
               /\ saving'[a] = saving[a]
    BY <1>1 DEF Submit, Goto
  <1>2. CASE AccountCreated(a)
    BY <1>2 DEF AccountCreated, Goto
  <1>3. CASE AccountRefused(a) \/ PictureUploaded(a)
    BY <1>3 DEF AccountRefused, PictureUploaded, Goto
  <1>4. CASE UrlArrived(a)
    BY <1>4 DEF UrlArrived, Goto
  <1>5. CASE LinkMailed(a)
    BY <1>5 DEF LinkMailed, Goto
  <1>6. CASE NameSaved(a) \/ ProfileSaved(a)
    BY <1>6 DEF NameSaved, ProfileSaved
  <1>7. CASE LinkFailed(a) \/ RequestFailed(a)
    BY <1>7 DEF LinkFailed, RequestFailed, Fail, Goto
  <1>8. CASE SaveDropped(a)
    BY <1>8 DEF SaveDropped, Fail
  <1>9. QED
    BY <1>1, <1>2, <1>3, <1>4, <1>5, <1>6, <1>7, <1>8, Zenon
    DEF AttemptStep, RegistrationStep

\* A step of an attempt takes a step of it away, and gives none to another.
LEMMA AttemptAdvances ==
    ASSUME IInv, NEW a \in Attempts, AttemptStep(a), NEW b \in Attempts
    PROVE  /\ Left(b)' <= Left(b)
           /\ a = b => Left(b)' < Left(b)
  <1>1. Left(a) \in 0..7 /\ Left(b) \in 0..7
    BY LeftType
  <1>2. CASE AppEnds /\ phase[a] \in UnderWay
    BY <1>2, EndsLeaveLess
  <1>3. CASE \A d \in Attempts \ {a} : phase'[d] = phase[d] /\ saving'[d] = saving[d]
    <2>1. a # b => Left(b)' = Left(b)
      BY <1>3, StaysPut
    <2>2. ASSUME ~(AppEnds /\ phase[a] \in UnderWay) PROVE Left(a)' < Left(a)
      <3>1. phase[a] # "registered" => saving[a] = {}
        BY SavesOfRegistered
      <3>2. saving[a] \subseteq {"name", "profile"}
        BY DEF IInv, TypeOK
      <3>3. CASE \E s \in saving[a] : saving'[a] = saving[a] \ {s} /\ phase'[a] = phase[a]
        BY <3>1, <3>2, <3>3 DEF Left
      <3>4. QED
        BY <2>2, <3>1, <3>3, AttemptMoves DEF Left
    <2>3. a = b => Left(b)' = Left(a)'
      BY DEF Left
    <2>4. CASE a # b
      BY <1>1, <2>1, <2>4
    <2>5. CASE a = b
      <3>1. Left(a)' < Left(a)
        BY <2>2, EndsLeaveLess
      <3>2. Left(b)' < Left(b)
        BY <2>3, <2>5, <3>1
      <3>3. Left(b)' \in Nat
        BY DEF Left
      <3>4. QED
        BY <1>1, <3>2, <3>3
    <2>6. QED
      BY <2>4, <2>5
  <1>4. QED
    BY <1>2, <1>3, AttemptMoves

\* Registrations only go forward: each takes at most seven steps of its own.
THEOREM EveryAttemptAdvances == Spec => AttemptsAdvance
  <1>1. Init => \A a \in Attempts : Left(a) = 7
    BY DEF Init, Left
  <1>2. ASSUME IInv, [Next]_vars, NEW a \in Attempts
        PROVE  /\ Left(a)' <= Left(a)
               /\ AttemptStep(a) => Left(a)' < Left(a)
               /\ Left(a)' = 0 => phase'[a] \notin UnderWay /\ saving'[a] = {}
    <2>1. IInv'
      BY <1>2, StepIInv
    <2>2. Left(a)' = 0 => phase'[a] \notin UnderWay /\ saving'[a] = {}
      BY <2>1, AlwaysSomewhere DEF Somewhere, UnderWay
    <2>3. ASSUME NEW b \in Attempts, AttemptStep(b)
          PROVE  Left(a)' <= Left(a) /\ (a = b => Left(a)' < Left(a))
      BY <1>2, <2>3, AttemptAdvances
    <2>4. ASSUME phase' = phase, saving' = saving
          PROVE  Left(a)' <= Left(a)
      BY <1>2, <2>4, StaysPut, LeftType
    <2>5. ASSUME NEW e \in Emails, NEW f \in Forms, Login(e, f.password)
          PROVE  phase' = phase /\ saving' = saving
      BY <2>5 DEF Login
    <2>6. ASSUME NEW e \in Emails, GoogleSignIn(e) \/ LinkFollowed(e)
          PROVE  phase' = phase /\ saving' = saving
      BY <2>6 DEF GoogleSignIn, LinkFollowed
    <2>7. SignOut \/ UNCHANGED vars => phase' = phase /\ saving' = saving
      BY DEF SignOut, vars
    <2>8. Kill => Left(a)' <= Left(a)
      BY <1>2, EndsLeaveLess DEF Kill
    <2>9. Left(a)' <= Left(a)
      BY <1>2, <2>3, <2>4, <2>5, <2>6, <2>7, <2>8 DEF Next, AttemptStep
    <2>10. QED
      BY <2>2, <2>3, <2>9
  <1>3. IInv /\ [Next]_vars =>
          \A a \in Attempts :
            /\ Left(a)' <= Left(a)
            /\ AttemptStep(a) => Left(a)' < Left(a)
            /\ Left(a)' = 0 => phase'[a] \notin UnderWay /\ saving'[a] = {}
    BY <1>2
  <1>4. QED
    BY <1>1, <1>3, Inductive, PTL DEF Spec, AttemptsAdvance
=============================================================================
