----------------------------- MODULE Registration -----------------------------
(***************************************************************************)
(* Registration and sign-in on one device: the forms of RegisterActivity   *)
(* (volunteers) and HomeCareRegistrationActivity (nursing homes), which do *)
(* the same, and the login of MainActivity.                                *)
(*                                                                         *)
(* A registration is a chain of requests: create the account, which also   *)
(* signs it in -> upload the picture -> get its URL -> mail a verification *)
(* link -> save the display name and the profile.  From the URL on, every  *)
(* step works on whoever is signed in at that moment, and of all requests  *)
(* only the mail has a failure listener.                                   *)
(***************************************************************************)
EXTENDS Naturals

CONSTANTS
    Attempts,       \* presses of the register button that pass or fail validation
    Emails,         \* addresses; an account is known by its address
    Forms,          \* contents of a registration form
    Null,           \* nobody, nothing
    MaxFailures     \* bound on failed requests and kills

\* A password is counted, not spelled: visible characters, and blanks around them.
ASSUME FormsAssumption ==
    Forms \subseteq [email : Emails,
                     at : BOOLEAN,          \* the address typed has an @
                     password : [visible : Nat, blanks : Nat],
                     confirm  : [visible : Nat, blanks : Nat],
                     complete : BOOLEAN,    \* the other fields are filled in
                     picture  : BOOLEAN]    \* a profile picture was chosen
ASSUME NullAssumption ==
    Null \notin Emails \cup Attempts \cup Forms \cup [visible : Nat, blanks : Nat]
ASSUME MaxFailuresAssumption == MaxFailures \in Nat

VARIABLES
    accounts,       \* addresses with an account
    passwords,      \* passwords[e]: the password of account e, or Null
    verified,       \* accounts whose owner followed the link
    mailed,         \* accounts a verification link was sent to
    named,          \* accounts with a display name
    profiles,       \* profiles[e]: the attempt whose data Users/e/e holds, or Null
    session,        \* who is signed in on the device, or Null
    form,           \* form[a]: the contents a was pressed with, or Null
    phase,          \* phase[a]: how far a has come
    recipient,      \* recipient[a]: who the verification link of a goes to
    owner,          \* owner[a]: who the name and profile of a are saved for
    saving,         \* saving[a]: the saves of a on their way
    crossed,        \* history: attempts under way while someone else signed in or out
    replaced,       \* history: accounts whose password a Google sign-in replaced
    failures        \* failures so far

auth == <<accounts, passwords, verified, mailed, named, profiles, replaced>>
vars == <<accounts, passwords, verified, mailed, named, profiles, session,
          form, phase, recipient, owner, saving, crossed, replaced, failures>>

UnderWay == {"creating", "uploading", "linking", "mailing"}
Phases == UnderWay \cup
          {"idle",
           "rejected",      \* a field shows an error
           "ignored",       \* a field is empty: nothing happens, nothing is said
           "unheard",       \* a request failed that has no failure listener
           "refused",       \* the mail failed: a toast
           "registered",    \* "Registered successfully."
           "lost"}          \* the app ended on the way

Init ==
    /\ accounts = {} /\ verified = {} /\ mailed = {} /\ named = {}
    /\ passwords = [e \in Emails |-> Null]
    /\ profiles = [e \in Emails |-> Null]
    /\ session = Null
    /\ form = [a \in Attempts |-> Null]
    /\ phase = [a \in Attempts |-> "idle"]
    /\ recipient = [a \in Attempts |-> Null]
    /\ owner = [a \in Attempts |-> Null]
    /\ saving = [a \in Attempts |-> {}]
    /\ crossed = {} /\ replaced = {}
    /\ failures = 0

-----------------------------------------------------------------------------
(* What the forms accept.                                                  *)

Length(password) == password.visible + password.blanks

\* Mutant: the password is registered as typed.
Untrimmed(password) == password

\* String.trim
Trim(password) == [password EXCEPT !.blanks = 0]

\* isPasswordValid
PasswordValid(f) == f.confirm = f.password /\ Length(f.password) > 4

\* attemptRegistration: a field that is not valid shows an error.
FieldsValid(f) == PasswordValid(f) /\ f.at

\* createNewAccount goes on only if no trimmed field is empty.
NothingEmpty(f) == f.complete /\ Trim(f.password) # [visible |-> 0, blanks |-> 0]

\* Firebase Auth wants six characters, and one account per address.
AuthAccepts(f) == f.email \notin accounts /\ Length(Trim(f.password)) >= 6

-----------------------------------------------------------------------------
(* The registration of one attempt.                                        *)

Goto(a, p) == phase' = [phase EXCEPT ![a] = p]
Fail == failures < MaxFailures /\ failures' = failures + 1

\* Attempts that lose their account from under them when e becomes the session.
Crossing(e) == {a \in Attempts : phase[a] \in UnderWay \ {"creating"} /\ form[a].email # e}

\* The app ends: requests and saves under way are never followed up.
AppEnds ==
    /\ phase' = [a \in Attempts |-> IF phase[a] \in UnderWay THEN "lost" ELSE phase[a]]
    /\ saving' = [a \in Attempts |-> {}]

\* attemptRegistration, and the test in createNewAccount.
Submit(a, f) ==
    /\ phase[a] = "idle"
    /\ form' = [form EXCEPT ![a] = f]
    /\ Goto(a, IF ~FieldsValid(f) THEN "rejected"
               ELSE IF ~NothingEmpty(f) THEN "ignored" ELSE "creating")
    /\ UNCHANGED <<auth, session, recipient, owner, saving, crossed, failures>>

\* Mutant: creating the account leaves the present user signed in.
AccountCreatedAside(a) ==
    LET f == form[a] IN
    /\ phase[a] = "creating"
    /\ AuthAccepts(f)
    /\ accounts' = accounts \cup {f.email}
    /\ passwords' = [passwords EXCEPT ![f.email] = Trim(f.password)]
    /\ Goto(a, "uploading")
    /\ UNCHANGED <<session, verified, mailed, named, profiles, form, recipient,
                   owner, saving, crossed, replaced, failures>>

\* createUserWithEmailAndPassword succeeds: the new account is signed in. Without
\* a picture, resultUri is null and the callback throws.
AccountCreated(a) ==
    LET f == form[a] IN
    /\ phase[a] = "creating"
    /\ AuthAccepts(f)
    /\ accounts' = accounts \cup {f.email}
    /\ passwords' = [passwords EXCEPT ![f.email] = Trim(f.password)]
    /\ session' = f.email
    /\ crossed' = crossed \cup (Crossing(f.email) \ {a})
    /\ IF f.picture THEN Goto(a, "uploading") /\ UNCHANGED saving ELSE AppEnds
    /\ UNCHANGED <<verified, mailed, named, profiles, form, recipient, owner,
                   replaced, failures>>

\* Mutant: only an address in use is refused.
AccountRefusedInUse(a) ==
    /\ phase[a] = "creating"
    /\ form[a].email \in accounts
    /\ Goto(a, "unheard")
    /\ UNCHANGED <<auth, session, form, recipient, owner, saving, crossed, failures>>

\* It fails, and nobody listens.
AccountRefused(a) ==
    /\ phase[a] = "creating"
    /\ ~AuthAccepts(form[a])
    /\ Goto(a, "unheard")
    /\ UNCHANGED <<auth, session, form, recipient, owner, saving, crossed, failures>>

\* putFile succeeds: its URL is asked for.
PictureUploaded(a) ==
    /\ phase[a] = "uploading"
    /\ Goto(a, "linking")
    /\ UNCHANGED <<auth, session, form, recipient, owner, saving, crossed, failures>>

\* The URL arrives: the present user is sent a link; without one the callback throws.
UrlArrived(a) ==
    /\ phase[a] = "linking"
    /\ IF session = Null
         THEN AppEnds /\ UNCHANGED recipient
         ELSE /\ Goto(a, "mailing")
              /\ recipient' = [recipient EXCEPT ![a] = session]
              /\ UNCHANGED saving
    /\ UNCHANGED <<auth, session, form, owner, crossed, failures>>

\* Mutant: the display name is not saved.
LinkMailedNameless(a) ==
    /\ phase[a] = "mailing"
    /\ session # Null
    /\ mailed' = mailed \cup {recipient[a]}
    /\ Goto(a, "registered")
    /\ owner' = [owner EXCEPT ![a] = session]
    /\ saving' = [saving EXCEPT ![a] = {"profile"}]
    /\ UNCHANGED <<accounts, passwords, verified, named, profiles, session,
                   form, recipient, crossed, replaced, failures>>

\* Mutant: the callback does without a user.
LinkMailedAnyway(a) ==
    /\ phase[a] = "mailing"
    /\ mailed' = mailed \cup {recipient[a]}
    /\ Goto(a, "registered")
    /\ owner' = [owner EXCEPT ![a] = session]
    /\ saving' = [saving EXCEPT ![a] = {"name", "profile"}]
    /\ UNCHANGED <<accounts, passwords, verified, named, profiles, session,
                   form, recipient, crossed, replaced, failures>>

\* The link is sent: the name and the profile are saved for whoever is signed in
\* now, without waiting; success is announced.
LinkMailed(a) ==
    /\ phase[a] = "mailing"
    /\ mailed' = mailed \cup {recipient[a]}
    /\ IF session = Null
         THEN AppEnds /\ UNCHANGED owner
         ELSE /\ Goto(a, "registered")
              /\ owner' = [owner EXCEPT ![a] = session]
              /\ saving' = [saving EXCEPT ![a] = {"name", "profile"}]
    /\ UNCHANGED <<accounts, passwords, verified, named, profiles, session,
                   form, recipient, crossed, replaced, failures>>

\* The link cannot be sent: a toast, the account stays.
LinkFailed(a) ==
    /\ Fail
    /\ phase[a] = "mailing"
    /\ Goto(a, "refused")
    /\ UNCHANGED <<auth, session, form, recipient, owner, saving, crossed>>

\* A request without a failure listener fails.
RequestFailed(a) ==
    /\ Fail
    /\ phase[a] \in {"creating", "uploading", "linking"}
    /\ Goto(a, "unheard")
    /\ UNCHANGED <<auth, session, form, recipient, owner, saving, crossed>>

\* updateProfile takes effect.
NameSaved(a) ==
    /\ "name" \in saving[a]
    /\ named' = named \cup {owner[a]}
    /\ saving' = [saving EXCEPT ![a] = @ \ {"name"}]
    /\ UNCHANGED <<accounts, passwords, verified, mailed, profiles, session,
                   form, phase, recipient, owner, crossed, replaced, failures>>

\* Mutant: whose profile it is is asked once more when it is saved.
ProfileSavedForPresent(a) ==
    /\ "profile" \in saving[a]
    /\ session # Null
    /\ profiles' = [profiles EXCEPT ![session] = a]
    /\ saving' = [saving EXCEPT ![a] = @ \ {"profile"}]
    /\ UNCHANGED <<accounts, passwords, verified, mailed, named, session,
                   form, phase, recipient, owner, crossed, replaced, failures>>

\* setValue on Users/<uid>/<uid> takes effect.
ProfileSaved(a) ==
    /\ "profile" \in saving[a]
    /\ profiles' = [profiles EXCEPT ![owner[a]] = a]
    /\ saving' = [saving EXCEPT ![a] = @ \ {"profile"}]
    /\ UNCHANGED <<accounts, passwords, verified, mailed, named, session,
                   form, phase, recipient, owner, crossed, replaced, failures>>

\* One of them does not, and nobody listens.
SaveDropped(a) ==
    /\ Fail
    /\ \E s \in saving[a] : saving' = [saving EXCEPT ![a] = @ \ {s}]
    /\ UNCHANGED <<auth, session, form, phase, recipient, owner, crossed>>

-----------------------------------------------------------------------------
(* Sign-in and the rest of the device.                                     *)

\* signInWithEmailAndPassword accepts the fields of MainActivity, taken as typed.
LoginAccepts(e, typed) == e \in accounts /\ passwords[e] = typed

\* MainActivity.login, on a screen that closes once a verified user is signed in:
\* the account becomes the session even when it is not verified and no screen follows.
Login(e, typed) ==
    /\ session \notin verified
    /\ LoginAccepts(e, typed)
    /\ session' = e
    /\ crossed' = crossed \cup Crossing(e)
    /\ UNCHANGED <<auth, form, phase, recipient, owner, saving, failures>>

\* firebaseAuthWithGoogle: Google vouches for the address.  A new account has a name
\* and no password, and no profile is made for it; one with a password keeps it only
\* if the link was followed, else Google takes its place.
GoogleSignIn(e) ==
    /\ session \notin verified
    /\ IF passwords[e] # Null /\ e \notin verified
         THEN /\ passwords' = [passwords EXCEPT ![e] = Null]
              /\ replaced' = replaced \cup {e}
         ELSE UNCHANGED <<passwords, replaced>>
    /\ accounts' = accounts \cup {e}
    /\ verified' = verified \cup {e}
    /\ named' = named \cup {e}
    /\ session' = e
    /\ crossed' = crossed \cup Crossing(e)
    /\ UNCHANGED <<mailed, profiles, form, phase, recipient, owner, saving, failures>>

\* The menu of the lists and of MainActivity.
SignOut ==
    /\ session # Null
    /\ session' = Null
    /\ crossed' = crossed \cup Crossing(Null)
    /\ UNCHANGED <<auth, form, phase, recipient, owner, saving, failures>>

\* The owner of an address follows the link.
LinkFollowed(e) ==
    /\ e \in mailed \ verified
    /\ verified' = verified \cup {e}
    /\ UNCHANGED <<accounts, passwords, mailed, named, profiles, session, form,
                   phase, recipient, owner, saving, crossed, replaced, failures>>

\* The app is stopped; the session outlives it.
Kill ==
    /\ Fail
    /\ AppEnds
    /\ UNCHANGED <<auth, session, form, recipient, owner, crossed>>

RegistrationStep(a) ==
    \/ AccountCreated(a) \/ AccountRefused(a) \/ PictureUploaded(a)
    \/ UrlArrived(a) \/ LinkMailed(a) \/ NameSaved(a) \/ ProfileSaved(a)

Next ==
    \/ \E a \in Attempts :
          \/ \E f \in Forms : Submit(a, f)
          \/ RegistrationStep(a)
          \/ LinkFailed(a) \/ RequestFailed(a) \/ SaveDropped(a)
    \/ \E e \in Emails :
          \/ \E f \in Forms : Login(e, f.password)
          \/ GoogleSignIn(e)
          \/ LinkFollowed(e)
    \/ SignOut
    \/ Kill

Spec == Init /\ [][Next]_vars

\* Requests that were sent are answered; users do nothing of necessity.
FairSpec == Spec /\ \A a \in Attempts : WF_vars(RegistrationStep(a))
-----------------------------------------------------------------------------
(* What makes registration correct.                                        *)

\* Every variable has its type.
TypeOK ==
    /\ accounts \subseteq Emails /\ verified \subseteq accounts
    /\ mailed \subseteq accounts /\ named \subseteq accounts
    /\ passwords \in [Emails -> [visible : Nat, blanks : Nat] \cup {Null}]
    /\ \A e \in Emails : passwords[e] # Null => e \in accounts
    /\ profiles \in [Emails -> Attempts \cup {Null}]
    /\ session \in accounts \cup {Null}
    /\ form \in [Attempts -> Forms \cup {Null}]
    /\ phase \in [Attempts -> Phases]
    /\ recipient \in [Attempts -> accounts \cup {Null}]
    /\ owner \in [Attempts -> accounts \cup {Null}]
    /\ saving \in [Attempts -> SUBSET {"name", "profile"}]
    /\ crossed \subseteq Attempts /\ replaced \subseteq accounts
    /\ failures \in 0..MaxFailures

\* The link, the name and the profile of a registration go to the account it
\* created, unless somebody else signed in or out while it was under way: each step
\* asks getCurrentUser() anew (RegisterActivity.java:226, 231, 236-237).
DataGoesHome ==
    \A a \in Attempts :
        a \notin crossed =>
            /\ recipient[a] # Null => recipient[a] = form[a].email
            /\ owner[a] # Null => owner[a] = form[a].email
            /\ \A e \in Emails : profiles[e] = a => e = form[a].email

\* A profile that is stored is replaced by another registration's only if one of
\* the two was crossed by another sign-in.
ProfilesKept ==
    [][\A e \in Emails :
          profiles[e] # Null /\ profiles'[e] # profiles[e]
              => profiles[e] \in crossed \/ profiles'[e] \in crossed]_vars

\* While no request fails and the app does not end, an account made with a password but
\* without name or profile belongs to a registration still at work or crossed by
\* another sign-in: the requests after createUser (line 209) leave no other gap.
AccountsComplete ==
    failures = 0 /\ (\A a \in Attempts : phase[a] # "lost") =>
        \A e \in accounts :
            \/ passwords[e] = Null /\ e \notin replaced
            \/ e \in named /\ profiles[e] # Null
            \/ \E a \in Attempts :
                  /\ form[a] # Null
                  /\ form[a].email = e
                  /\ \/ phase[a] \in {"uploading", "linking", "mailing"}
                     \/ saving[a] # {}
                     \/ a \in crossed

\* Whoever was told "Registered successfully." can sign in with the password as
\* typed exactly if it has no blanks around it - registration trims it (line 200),
\* MainActivity.java:110-113 does not - and no Google sign-in came before the link
\* was followed: firebaseAuthWithGoogle (line 227) does not ask how the account at
\* that address was made, nor whether its registration is still at work.
SignInAsRegistered ==
    \A a \in Attempts :
        phase[a] = "registered" =>
            (LoginAccepts(form[a].email, form[a].password)
                <=> form[a].password.blanks = 0 /\ form[a].email \notin replaced)

\* Every registration comes to an end, heard or unheard, and so do its saves.
RegistrationsEnd ==
    \A a \in Attempts :
        phase[a] \in UnderWay \/ saving[a] # {}
            ~> phase[a] \notin UnderWay /\ saving[a] = {}

\* "a confirmation for the password with e length min. of 4"
\* (HomeCareRegistrationActivity.java:150-152): a form is not turned down for a
\* confirmed password of four characters.
FourCharactersSuffice ==
    \A a \in Attempts :
        phase[a] = "rejected" =>
            \/ ~form[a].at
            \/ form[a].confirm # form[a].password
            \/ Length(form[a].password) < 4
-----------------------------------------------------------------------------
(* The inductive strengthening the proofs of RegistrationProofs rest on.    *)

Owning == {"uploading", "linking", "mailing", "registered"}

\* How far an attempt has come tells what was done for it; an attempt that went on
\* after creating its account has an address of its own.
ProgressOK ==
    \A a \in Attempts :
        /\ phase[a] # "idle" => form[a] \in Forms
        /\ recipient[a] # Null => phase[a] # "idle"
        /\ phase[a] = "mailing" => recipient[a] # Null
        /\ saving[a] # {} => owner[a] # Null
        /\ owner[a] # Null => phase[a] = "registered"
        /\ \A e \in Emails : profiles[e] = a => phase[a] = "registered"
        /\ phase[a] \in Owning => form[a].email \in accounts
        /\ \A b \in Attempts :
              a # b /\ phase[a] \in Owning /\ phase[b] \in Owning
                  => form[a].email # form[b].email

\* As long as nobody crosses an attempt, its account is the one signed in.
SessionOK ==
    \A a \in Attempts :
        phase[a] \in {"uploading", "linking", "mailing"} /\ a \notin crossed
            => session = form[a].email

\* Inductive invariant behind DataGoesHome and ProfilesKept.
IInv == TypeOK /\ ProgressOK /\ SessionOK /\ DataGoesHome
=============================================================================
