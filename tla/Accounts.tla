------------------------------ MODULE Accounts ------------------------------
(***************************************************************************)
(* Signing up and signing in.  Signup() first looks the email up in the    *)
(* users collection, then creates an account with Firebase Auth, then      *)
(* writes the users document of the account, and shows the home screen     *)
(* when that future completes, with whatever outcome.  The text fields are *)
(* read again at every step, and the button stays enabled meanwhile.  An   *)
(* account is known by the email it was created with, and the welcome, the *)
(* sign up and the log in screen, which lead to one another, are one.      *)
(***************************************************************************)
EXTENDS Naturals, FiniteSets

CONSTANTS
    Phones,     \* the devices
    Emails,     \* what may be typed as an email
    None,       \* no account, no document
    MaxCalls,   \* bound: presses of the button
    MaxKills    \* bound: kills of the app

VARIABLES
    screen,    \* per phone, the screen that is shown
    field,     \* per phone, emailController.text
    calls,     \* per phone, the running calls of Signup()
    session,   \* per phone, FirebaseAuth.instance.currentUser
    accounts,  \* Firebase Auth: the accounts
    users,     \* per account, the email of its users document
    ncalls, kills

vars == <<screen, field, calls, session, accounts, users, ncalls, kills>>

(* A call looks the email up, or waits for an account to be created: with  *)
(* which email, whether Auth created it, and whether the form the call was *)
(* made from is still there.                                               *)
Call(step, email, created) ==
    [step |-> step, email |-> email, created |-> created, mounted |-> TRUE]

Unmounted(cs) == {[c EXCEPT !.mounted = FALSE] : c \in cs}

Init ==
    /\ screen = [p \in Phones |-> "signup"]
    /\ field \in [Phones -> Emails]
    /\ calls = [p \in Phones |-> {}]
    /\ session = [p \in Phones |-> None]
    /\ accounts = {}
    /\ users = [e \in Emails |-> None]
    /\ ncalls = 0 /\ kills = 0

-----------------------------------------------------------------------------

Type(p, e) ==
    /\ screen[p] = "signup"
    /\ field' = [field EXCEPT ![p] = e]
    /\ UNCHANGED <<screen, calls, session, accounts, users, ncalls, kills>>

Signup(p) ==
    /\ screen[p] = "signup"
    /\ ncalls < MaxCalls
    /\ calls' = [calls EXCEPT ![p] = @ \cup {Call("fetch", field[p], FALSE)}]
    /\ ncalls' = ncalls + 1
    /\ UNCHANGED <<screen, field, session, accounts, users, kills>>

(* _fetchemail() has its answer, from the server or, without a network,    *)
(* from a cache that may not know the other accounts.                      *)
FetchEmail(p, c) ==
    /\ c.step = "fetch"
    /\ \E emailtaken \in {FALSE, \E a \in Emails : users[a] = c.email} :
         calls' = [calls EXCEPT ![p] = (@ \ {c}) \cup
            IF emailtaken THEN {}
            ELSE {[c EXCEPT !.step = "create", !.email = field[p]]}]
    /\ UNCHANGED <<screen, field, session, accounts, users, ncalls, kills>>

Answered(c, created) == [c EXCEPT !.step = "answer", !.created = created]

(* Firebase Auth: one account per email; the answer follows.               *)
CreateAccount(p, c) ==
    /\ c.step = "create" /\ c.email \notin accounts
    /\ accounts' = accounts \cup {c.email}
    /\ calls' = [calls EXCEPT ![p] = (@ \ {c}) \cup {Answered(c, TRUE)}]
    /\ UNCHANGED <<screen, field, session, users, ncalls, kills>>

RefuseAccount(p, c) ==
    /\ c.step = "create" /\ c.email \in accounts
    /\ calls' = [calls EXCEPT ![p] = (@ \ {c}) \cup {Answered(c, FALSE)}]
    /\ UNCHANGED <<screen, field, session, accounts, users, ncalls, kills>>

(* No network: the client gives up, the server was not asked.              *)
CreateFails(p, c) ==
    /\ c.step = "create"
    /\ calls' = [calls EXCEPT ![p] = (@ \ {c}) \cup {Answered(c, FALSE)}]
    /\ UNCHANGED <<screen, field, session, accounts, users, ncalls, kills>>

(* then() writes the users document, unless the ID, read again, is no      *)
(* number; onError() shows a dialog, and whenComplete() shows the home     *)
(* screen in both cases.  A form that is no longer there has no Navigator: *)
(* that call ends without a screen.                                        *)
Created(p, c) ==
    /\ c.step = "answer"
    /\ IF c.created
       THEN /\ session' = [session EXCEPT ![p] = c.email]
            /\ \/ users' = [users EXCEPT ![c.email] = field[p]]
               \/ UNCHANGED users
       ELSE UNCHANGED <<session, users>>
    /\ IF c.mounted
       THEN /\ screen' = [screen EXCEPT ![p] = "home"]
            /\ calls' = [calls EXCEPT ![p] = Unmounted(@ \ {c})]
       ELSE /\ calls' = [calls EXCEPT ![p] = @ \ {c}]
            /\ UNCHANGED screen
    /\ UNCHANGED <<field, accounts, ncalls, kills>>

(* signInWithEmailAndPassword() of an account whose password is known.     *)
Login(p, e) ==
    /\ screen[p] = "signup"
    /\ e \in accounts
    /\ session' = [session EXCEPT ![p] = e]
    /\ screen' = [screen EXCEPT ![p] = "home"]
    /\ calls' = [calls EXCEPT ![p] = Unmounted(@)]
    /\ UNCHANGED <<field, accounts, users, ncalls, kills>>

SignOut(p) ==
    /\ screen[p] = "home"
    /\ session' = [session EXCEPT ![p] = None]
    /\ screen' = [screen EXCEPT ![p] = "signup"]
    /\ UNCHANGED <<field, calls, accounts, users, ncalls, kills>>

(* main() shows the welcome screen; Auth keeps its session on disk.        *)
Kill(p) ==
    /\ kills < MaxKills
    /\ screen' = [screen EXCEPT ![p] = "signup"]
    /\ calls' = [calls EXCEPT ![p] = {}]
    /\ kills' = kills + 1
    /\ UNCHANGED <<field, session, accounts, users, ncalls>>

Next ==
    \E p \in Phones :
        \/ \E e \in Emails : Type(p, e) \/ Login(p, e)
        \/ Signup(p) \/ SignOut(p) \/ Kill(p)
        \/ \E c \in calls[p] :
             \/ FetchEmail(p, c) \/ CreateAccount(p, c) \/ RefuseAccount(p, c)
             \/ CreateFails(p, c) \/ Created(p, c)

Spec == Init /\ [][Next]_vars

-----------------------------------------------------------------------------

(* The variables have their types; an account that has a session, or a     *)
(* users document, exists.                                                 *)
TypeOK ==
    /\ screen \in [Phones -> {"signup", "home"}]
    /\ field \in [Phones -> Emails]
    /\ session \in [Phones -> accounts \cup {None}]
    /\ accounts \subseteq Emails
    /\ users \in [Emails -> Emails \cup {None}]
    /\ \A e \in Emails : users[e] /= None => e \in accounts

(* Who is on the home screen is signed in, as the screens behind it assume *)
(* with currentUser! and as the comment of Signup() says: the user is      *)
(* created and then added.                                                 *)
HomeHasUser == \A p \in Phones : screen[p] = "home" => session[p] /= None
=============================================================================
