------------------------------- MODULE SignIn -------------------------------
(***************************************************************************)
(* From launch to the schedule screen: LoginViewController, the sign-in    *)
(* callback of AppDelegate and fetchCalendarList of GoogleCalendarService. *)
(* The callback runs on the main thread; the completion of each calendar   *)
(* list request runs on a queue of its own and writes UserDefaults one     *)
(* list entry at a time.  Google's sign-in and the calendar list service   *)
(* are not part of the repository.                                         *)
(***************************************************************************)
EXTENDS Naturals, Sequences, TLAPS

CONSTANTS
  Accounts,      \* Google accounts the user may choose
  CalendarIds,   \* ids of calendars
  NameOf,        \* the profile name of each account, or NoName
  InitialLists,  \* calendar lists of the accounts at first
  SharedLists,   \* lists they may turn into when a calendar is shared
  NoName, NoCalendar, NoOne,
  MaxFetches     \* bound: calendar list requests under way at once

Summaries == {"meshiiru", "other", "none"}
Item == [summary: Summaries, id: CalendarIds \cup {NoCalendar}]

\* What the constants must be; a module that takes an instance assumes it.
SignInAssumption ==
  /\ NoCalendar \notin CalendarIds /\ NoOne \notin Accounts
  /\ InitialLists \subseteq [Accounts -> Seq(Item)]
  /\ SharedLists \subseteq Seq(Item)
  /\ MaxFetches \in Nat \ {0}

VARIABLES
  userName,      \* UserDefaults "userName"
  calendarId,    \* UserDefaults "calendarId"
  keychain,      \* the account GIDSignIn can restore
  currentUser,   \* GIDSignIn.sharedInstance().currentUser
  screen,        \* "dead", "login" or "home"
  signIns,       \* sign-ins under way: "restore", "button"
  checking,      \* the callback is about to look for a calendar id
  fetches,       \* calendar list requests and their answers
  lists          \* the service: calendar list of each account

defaults == <<userName, calendarId>>
vars == <<defaults, keychain, currentUser, screen, signIns, checking, fetches,
          lists>>

\* A request, or the entries its completion has still to look at.
Fetch ==
  [n: 1 .. MaxFetches, account: Accounts, phase: {"asked", "storing"},
   items: Seq(Item)]

\* Numbers that tell requests apart.
FreeNumbers == {n \in 1 .. MaxFetches : \A f \in fetches : f.n # n}

Init ==
  /\ userName = NoName
  /\ calendarId = NoCalendar
  /\ keychain = NoOne
  /\ currentUser = NoOne
  /\ screen = "dead"
  /\ signIns = {}
  /\ checking = FALSE
  /\ fetches = {}
  /\ lists \in InitialLists

\* viewDidLoad of the login screen restores the previous sign-in.
Launch ==
  /\ screen = "dead"
  /\ screen' = "login"
  /\ signIns' = {"restore"}
  /\ UNCHANGED <<defaults, keychain, currentUser, checking, fetches, lists>>

\* The GIDSignInButton of the login screen.
TapSignIn ==
  /\ screen = "login"
  /\ ~checking
  /\ "button" \notin signIns
  /\ signIns' = signIns \cup {"button"}
  /\ UNCHANGED <<defaults, keychain, currentUser, screen, checking, fetches,
                 lists>>

\* The callback returns when there is no name to save.
HasNoName(account) == userName = NoName /\ NameOf[account] = NoName

\* didSignInFor, up to the request for the calendar list.
SignedIn(kind, account) ==
  /\ ~checking
  /\ kind = "restore" => account = keychain
  /\ signIns' = signIns \ {kind}
  /\ currentUser' = account
  /\ keychain' = account
  /\ IF HasNoName(account)
     THEN UNCHANGED <<userName, fetches, checking>>
     ELSE /\ FreeNumbers # {}
          /\ userName' = IF userName = NoName THEN NameOf[account]
                                              ELSE userName
          /\ fetches' = fetches \cup
               {[n |-> CHOOSE n \in FreeNumbers : TRUE, account |-> account,
                 phase |-> "asked", items |-> <<>>]}
          /\ checking' = TRUE
  /\ UNCHANGED <<calendarId, screen, lists>>

\* didSignInFor with an error, which it only prints.
SignInFails(kind) ==
  /\ ~checking
  /\ signIns' = signIns \ {kind}
  /\ UNCHANGED <<defaults, keychain, currentUser, screen, checking, fetches,
                 lists>>

\* The rest of didSignInFor.  performSegue does nothing when the home screen
\* is already presented.
CheckCalendar ==
  /\ checking
  /\ checking' = FALSE
  /\ screen' = IF calendarId # NoCalendar THEN "home" ELSE screen
  /\ UNCHANGED <<defaults, keychain, currentUser, signIns, fetches,
                 lists>>

AnswerFetch(f) ==
  /\ f.phase = "asked"
  /\ fetches' = (fetches \ {f}) \cup
       {[f EXCEPT !.phase = "storing", !.items = lists[f.account]]}
  /\ UNCHANGED <<defaults, keychain, currentUser, screen, signIns, checking,
                 lists>>

\* No data, no JSON or an error body: the completion does nothing.
LoseFetch(f) ==
  /\ f.phase = "asked"
  /\ fetches' = fetches \ {f}
  /\ UNCHANGED <<defaults, keychain, currentUser, screen, signIns, checking,
                 lists>>

\* calendarName == "meshiiru".
IsMeshiiru(item) == item.summary = "meshiiru"

\* Faulty loops: one that stores a missing id, one that stops at the first
\* calendar of another name.
StopsAtNameless(item) == item.summary = "none"
StopsAtOther(item) == item.summary # "meshiiru" \/ item.id = NoCalendar

\* The loop stops for good at an entry without a name, and at a matching one
\* without an id.
StopsAt(item) ==
  item.summary = "none" \/ (IsMeshiiru(item) /\ item.id = NoCalendar)

\* Faulty completion that opens the home screen itself.
EndWithSegue(f) ==
  /\ f.phase = "storing"
  /\ f.items # <<>> => StopsAt(Head(f.items))
  /\ fetches' = fetches \ {f}
  /\ screen' = IF calendarId # NoCalendar THEN "home" ELSE screen
  /\ UNCHANGED <<defaults, keychain, currentUser, signIns, checking, lists>>

\* The loop ends, at its end or early.
EndStoring(f) ==
  /\ f.phase = "storing"
  /\ f.items # <<>> => StopsAt(Head(f.items))
  /\ fetches' = fetches \ {f}
  /\ UNCHANGED <<defaults, keychain, currentUser, screen, signIns, checking,
                 lists>>

\* One iteration of the loop.
StoreItem(f) ==
  /\ f.phase = "storing"
  /\ f.items # <<>>
  /\ ~StopsAt(Head(f.items))
  /\ fetches' = (fetches \ {f}) \cup {[f EXCEPT !.items = Tail(@)]}
  /\ calendarId' = IF IsMeshiiru(Head(f.items)) THEN Head(f.items).id
                                                ELSE calendarId
  /\ UNCHANGED <<userName, keychain, currentUser, screen, signIns, checking,
                 lists>>

\* The process ends; UserDefaults and the keychain stay.
Die ==
  /\ screen # "dead"
  /\ screen' = "dead"
  /\ currentUser' = NoOne
  /\ signIns' = {}
  /\ checking' = FALSE
  /\ fetches' = {}
  /\ UNCHANGED <<defaults, keychain, lists>>

\* A calendar is shared with an account, or made by another client.
Share(account) ==
  /\ \E list \in SharedLists : lists' = [lists EXCEPT ![account] = list]
  /\ UNCHANGED <<defaults, keychain, currentUser, screen, signIns, checking,
                 fetches>>

Callback ==
  \/ \E kind \in signIns, account \in Accounts : SignedIn(kind, account)
  \/ \E kind \in signIns : SignInFails(kind)

\* The answer to one request, and its completion.
Storing(n) ==
  \E f \in fetches :
    f.n = n /\ (AnswerFetch(f) \/ StoreItem(f) \/ EndStoring(f))

Next ==
  \/ Launch
  \/ TapSignIn
  \/ Callback
  \/ CheckCalendar
  \/ \E n \in 1 .. MaxFetches : Storing(n)
  \/ \E f \in fetches : LoseFetch(f)
  \/ Die
  \/ \E account \in Accounts : Share(account)

Spec == Init /\ [][Next]_vars

\* The callback that has begun ends, and requests and completions go on; that
\* anybody signs in, and that sign-in succeeds, is not promised.
FairSpec ==
  /\ Spec
  /\ WF_vars(CheckCalendar)
  /\ \A n \in 1 .. MaxFetches : WF_vars(Storing(n))
-----------------------------------------------------------------------------
(***************************************************************************)
(* What sign-in must keep, over the actions of SignIn.                     *)
(***************************************************************************)

ProfileNames == {NameOf[account] : account \in Accounts} \ {NoName}

\* Every variable has its type; a calendar list is only ever asked for on
\* behalf of a user with a saved name.
SignInTypeOK ==
  /\ userName \in ProfileNames \cup {NoName}
  /\ calendarId \in CalendarIds \cup {NoCalendar}
  /\ keychain \in Accounts \cup {NoOne}
  /\ currentUser \in Accounts \cup {NoOne}
  /\ screen \in {"dead", "login", "home"}
  /\ signIns \subseteq {"restore", "button"}
  /\ checking \in BOOLEAN
  /\ fetches \subseteq Fetch
  /\ fetches # {} => userName \in ProfileNames
  /\ lists \in [Accounts -> Seq(Item)]

(***************************************************************************)
(* The schedule screen never runs without a name, a calendar and a user:   *)
(* its guards on UserDefaults and currentUser, whose failure would make    *)
(* onTapCompleteButton return silently, always pass, although answers of   *)
(* earlier requests keep writing UserDefaults while it is open.            *)
(***************************************************************************)
HomeHasIdentity ==
  screen = "home" =>
    /\ userName # NoName
    /\ calendarId # NoCalendar
    /\ currentUser # NoOne

\* Positions of a list whose calendar the user would expect to be found: named
\* "meshiiru", with nothing unreadable at or before them.
Saveable(list) ==
  {i \in DOMAIN list :
     /\ list[i].summary = "meshiiru"
     /\ \A j \in 1 .. i :
          /\ list[j].summary # "none"
          /\ list[j].summary = "meshiiru" => list[j].id # NoCalendar}

(***************************************************************************)
(* A calendar found is saved: an answer that lists a calendar named        *)
(* "meshiiru" where the loop gets to ends with an id in UserDefaults,      *)
(* whatever other answers do meanwhile, unless the process dies.           *)
(***************************************************************************)
FoundCalendarIsSaved ==
  (\E f \in fetches : f.phase = "storing" /\ Saveable(f.items) # {})
    ~> calendarId # NoCalendar \/ screen = "dead"

(***************************************************************************)
(* AppDelegate gives up, staying on the login screen, only when the user   *)
(* has no calendar ("if there is no id in the list, create or share").     *)
(***************************************************************************)
GivesUpOnlyWithoutCalendar ==
  [][checking /\ ~checking' /\ screen' = "login"
       => Saveable(lists[currentUser]) = {}]_vars
-----------------------------------------------------------------------------
(***************************************************************************)
(* Theorems about sign-in, for every set of accounts, names and calendar   *)
(* lists and any number of requests under way.                             *)
(***************************************************************************)
USE DEF defaults, vars

\* What a step of sign-in leaves typed: the loop saves ids of entries only.
LEMMA StoredIdIsCalendar ==
  ASSUME NEW item \in Item, ~StopsAt(item), IsMeshiiru(item)
  PROVE  item.id \in CalendarIds
BY DEF Item, StopsAt, IsMeshiiru

\* The initial state is typed.
LEMMA SignInTypeInit ==
  ASSUME SignInAssumption
  PROVE  Init => SignInTypeOK
BY DEF SignInAssumption, Init, SignInTypeOK

\* Every step keeps the types.
LEMMA SignInTypeStep ==
  ASSUME SignInAssumption
  PROVE  SignInTypeOK /\ [Next]_vars => SignInTypeOK'
<1>. SUFFICES ASSUME SignInTypeOK, [Next]_vars PROVE SignInTypeOK'
  OBVIOUS
<1>. USE DEF SignInTypeOK
<1>1. ASSUME Launch PROVE SignInTypeOK'
  BY <1>1 DEF Launch
<1>2. ASSUME TapSignIn PROVE SignInTypeOK'
  BY <1>2 DEF TapSignIn
<1>3. ASSUME NEW kind \in signIns, NEW account \in Accounts,
             SignedIn(kind, account)
      PROVE  SignInTypeOK'
  <2>1. CASE HasNoName(account)
    BY <1>3, <2>1 DEF SignedIn
  <2>2. CASE ~HasNoName(account)
    <3>1. userName' \in ProfileNames
      BY <1>3, <2>2 DEF SignedIn, HasNoName, ProfileNames
    <3>2. (CHOOSE n \in FreeNumbers : TRUE) \in 1 .. MaxFetches
      BY <1>3, <2>2 DEF SignedIn, FreeNumbers
    <3>3. fetches' \subseteq Fetch
      <4>. DEFINE new == [n |-> CHOOSE n \in FreeNumbers : TRUE,
                          account |-> account, phase |-> "asked",
                          items |-> <<>>]
      <4>1. <<>> \in Seq(Item)
        OBVIOUS
      <4>2. new \in Fetch
        BY <3>2, <4>1 DEF Fetch
      <4>. QED
        BY <1>3, <2>2, <4>2 DEF SignedIn
    <3>. QED
      BY <1>3, <2>2, <3>1, <3>3 DEF SignedIn
  <2>. QED
    BY <2>1, <2>2
<1>4. ASSUME NEW kind \in signIns, SignInFails(kind) PROVE SignInTypeOK'
  BY <1>4 DEF SignInFails
<1>5. ASSUME CheckCalendar PROVE SignInTypeOK'
  BY <1>5 DEF CheckCalendar
<1>6. ASSUME NEW f \in fetches, AnswerFetch(f) PROVE SignInTypeOK'
  <2>1. fetches' \subseteq Fetch
    BY <1>6 DEF AnswerFetch, Fetch
  <2>. QED
    BY <1>6, <2>1 DEF AnswerFetch
<1>7. ASSUME NEW f \in fetches, StoreItem(f) PROVE SignInTypeOK'
  <2>1. Head(f.items) \in Item /\ Tail(f.items) \in Seq(Item)
    BY <1>7 DEF StoreItem, Fetch
  <2>2. fetches' \subseteq Fetch
    BY <1>7, <2>1 DEF StoreItem, Fetch
  <2>3. calendarId' \in CalendarIds \cup {NoCalendar}
    BY <1>7, <2>1, StoredIdIsCalendar DEF StoreItem
  <2>. QED
    BY <1>7, <2>2, <2>3 DEF StoreItem
<1>8. ASSUME NEW f \in fetches, EndStoring(f) PROVE SignInTypeOK'
  BY <1>8 DEF EndStoring
<1>9. ASSUME NEW f \in fetches, LoseFetch(f) PROVE SignInTypeOK'
  BY <1>9 DEF LoseFetch
<1>10. ASSUME Die PROVE SignInTypeOK'
  BY <1>10 DEF Die
<1>11. ASSUME NEW account \in Accounts, Share(account) PROVE SignInTypeOK'
  BY <1>11 DEF SignInAssumption, Share
<1>12. ASSUME UNCHANGED vars PROVE SignInTypeOK'
  BY <1>12
<1>. QED
  BY <1>1, <1>2, <1>3, <1>4, <1>5, <1>6, <1>7, <1>8, <1>9, <1>10, <1>11,
     <1>12 DEF Next, Callback, Storing

(***************************************************************************)
(* Every variable of sign-in keeps its type, and a calendar list is only   *)
(* ever asked for on behalf of a user with a saved name.                   *)
(***************************************************************************)
THEOREM SignInTypeCorrect ==
  ASSUME SignInAssumption
  PROVE  Spec => []SignInTypeOK
BY SignInTypeInit, SignInTypeStep, PTL DEF Spec
-----------------------------------------------------------------------------
\* HomeHasIdentity made inductive: the callback that is about to open the
\* screen has already saved a name and a user.
Identity ==
  /\ SignInTypeOK
  /\ HomeHasIdentity
  /\ checking => userName # NoName /\ currentUser # NoOne

\* Every step keeps Identity.
LEMMA IdentityStep ==
  ASSUME SignInAssumption
  PROVE  Identity /\ [Next]_vars => Identity'
<1>. SUFFICES ASSUME Identity, [Next]_vars PROVE Identity'
  OBVIOUS
<1>1. SignInTypeOK'
  BY SignInTypeStep DEF Identity
<1>. USE <1>1 DEF SignInAssumption, Identity, HomeHasIdentity
<1>2. CASE \E kind \in signIns, account \in Accounts : SignedIn(kind, account)
  BY <1>2 DEF SignedIn, HasNoName, SignInTypeOK, ProfileNames
<1>3. CASE \E f \in fetches : StoreItem(f)
  <2>1. PICK f \in fetches : StoreItem(f)
    BY <1>3
  <2>2. Head(f.items) \in Item
    BY <2>1 DEF StoreItem, Fetch, SignInTypeOK
  <2>3. calendarId' # NoCalendar \/ calendarId' = calendarId
    BY <2>1, <2>2, StoredIdIsCalendar DEF StoreItem
  <2>. QED
    BY <2>1, <2>3 DEF StoreItem
<1>4. CASE Launch \/ TapSignIn \/ CheckCalendar \/ Die
  BY <1>4 DEF Launch, TapSignIn, CheckCalendar, Die
<1>5. CASE UNCHANGED <<defaults, currentUser, screen, checking>>
  BY <1>5
<1>. QED
  BY <1>2, <1>3, <1>4, <1>5
  DEF Next, Callback, Storing, SignInFails, AnswerFetch, EndStoring, LoseFetch,
      Share

(***************************************************************************)
(* The schedule screen never runs without a name, a calendar and a user,   *)
(* so the guards of its requests never fail.                               *)
(***************************************************************************)
THEOREM HomeIsIdentified ==
  ASSUME SignInAssumption
  PROVE  Spec => []HomeHasIdentity
<1>1. Init => Identity
  BY SignInTypeInit DEF Init, Identity, HomeHasIdentity
<1>2. Identity => HomeHasIdentity
  BY DEF Identity
<1>. QED
  BY <1>1, <1>2, IdentityStep, PTL DEF Spec
=============================================================================
