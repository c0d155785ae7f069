------------------------------- MODULE Accounts -------------------------------
(***************************************************************************)
(* Accounts, and the browser sessions signed in to them (control plane:    *)
(* routes/auth.ts over accounts/, sessions/ and ratelimit/), with the      *)
(* pages that ask.  Accounts are rows of Postgres behind two unique        *)
(* indexes; sessions and the limiter's counters are keys of Redis that     *)
(* expire; a cookie names a session, and every tab of a device sends it.   *)
(*                                                                         *)
(* A request is served in steps, one for each statement or command that    *)
(* another request can fall between, and its answer may be lost.  Texts    *)
(* are members of small sets, equal when the code normalizes them alike;   *)
(* a password is the person who chose it, for no route changes one.        *)
(***************************************************************************)
EXTENDS Integers, Sequences

CONSTANTS
    Tabs, Device,       \* the open pages; tab -> its browser, whose cookie it shares
    Owner,              \* device -> the person who uses it
    Tags,               \* gamer tags
    Bad,                \* a value, or an admin's email or password, that fails its validation
    Values,             \* of a profile's nickname, avatar or visibility
    LoginMax, LoginMaxPerIp, SignupMax,
    SessionTtl, Window, \* in ticks of Redis's clock
    Repertoires,        \* bound: how often each tab uses each page in one behaviour,
                        \*        retries while locked out aside
    MaxFaults           \* bound: restarts of the control plane and answers lost, by repertoire

People == {Owner[d] : d \in DOMAIN Owner}

ASSUME AccountsAssumption ==
    /\ Device \in [Tabs -> DOMAIN Owner]
    /\ Bad \notin Tags \cup Values \cup People /\ Tags \cap People = {}
    /\ \A name \in Tags \cup People : name \notin {"deleted"} \X Nat    \* nobody's, of a deleted row
    /\ {LoginMax, LoginMaxPerIp, SignupMax, SessionTtl, Window} \subseteq Nat \ {0}
    /\ MaxFaults \in [Repertoires -> Nat]

VARIABLES
    accounts,       \* id -> its row
    sessions,       \* session:<id>
    counters,       \* ratelimit:<key>, left = 0 where the window was never set
    cookie,         \* each device's session id
    tab,            \* what each tab shows
    request,        \* the request of each tab
    repertoire,     \* what each tab may still ask in this one
    faults,         \* bound: restarts and losses still to come
    opened,         \* history: the session ids handed out
    maker,          \* history: who signed up for each account
    gone            \* history: the accounts deleted so far

history == <<faults, opened, maker, gone>>
store == <<accounts, sessions, counters>>
vars  == <<store, cookie, tab, request, repertoire, history>>

None == 0
Keep == -1      \* a reply that leaves the cookie alone
Free == [does |-> "nothing"]
Blank == [page |-> "home", shown |-> None, answer |-> "none", form |-> <<>>]

Init ==
    /\ accounts = <<>> /\ sessions = <<>> /\ counters = <<>>
    /\ cookie = [d \in DOMAIN Owner |-> None]
    /\ tab = [t \in Tabs |-> Blank] /\ request = [t \in Tabs |-> Free]
    /\ repertoire \in Repertoires
    /\ faults = MaxFaults[repertoire] /\ opened = 0 /\ maker = <<>> /\ gone = {}

Me(t) == Owner[Device[t]]
With(f, x, v) == [y \in DOMAIN f \cup {x} |-> IF y = x THEN v ELSE f[y]]
Without(f, x) == [y \in DOMAIN f \ {x} |-> f[y]]

-----------------------------------------------------------------------------
(* The rows.                                                               *)

Found(ids) == IF ids = {} THEN None ELSE CHOOSE id \in ids : TRUE
FindByEmail(email) == Found({id \in DOMAIN accounts : accounts[id].email = email})
FindByGamerTag(tag) == Found({id \in DOMAIN accounts : accounts[id].tag = tag})

\* Mutant: a row is a row.
FindById_Whatever(id) == IF id \in DOMAIN accounts THEN id ELSE None
FindById(id) == IF id \in DOMAIN accounts /\ ~accounts[id].deleted THEN id ELSE None

\* By its shape, an identifier is an email or a gamer tag.
Resolve(identifier) ==
    IF identifier \in People THEN FindByEmail(identifier) ELSE FindByGamerTag(identifier)

Taken(form) == FindByEmail(form.email) # None \/ FindByGamerTag(form.tag) # None

Create(form) ==
    LET id == Len(maker) + 1
        row == [email |-> form.email, tag |-> form.tag, password |-> form.email,
                profile |-> "default", insider |-> FALSE, deleted |-> FALSE]
    IN accounts' = With(accounts, id, row)

\* The row stays, for the console; its email and its tag are free again.
SoftDelete(id) ==
    accounts' = IF id \notin DOMAIN accounts THEN accounts
                ELSE [accounts EXCEPT ![id].deleted = TRUE,
                                      ![id].email = <<"deleted", id>>, ![id].tag = <<"deleted", id>>]

\* The nickname, the avatar or the visibility, of any row: of a deleted one too.
Refused(id, value) == value = Bad \/ id \notin DOMAIN accounts
Update(id, value) == accounts' = [accounts EXCEPT ![id].profile = value]

-----------------------------------------------------------------------------
(* The limiter.                                                            *)

Hits(key) == IF key \in DOMAIN counters THEN counters[key].hits ELSE 0
Armed(key) == key \in DOMAIN counters /\ counters[key].left > 0

\* Mutant: a counter without a window is taken as it is.
Blocked_ForGood(key, limit) == Hits(key) >= limit
Blocked(key, limit) == Hits(key) >= limit /\ Armed(key)

\* check: a counter at its limit whose window was lost is dropped.
Check(key, limit) ==
    counters' = IF Hits(key) >= limit /\ ~Armed(key) /\ ~Blocked(key, limit)
                THEN Without(counters, key) ELSE counters

\* record: INCR, and for a first hit EXPIRE.
Incr(key) ==
    counters' = With(counters, key,
                     [hits |-> Hits(key) + 1, left |-> IF Armed(key) THEN counters[key].left ELSE 0])
Expire(key) ==
    counters' = IF key \in DOMAIN counters THEN [counters EXCEPT ![key].left = Window] ELSE counters

-----------------------------------------------------------------------------
(* Sessions.                                                               *)

OpenSession(account) ==
    /\ sessions' = With(sessions, opened + 1, [account |-> account, left |-> SessionTtl])
    /\ opened' = opened + 1

\* read: GET, and then EXPIRE.
\* Mutant: what was read is written back.
Touch_WritesBack(r) ==
    sessions' = With(sessions, r.sid, [account |-> r.account, left |-> SessionTtl])
Touch(r) ==
    sessions' = IF r.sid \in DOMAIN sessions THEN [sessions EXCEPT ![r.sid].left = SessionTtl] ELSE sessions

Revoke(id) == sessions' = Without(sessions, id)

-----------------------------------------------------------------------------
(* The pages.                                                              *)

Start(t, does, at, form) ==
    request' = [request EXCEPT ![t] =
                  [does |-> does, at |-> at, form |-> form, sid |-> cookie[Device[t]],
                   account |-> None, key |-> <<>>, before |-> gone]]

\* A form is filled in and sent; while it is on its way its button is off.
Submits(t, page, does, at, form) ==
    /\ request[t] = Free /\ repertoire[t][page] > 0
    /\ repertoire' = [repertoire EXCEPT ![t][page] = @ - 1]
    /\ Start(t, does, at, form)
    /\ tab' = [tab EXCEPT ![t] = [page |-> page, shown |-> IF @.page = page THEN @.shown ELSE None,
                                  answer |-> "none", form |-> form]]
    /\ UNCHANGED <<store, cookie, history>>

LogIn(t) == \E who \in Tags \cup {Me(t)} : Submits(t, "login", "login", "address", [who |-> who])
SignUp(t) == \E tag \in Tags : Submits(t, "signup", "signup", "address", [email |-> Me(t), tag |-> tag])
JoinByCode(t) ==                      \* only after a join was answered 401
    cookie[Device[t]] \notin DOMAIN sessions /\ Submits(t, "join", "anonymous", "open", <<>>)

\* The account page asks who is signed in; its buttons are there once it shows an
\* account, and a deletion is asked twice.
OpenAccount(t) == tab[t].shown = None /\ Submits(t, "account", "me", "read", <<>>)
SaveProfile(t) ==
    tab[t].shown # None /\ \E v \in Values \cup {Bad} : Submits(t, "account", "save", "read", [value |-> v])
LogOut(t) == tab[t].shown # None /\ Submits(t, "account", "logout", "revoke", <<>>)
AskDelete(t) ==
    /\ request[t] = Free /\ tab[t].page = "account" /\ tab[t].shown # None /\ tab[t].answer # "sure?"
    /\ tab' = [tab EXCEPT ![t].answer = "sure?"]
    /\ UNCHANGED <<store, cookie, request, repertoire, history>>
Delete(t) == tab[t].shown # None /\ tab[t].answer = "sure?" /\ Submits(t, "account", "delete", "read", <<>>)

\* "Please try again later."
Retry(t) ==
    /\ request[t] = Free /\ tab[t].answer = "blocked"
    /\ Start(t, tab[t].page, "address", tab[t].form)
    /\ UNCHANGED <<store, cookie, tab, repertoire, history>>

-----------------------------------------------------------------------------
(* The routes.                                                             *)

At(t, does, at) == request[t].does \in does /\ request[t].at = at

Goes(t, at) == request' = [request EXCEPT ![t].at = at]

\* Replies set the cookie, clear it, or leave it alone.
Answers(t, answer, shown, change) ==
    request' = [request EXCEPT ![t] = [does |-> @.does, at |-> "answered", answer |-> answer,
                                       shown |-> shown, change |-> change, before |-> @.before]]
Refuses(t, answer) == Answers(t, answer, None, Keep)

LimitKey(t) == IF request[t].does = "signup" THEN <<"signup">> ELSE <<"login-ip">>
AddressLimit(t) == IF request[t].does = "signup" THEN SignupMax ELSE LoginMaxPerIp

\* Both forms are first held against the attempts from this address.
CheckAddress(t) ==
    /\ At(t, {"login", "signup"}, "address")
    /\ Check(LimitKey(t), AddressLimit(t))
    /\ IF Blocked(LimitKey(t), AddressLimit(t)) THEN Refuses(t, "blocked")
       ELSE IF request[t].does = "login" THEN Goes(t, "resolve")
       ELSE request' = [request EXCEPT ![t].at = "record", ![t].key = LimitKey(t)]
    /\ UNCHANGED <<accounts, sessions, opened, maker, gone>>

\* beginLogin: the account as it is now, and the bucket of its failures.
BeginLogin(t) ==
    /\ At(t, {"login"}, "resolve")
    /\ LET id == Resolve(request[t].form.who)
           key == IF id = None THEN <<"identifier", request[t].form.who>> ELSE <<"account", id>>
       IN request' = [request EXCEPT ![t].at = "lock", ![t].account = id, ![t].key = key]
    /\ UNCHANGED <<store, opened, maker, gone>>

\* A lock holds whatever the password; then the password is held against the row that
\* was read.
Verifies(t) == request[t].account # None /\ maker[request[t].account] = Me(t)
Verify(t) ==
    /\ At(t, {"login"}, "lock")
    /\ Check(request[t].key, LoginMax)
    /\ IF Blocked(request[t].key, LoginMax) THEN Refuses(t, "blocked")
       ELSE Goes(t, IF Verifies(t) THEN "reset" ELSE "record")
    /\ UNCHANGED <<accounts, sessions, opened, maker, gone>>

\* A failed login counts against the account and then the address; a sign-up counts
\* before it is looked at.
AfterRecord(t) ==
    IF request[t].does = "signup" THEN Goes(t, "names")
    ELSE IF request[t].key = LimitKey(t) THEN Refuses(t, "error")
    ELSE request' = [request EXCEPT ![t].at = "record", ![t].key = LimitKey(t)]
Record(t) ==
    /\ At(t, {"login", "signup"}, "record")
    /\ Incr(request[t].key)
    /\ IF Hits(request[t].key) = 0 THEN Goes(t, "arm") ELSE AfterRecord(t)
    /\ UNCHANGED <<accounts, sessions, opened, maker, gone>>
Arm(t) ==
    /\ At(t, {"login", "signup"}, "arm")
    /\ Expire(request[t].key) /\ AfterRecord(t)
    /\ UNCHANGED <<accounts, sessions, opened, maker, gone>>

Reset(t) ==
    /\ At(t, {"login"}, "reset")
    /\ counters' = Without(counters, request[t].key) /\ Goes(t, "open")
    /\ UNCHANGED <<accounts, sessions, opened, maker, gone>>

\* Two look-ups for a friendlier error; the indexes decide.  (A form that fails its
\* validation ends here too, like one whose tag is taken.)
CheckNames(t) ==
    /\ At(t, {"signup"}, "names")
    /\ IF Taken(request[t].form) THEN Refuses(t, "error") ELSE Goes(t, "create")
    /\ UNCHANGED <<store, opened, maker, gone>>
CreateAccount(t) ==
    /\ At(t, {"signup"}, "create")
    /\ IF Taken(request[t].form)
       THEN Refuses(t, "error") /\ UNCHANGED <<accounts, maker>>
       ELSE /\ Create(request[t].form) /\ maker' = Append(maker, Me(t))
            /\ request' = [request EXCEPT ![t].at = "open", ![t].account = Len(maker) + 1]
    /\ UNCHANGED <<sessions, counters, opened, gone>>

\* The session is of the account the credentials were held against.
\* Mutant: of the one the identifier names by then.
SignedInTo_AsksAgain(r) == IF r.does = "login" THEN Resolve(r.form.who) ELSE r.account
SignedInTo(r) == r.account
Open(t) ==
    /\ At(t, {"login", "signup"}, "open")
    /\ OpenSession(SignedInTo(request[t]))
    /\ Answers(t, "done", SignedInTo(request[t]), opened + 1)
    /\ UNCHANGED <<accounts, counters, maker, gone>>
OpenAnonymous(t) ==
    /\ At(t, {"anonymous"}, "open")
    /\ OpenSession(None) /\ Answers(t, "done", None, opened + 1)
    /\ UNCHANGED <<accounts, counters, maker, gone>>

\* currentSession, of me, the profile routes and the deletion.
ReadSession(t) ==
    /\ At(t, {"me", "save", "delete"}, "read")
    /\ IF request[t].sid \in DOMAIN sessions
       THEN request' = [request EXCEPT ![t].at = "touch", ![t].account = sessions[request[t].sid].account]
       ELSE Refuses(t, IF request[t].does = "me" THEN "none" ELSE "error")
    /\ UNCHANGED <<store, opened, maker, gone>>
TouchSession(t) ==
    /\ At(t, {"me", "save", "delete"}, "touch")
    /\ Touch(request[t])
    /\ IF request[t].account = None
       THEN Refuses(t, IF request[t].does = "me" THEN "none" ELSE "error") ELSE Goes(t, "row")
    /\ UNCHANGED <<accounts, counters, opened, maker, gone>>

\* me: an account that is gone signs its sessions out as they turn up.
LoadMe(t) ==
    /\ At(t, {"me"}, "row")
    /\ LET id == FindById(request[t].account)
       IN IF id = None THEN Goes(t, "revoke") ELSE Answers(t, "none", id, Keep)
    /\ UNCHANGED <<store, opened, maker, gone>>

WriteProfile(t) ==
    /\ At(t, {"save"}, "row")
    /\ IF Refused(request[t].account, request[t].form.value)
       THEN Refuses(t, "error") /\ UNCHANGED accounts
       ELSE /\ Update(request[t].account, request[t].form.value)
            /\ Answers(t, "saved", request[t].account, Keep)
    /\ UNCHANGED <<sessions, counters, opened, maker, gone>>

EraseMe(t) ==
    /\ At(t, {"delete"}, "row")
    /\ SoftDelete(request[t].account) /\ gone' = gone \cup {request[t].account}
    /\ Goes(t, "revoke")
    /\ UNCHANGED <<sessions, counters, opened, maker>>

RevokeSession(t) ==
    /\ At(t, {"me", "delete", "logout"}, "revoke")
    /\ Revoke(request[t].sid)
    /\ Answers(t, IF request[t].does = "me" THEN "none" ELSE "home", None, None)
    /\ UNCHANGED <<accounts, counters, opened, maker, gone>>

Serve(t) ==
    /\ \/ CheckAddress(t) \/ BeginLogin(t) \/ Verify(t) \/ Record(t) \/ Arm(t) \/ Reset(t)
       \/ CheckNames(t) \/ CreateAccount(t) \/ Open(t) \/ OpenAnonymous(t)
       \/ ReadSession(t) \/ TouchSession(t) \/ LoadMe(t) \/ WriteProfile(t) \/ EraseMe(t) \/ RevokeSession(t)
    /\ UNCHANGED <<cookie, tab, repertoire, faults>>

-----------------------------------------------------------------------------
(* Answers, losses and time.                                               *)

Shows(t, answer, shown) ==
    tab' = [tab EXCEPT ![t] = IF answer = "home" THEN Blank
                              ELSE [tab[t] EXCEPT !.answer = answer,
                                      !.shown = IF @ # None /\ answer = "error" THEN @ ELSE shown]]

Deliver(t) ==
    /\ request[t] # Free /\ request[t].at = "answered"
    /\ LET r == request[t]
       IN /\ cookie' = [cookie EXCEPT ![Device[t]] =
                          IF r.change = Keep THEN @ ELSE r.change]
          /\ Shows(t, r.answer, IF tab[t].page = "account" THEN r.shown ELSE None)
    /\ request' = [request EXCEPT ![t] = Free]
    /\ UNCHANGED <<store, repertoire, history>>

\* A page that hears nothing says so; one that logs out goes home all the same.
Unheard(t) == IF request[t].does = "logout" THEN "home" ELSE "error"
Lose(t) ==
    /\ request[t] # Free /\ request[t].at = "answered"
    /\ faults > 0 /\ faults' = faults - 1
    /\ Shows(t, Unheard(t), None)
    /\ request' = [request EXCEPT ![t] = Free]
    /\ UNCHANGED <<store, cookie, repertoire, opened, maker, gone>>

\* The control plane dies, and with it the requests it was serving.
Dies ==
    /\ faults > 0 /\ faults' = faults - 1
    /\ tab' = [t \in Tabs |->
                 IF request[t] = Free THEN tab[t]
                 ELSE IF request[t].does = "logout" THEN Blank ELSE [tab[t] EXCEPT !.answer = "error"]]
    /\ request' = [t \in Tabs |-> Free]
    /\ UNCHANGED <<store, cookie, repertoire, opened, maker, gone>>

\* Redis's clock.
Tick ==
    /\ sessions' = [id \in {i \in DOMAIN sessions : sessions[i].left > 1} |->
                      [sessions[id] EXCEPT !.left = @ - 1]]
    /\ counters' = [key \in {k \in DOMAIN counters : counters[k].left # 1} |->
                      [counters[key] EXCEPT !.left = IF @ = 0 THEN 0 ELSE @ - 1]]
    /\ UNCHANGED <<accounts, cookie, tab, request, repertoire, history>>

Ask(t) ==
    \/ LogIn(t) \/ SignUp(t) \/ JoinByCode(t) \/ OpenAccount(t) \/ SaveProfile(t) \/ LogOut(t)
    \/ AskDelete(t) \/ Delete(t)

Use(t) == Ask(t) \/ Retry(t) \/ Serve(t) \/ Deliver(t) \/ Lose(t)
===============================================================================
