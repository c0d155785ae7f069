---------------------------- MODULE Console_proof -----------------------------
(***************************************************************************)
(* The accounts and their console for any people, devices, tabs, operators *)
(* and limits: whose account a browser is signed in to, and what is left   *)
(* of a session or an account that was ended.                              *)
(***************************************************************************)
EXTENDS Console, TLAPS

Tombstones == {"deleted"} \X Nat

Rows ==
    /\ opened \in Nat /\ maker \in Seq(People) /\ gone \subseteq 1 .. Len(maker)
    /\ DOMAIN accounts \subseteq 1 .. Len(maker)
    /\ \A id \in DOMAIN accounts :
         /\ {"email", "tag", "deleted"} \subseteq DOMAIN accounts[id]
         /\ id \in gone => /\ accounts[id].deleted = TRUE
                           /\ accounts[id].email \in Tombstones /\ accounts[id].tag \in Tombstones

Keys ==
    /\ DOMAIN sessions \subseteq 1 .. opened /\ DOMAIN adminSessions \subseteq 1 .. opened
    /\ \A id \in DOMAIN sessions : {"account", "left"} \subseteq DOMAIN sessions[id]

Owned(a, p) == a \in 1 .. Len(maker) /\ maker[a] = p

\* A session is nobody's, or of an account of this person.
Signs(sid, p) ==
    sid \in DOMAIN sessions => sessions[sid].account = None \/ Owned(sessions[sid].account, p)

Cookies ==
    /\ DOMAIN cookie = DOMAIN Owner
    /\ \A d \in DOMAIN Owner : cookie[d] \in 0 .. opened /\ Signs(cookie[d], Owner[d])

Pending == {"does", "at", "form", "sid", "account", "key", "before"}

Asked(t) ==
    request[t] # Free /\ request[t].at # "answered" =>
        /\ Pending \subseteq DOMAIN request[t]
        /\ request[t].before \subseteq gone
        /\ request[t].sid \in 0 .. opened /\ Signs(request[t].sid, Me(t))
        /\ request[t].does = "login" =>
              /\ request[t].form.who \in Tags \cup People
              /\ request[t].account \in 0 .. Len(maker) /\ request[t].account \notin request[t].before
        /\ request[t].does \in {"login", "signup"} /\ request[t].at \in {"reset", "open"} =>
              Owned(request[t].account, Me(t)) /\ request[t].account \notin request[t].before
        /\ request[t].at \in {"touch", "row"} =>
              request[t].account = None \/ Owned(request[t].account, Me(t))
        /\ request[t].at = "row" => request[t].account # None

Settled == {"does", "at", "answer", "shown", "change", "before"}

Answered(t) ==
    request[t] # Free /\ request[t].at = "answered" =>
        /\ Settled \subseteq DOMAIN request[t]
        /\ request[t].before \subseteq gone
        /\ request[t].shown = None \/ Owned(request[t].shown, Me(t))
        /\ request[t].change # Keep => request[t].change \in 0 .. opened /\ Signs(request[t].change, Me(t))
        /\ request[t].does \in {"me", "login", "signup"} => request[t].shown \notin request[t].before

Requests == DOMAIN request = Tabs /\ \A t \in Tabs : Asked(t) /\ Answered(t)

Shown(t) ==
    /\ {"page", "shown", "answer", "form"} \subseteq DOMAIN tab[t]
    /\ tab[t].shown = None \/ Owned(tab[t].shown, Me(t))
    /\ tab[t].page = "login" => tab[t].form.who \in Tags \cup People

Screens == DOMAIN tab = Tabs /\ \A t \in Tabs : Shown(t)

\* What a console asks about a player, and whom it shows.
Order(c) ==
    order[c] # Free =>
        /\ {"does", "at", "form"} \subseteq DOMAIN order[c]
        /\ order[c].at # "answered" /\ order[c].does \in {"user", "insider", "delete"} =>
              order[c].form.id \in 1 .. Len(maker)
        /\ order[c].at = "answered" /\ order[c].answer \in {"user", "insider"} =>
              order[c].form.id \in 1 .. Len(maker)

Drawn(c) ==
    /\ {"page", "user", "insider", "answer", "form"} \subseteq DOMAIN console[c]
    /\ console[c].page = "user" => console[c].user \in 1 .. Len(maker)

Operators ==
    /\ DOMAIN order = Consoles /\ DOMAIN console = Consoles
    /\ \A c \in Consoles : Order(c) /\ Drawn(c)

AccountsInv == Rows /\ Keys /\ Cookies /\ Requests /\ Screens /\ Operators

-----------------------------------------------------------------------------
(* What persists.                                                          *)

\* Ids are handed out once, accounts keep their maker, and who is gone stays gone.
Onwards ==
    /\ opened' \in Nat /\ opened <= opened'
    /\ maker' \in Seq(People) /\ Len(maker) <= Len(maker')
    /\ \A a \in 1 .. Len(maker) : maker'[a] = maker[a]
    /\ gone \subseteq gone'
    /\ \A id \in DOMAIN sessions' : id <= opened =>
          id \in DOMAIN sessions /\ sessions'[id].account = sessions[id].account

LEMMA Owning ==
  ASSUME Rows, Onwards
  PROVE  /\ \A a, p : Owned(a, p) => Owned(a, p)'
         /\ \A sid \in 0 .. opened : sid \in 0 .. opened' /\ \A p : Signs(sid, p) => Signs(sid, p)'
  <1>1. /\ opened \in Nat /\ opened' \in Nat /\ opened <= opened'
        /\ Len(maker) \in Nat /\ Len(maker') \in Nat /\ Len(maker) <= Len(maker')
    BY DEF Rows, Onwards
  <1>2. \A a, p : Owned(a, p) => Owned(a, p)'
    BY <1>1 DEF Owned, Onwards
  <1>3. ASSUME NEW sid \in 0 .. opened, NEW p, Signs(sid, p) PROVE Signs(sid, p)'
    BY <1>1, <1>2, <1>3 DEF Signs, Onwards
  <1> QED  BY <1>1, <1>2, <1>3

LEMMA RequestLasts ==
  ASSUME Rows, Onwards, NEW t \in Tabs, Asked(t), Answered(t), request'[t] = request[t]
  PROVE  Asked(t)' /\ Answered(t)'
  <1>1. Len(maker) \in Nat /\ Len(maker') \in Nat /\ Len(maker) <= Len(maker') /\ gone \subseteq gone'
    BY DEF Rows, Onwards
  <1>2. Asked(t)'
    BY <1>1, Owning DEF Asked
  <1>3. Answered(t)'
    BY <1>1, Owning DEF Answered
  <1> QED  BY <1>2, <1>3

LEMMA TabLasts ==
  ASSUME Rows, Onwards, NEW t \in Tabs, Shown(t), tab'[t] = tab[t]
  PROVE  Shown(t)'
  BY Owning DEF Shown

LEMMA CookiesLast ==
  ASSUME Rows, Onwards, Cookies, cookie' = cookie
  PROVE  Cookies'
  BY Owning DEF Cookies

LEMMA OrderLasts ==
  ASSUME Rows, Onwards, NEW c \in Consoles, Order(c), order'[c] = order[c]
  PROVE  Order(c)'
  <1>1. Len(maker) \in Nat /\ Len(maker') \in Nat /\ Len(maker) <= Len(maker')
    BY DEF Rows, Onwards
  <1> QED  BY <1>1 DEF Order

LEMMA ConsoleLasts ==
  ASSUME Rows, Onwards, NEW c \in Consoles, Drawn(c), console'[c] = console[c]
  PROVE  Drawn(c)'
  <1>1. Len(maker) \in Nat /\ Len(maker') \in Nat /\ Len(maker) <= Len(maker')
    BY DEF Rows, Onwards
  <1> QED  BY <1>1 DEF Drawn

LEMMA Unmoved ==
  ASSUME Rows, Keys, UNCHANGED <<sessions, opened, maker, gone>>
  PROVE  Onwards
  BY DEF Rows, Keys, Onwards

LEMMA KeysLast ==
  ASSUME Keys, UNCHANGED <<sessions, adminSessions, opened>>
  PROVE  Keys'
  BY DEF Keys

LEMMA RowsLast ==
  ASSUME Rows, UNCHANGED <<accounts, opened, maker, gone>>
  PROVE  Rows'
  BY DEF Rows

\* What becomes of a request in a step of its route.
LEMMA Going ==
  ASSUME DOMAIN request = Tabs, NEW t \in Tabs, Pending \subseteq DOMAIN request[t],
         NEW at, Goes(t, at)
  PROVE  /\ DOMAIN request' = Tabs /\ \A u \in Tabs \ {t} : request'[u] = request[u]
         /\ Pending \subseteq DOMAIN request'[t] /\ request'[t].at = at
         /\ request'[t].before = request[t].before /\ request'[t].sid = request[t].sid
         /\ request'[t].does = request[t].does /\ request'[t].form = request[t].form
         /\ request'[t].account = request[t].account
  BY DEF Goes, Pending

LEMMA Answering ==
  ASSUME DOMAIN request = Tabs, NEW t \in Tabs, Pending \subseteq DOMAIN request[t],
         NEW answer, NEW shown, NEW change, Answers(t, answer, shown, change)
  PROVE  /\ DOMAIN request' = Tabs /\ \A u \in Tabs \ {t} : request'[u] = request[u]
         /\ Settled \subseteq DOMAIN request'[t] /\ request'[t].at = "answered"
         /\ request'[t].before = request[t].before /\ request'[t].does = request[t].does
         /\ request'[t].shown = shown /\ request'[t].change = change
  BY DEF Answers, Pending, Settled

-----------------------------------------------------------------------------
(* The routes.                                                             *)

\* A request that was served one more step, whichever.
Serving(t) ==
    /\ DOMAIN request' = Tabs /\ \A u \in Tabs \ {t} : request'[u] = request[u]
    /\ Asked(t)' /\ Answered(t)'

LEMMA InProgress ==
  ASSUME AccountsInv, NEW t \in Tabs, NEW does, NEW at, "nothing" \notin does, at # "answered", At(t, does, at)
  PROVE  /\ request[t] # Free /\ request[t].at = at /\ request[t].does \in does
         /\ Pending \subseteq DOMAIN request[t] /\ DOMAIN request = Tabs
         /\ request[t].before \subseteq gone /\ gone \subseteq 1 .. Len(maker) /\ Len(maker) \in Nat
         /\ None \notin request[t].before
  <1>1. request[t] # Free
    BY DEF At, Free
  <1>2. Asked(t) /\ Rows /\ DOMAIN request = Tabs
    BY DEF AccountsInv, Requests
  <1>3. Len(maker) \in Nat
    BY <1>2 DEF Rows
  <1> QED  BY <1>1, <1>2, <1>3 DEF At, Asked, Rows, None

LEMMA Refusing ==
  ASSUME AccountsInv, Onwards, NEW t \in Tabs, request[t] # Free, request[t].at # "answered",
         NEW answer, Refuses(t, answer)
  PROVE  Serving(t)
  <1>1. Rows /\ DOMAIN request = Tabs /\ Asked(t)
    BY DEF AccountsInv, Requests
  <1>2. /\ Pending \subseteq DOMAIN request[t] /\ request[t].before \subseteq gone
        /\ gone \subseteq gone' /\ gone \subseteq 1 .. Len(maker) /\ Len(maker) \in Nat
    BY <1>1 DEF Asked, Onwards, Rows
  <1>3. /\ DOMAIN request' = Tabs /\ \A u \in Tabs \ {t} : request'[u] = request[u]
        /\ Settled \subseteq DOMAIN request'[t] /\ request'[t].at = "answered"
        /\ request'[t].before = request[t].before
        /\ request'[t].shown = None /\ request'[t].change = Keep
    BY <1>1, <1>2, Answering DEF Refuses
  <1>4. None \notin request[t].before
    BY <1>2 DEF None
  <1>5. Asked(t)'
    BY <1>3 DEF Asked
  <1>6. Answered(t)'
    BY <1>2, <1>3, <1>4 DEF Answered
  <1> QED  BY <1>3, <1>5, <1>6 DEF Serving

LEMMA GoingOn ==
  ASSUME AccountsInv, Onwards, NEW t \in Tabs, request[t] # Free, request[t].at # "answered",
         NEW at, at \notin {"answered", "reset", "open", "touch", "row"}, Goes(t, at)
  PROVE  Serving(t)
  <1>1. Rows /\ DOMAIN request = Tabs /\ Asked(t) /\ Pending \subseteq DOMAIN request[t]
    BY DEF AccountsInv, Requests, Asked
  <1>2. /\ DOMAIN request' = Tabs /\ \A u \in Tabs \ {t} : request'[u] = request[u]
        /\ Pending \subseteq DOMAIN request'[t] /\ request'[t].at = at
        /\ request'[t].before = request[t].before /\ request'[t].sid = request[t].sid
        /\ request'[t].does = request[t].does /\ request'[t].form = request[t].form
        /\ request'[t].account = request[t].account
    BY <1>1, Going
  <1>3. Len(maker) \in Nat /\ Len(maker') \in Nat /\ Len(maker) <= Len(maker') /\ gone \subseteq gone'
    BY <1>1 DEF Rows, Onwards
  <1>4. Asked(t)'
    BY <1>1, <1>2, <1>3, Owning DEF Asked
  <1>5. Answered(t)'
    BY <1>2 DEF Answered
  <1> QED  BY <1>2, <1>4, <1>5 DEF Serving

\* The same for a step that also notes the counter it is about.
LEMMA NotesKey ==
  ASSUME AccountsInv, Onwards, NEW t \in Tabs, request[t] # Free, request[t].at # "answered",
         NEW at, at \notin {"answered", "reset", "open", "touch", "row"}, NEW key,
         request' = [request EXCEPT ![t].at = at, ![t].key = key]
  PROVE  Serving(t)
  <1>1. Rows /\ DOMAIN request = Tabs /\ Asked(t) /\ Pending \subseteq DOMAIN request[t]
    BY DEF AccountsInv, Requests, Asked
  <1>2. /\ DOMAIN request' = Tabs /\ \A u \in Tabs \ {t} : request'[u] = request[u]
        /\ Pending \subseteq DOMAIN request'[t] /\ request'[t].at = at
        /\ request'[t].before = request[t].before /\ request'[t].sid = request[t].sid
        /\ request'[t].does = request[t].does /\ request'[t].form = request[t].form
        /\ request'[t].account = request[t].account
    BY <1>1 DEF Pending
  <1>3. Len(maker) \in Nat /\ Len(maker') \in Nat /\ Len(maker) <= Len(maker') /\ gone \subseteq gone'
    BY <1>1 DEF Rows, Onwards
  <1>4. Asked(t)'
    BY <1>1, <1>2, <1>3, Owning DEF Asked
  <1>5. Answered(t)'
    BY <1>2 DEF Answered
  <1> QED  BY <1>2, <1>4, <1>5 DEF Serving

LEMMA LimiterServes ==
  ASSUME AccountsInv, NEW t \in Tabs, UNCHANGED <<opened, maker, gone, accounts, sessions>>,
         CheckAddress(t) \/ Record(t) \/ Arm(t)
  PROVE  Serving(t) /\ Onwards
  <1>1. Onwards
    BY Unmoved DEF AccountsInv
  <1>2. request[t] # Free /\ request[t].at # "answered"
    <2>1. /\ At(t, {"login", "signup"}, "address") \/ At(t, {"login", "signup"}, "record")
              \/ At(t, {"login", "signup"}, "arm")
      BY DEF CheckAddress, Record, Arm
    <2> QED  BY <2>1, InProgress
  <1>3. \/ \E answer : Refuses(t, answer)
        \/ \E at \in {"resolve", "arm", "names"} : Goes(t, at)
        \/ \E key : request' = [request EXCEPT ![t].at = "record", ![t].key = key]
    BY DEF CheckAddress, Record, Arm, AfterRecord
  <1>4. CASE \E answer : Refuses(t, answer)
    BY <1>1, <1>2, <1>4, Refusing
  <1>5. CASE \E at \in {"resolve", "arm", "names"} : Goes(t, at)
    BY <1>1, <1>2, <1>5, GoingOn
  <1>6. CASE \E key : request' = [request EXCEPT ![t].at = "record", ![t].key = key]
    BY <1>1, <1>2, <1>6, NotesKey
  <1> QED  BY <1>1, <1>3, <1>4, <1>5, <1>6

\* Who is found by what they typed is there, and not deleted.
LEMMA FoundIsLive ==
  ASSUME Rows, NEW who \in Tags \cup People
  PROVE  Resolve(who) \in 0 .. Len(maker) /\ Resolve(who) \notin gone
  <1>1. Len(maker) \in Nat /\ gone \subseteq 1 .. Len(maker)
    BY DEF Rows
  <1>2. who \notin Tombstones
    BY AccountsAssumption DEF Tombstones
  <1>3. FindByEmail(who) \in 0 .. Len(maker) /\ FindByEmail(who) \notin gone
    <2> DEFINE ids == {id \in DOMAIN accounts : accounts[id].email = who}
    <2>1. ids \subseteq 1 .. Len(maker) /\ ids \cap gone = {}
      BY <1>2 DEF Rows
    <2>2. CASE ids = {}
      BY <1>1, <2>2 DEF FindByEmail, Found, None
    <2>3. CASE ids # {}
      BY <1>1, <2>1, <2>3 DEF FindByEmail, Found
    <2> QED  BY <2>2, <2>3
  <1>4. FindByGamerTag(who) \in 0 .. Len(maker) /\ FindByGamerTag(who) \notin gone
    <2> DEFINE ids == {id \in DOMAIN accounts : accounts[id].tag = who}
    <2>1. ids \subseteq 1 .. Len(maker) /\ ids \cap gone = {}
      BY <1>2 DEF Rows
    <2>2. CASE ids = {}
      BY <1>1, <2>2 DEF FindByGamerTag, Found, None
    <2>3. CASE ids # {}
      BY <1>1, <2>1, <2>3 DEF FindByGamerTag, Found
    <2> QED  BY <2>2, <2>3
  <1> QED  BY <1>3, <1>4 DEF Resolve

LEMMA BeginLoginServes ==
  ASSUME AccountsInv, NEW t \in Tabs, UNCHANGED <<opened, maker, gone, accounts, sessions>>, BeginLogin(t)
  PROVE  Serving(t) /\ Onwards
  <1>1. Onwards /\ Rows /\ Asked(t)
    BY Unmoved DEF AccountsInv, Requests
  <1>2. /\ request[t] # Free /\ request[t].at = "resolve" /\ request[t].does = "login"
        /\ Pending \subseteq DOMAIN request[t] /\ DOMAIN request = Tabs
        /\ request[t].before \subseteq gone
    BY InProgress DEF BeginLogin
  <1> DEFINE id == Resolve(request[t].form.who)
  <1>3. PICK key : request' = [request EXCEPT ![t].at = "lock", ![t].account = id, ![t].key = key]
    BY DEF BeginLogin
  <1>4. id \in 0 .. Len(maker) /\ id \notin gone
    BY <1>1, <1>2, FoundIsLive DEF Asked
  <1> HIDE DEF id
  <1>5. /\ DOMAIN request' = Tabs /\ \A u \in Tabs \ {t} : request'[u] = request[u]
        /\ Pending \subseteq DOMAIN request'[t] /\ request'[t].at = "lock"
        /\ request'[t].before = request[t].before /\ request'[t].sid = request[t].sid
        /\ request'[t].does = "login" /\ request'[t].form = request[t].form /\ request'[t].account = id
    BY <1>2, <1>3 DEF Pending
  <1>6. Asked(t)'
    BY <1>1, <1>2, <1>4, <1>5, Owning DEF Asked
  <1>7. Answered(t)'
    BY <1>5 DEF Answered
  <1> QED  BY <1>1, <1>5, <1>6, <1>7 DEF Serving

\* A step at which the account was held against what the route needs next.
LEMMA GoingFurther ==
  ASSUME AccountsInv, Onwards, NEW t \in Tabs, request[t] # Free, request[t].at # "answered",
         NEW at \in {"reset", "open", "row"}, Goes(t, at),
         at \in {"reset", "open"} /\ request[t].does \in {"login", "signup"} =>
            Owned(request[t].account, Me(t)) /\ request[t].account \notin request[t].before,
         at = "row" => Owned(request[t].account, Me(t)) /\ request[t].account # None
  PROVE  Serving(t)
  <1>1. Rows /\ DOMAIN request = Tabs /\ Asked(t) /\ Pending \subseteq DOMAIN request[t]
    BY DEF AccountsInv, Requests, Asked
  <1>2. /\ DOMAIN request' = Tabs /\ \A u \in Tabs \ {t} : request'[u] = request[u]
        /\ Pending \subseteq DOMAIN request'[t] /\ request'[t].at = at
        /\ request'[t].before = request[t].before /\ request'[t].sid = request[t].sid
        /\ request'[t].does = request[t].does /\ request'[t].form = request[t].form
        /\ request'[t].account = request[t].account
    BY <1>1, Going
  <1>3. Len(maker) \in Nat /\ Len(maker') \in Nat /\ Len(maker) <= Len(maker') /\ gone \subseteq gone'
    BY <1>1 DEF Rows, Onwards
  <1>4. Asked(t)'
    BY <1>1, <1>2, <1>3, Owning DEF Asked
  <1>5. Answered(t)'
    BY <1>2 DEF Answered
  <1> QED  BY <1>2, <1>4, <1>5 DEF Serving

LEMMA VerifyServes ==
  ASSUME AccountsInv, NEW t \in Tabs, UNCHANGED <<opened, maker, gone, accounts, sessions>>, Verify(t)
  PROVE  Serving(t) /\ Onwards
  <1>1. Onwards /\ Rows /\ Asked(t)
    BY Unmoved DEF AccountsInv, Requests
  <1>2. request[t] # Free /\ request[t].at = "lock" /\ request[t].does = "login"
    BY InProgress DEF Verify
  <1>3. \/ \E answer : Refuses(t, answer)
        \/ Goes(t, "record")
        \/ Verifies(t) /\ Goes(t, "reset")
    BY DEF Verify
  <1>4. CASE \E answer : Refuses(t, answer)
    BY <1>1, <1>2, <1>4, Refusing
  <1>5. CASE Goes(t, "record")
    BY <1>1, <1>2, <1>5, GoingOn
  <1>6. CASE Verifies(t) /\ Goes(t, "reset")
    <2>1. Owned(request[t].account, Me(t)) /\ request[t].account \notin request[t].before
      BY <1>1, <1>2, <1>6 DEF Asked, Verifies, Owned, None, Rows
    <2> QED  BY <1>1, <1>2, <1>6, <2>1, GoingFurther
  <1> QED  BY <1>1, <1>3, <1>4, <1>5, <1>6

LEMMA ResetServes ==
  ASSUME AccountsInv, NEW t \in Tabs, UNCHANGED <<opened, maker, gone, accounts, sessions>>, Reset(t)
  PROVE  Serving(t) /\ Onwards
  <1>1. Onwards /\ Asked(t)
    BY Unmoved DEF AccountsInv, Requests
  <1>2. request[t] # Free /\ request[t].at = "reset" /\ request[t].does = "login" /\ Goes(t, "open")
    BY InProgress DEF Reset
  <1>3. Owned(request[t].account, Me(t)) /\ request[t].account \notin request[t].before
    BY <1>1, <1>2 DEF Asked
  <1> QED  BY <1>1, <1>2, <1>3, GoingFurther

LEMMA CheckNamesServes ==
  ASSUME AccountsInv, NEW t \in Tabs, UNCHANGED <<opened, maker, gone, accounts, sessions>>, CheckNames(t)
  PROVE  Serving(t) /\ Onwards
  <1>1. Onwards
    BY Unmoved DEF AccountsInv
  <1>2. request[t] # Free /\ request[t].at # "answered"
    BY InProgress DEF CheckNames
  <1>3. Refuses(t, "error") \/ Goes(t, "create")
    BY DEF CheckNames
  <1> QED  BY <1>1, <1>2, <1>3, Refusing, GoingOn

LEMMA CreateAccountServes ==
  ASSUME AccountsInv, NEW t \in Tabs, UNCHANGED <<opened, gone, sessions, adminSessions>>, CreateAccount(t)
  PROVE  Serving(t) /\ Onwards /\ Rows' /\ Keys'
  <1>1. Rows /\ Keys /\ Asked(t) /\ Me(t) \in People
    BY AccountsAssumption DEF AccountsInv, Requests, Me, People
  <1>2. /\ request[t] # Free /\ request[t].at = "create" /\ request[t].does = "signup"
        /\ Pending \subseteq DOMAIN request[t] /\ DOMAIN request = Tabs
        /\ request[t].before \subseteq gone
    BY InProgress DEF CreateAccount
  <1>3. Keys'
    BY <1>1, KeysLast
  <1>4. CASE Refuses(t, "error") /\ UNCHANGED <<accounts, maker>>
    BY <1>1, <1>2, <1>3, <1>4, Refusing, Unmoved, RowsLast
  <1>5. CASE /\ Create(request[t].form) /\ maker' = Append(maker, Me(t))
             /\ request' = [request EXCEPT ![t].at = "open", ![t].account = Len(maker) + 1]
    <2>0. PICK n : n = Len(maker) + 1
      OBVIOUS
    <2>1. /\ maker' \in Seq(People) /\ Len(maker') = n /\ Len(maker) \in Nat /\ maker'[n] = Me(t)
          /\ \A a \in 1 .. Len(maker) : maker'[a] = maker[a]
      BY <1>1, <1>5, <2>0 DEF Rows
    <2>2. Onwards
      <3>1. \A id \in DOMAIN sessions' : id \in DOMAIN sessions /\ sessions'[id].account = sessions[id].account
        OBVIOUS
      <3> QED  BY <1>1, <2>0, <2>1, <3>1 DEF Onwards, Rows
    <2>3. /\ DOMAIN request' = Tabs /\ \A u \in Tabs \ {t} : request'[u] = request[u]
          /\ Pending \subseteq DOMAIN request'[t] /\ request'[t].at = "open"
          /\ request'[t].before = request[t].before /\ request'[t].sid = request[t].sid
          /\ request'[t].does = "signup" /\ request'[t].account = n
      BY <1>2, <1>5, <2>0 DEF Pending
    <2>4. n \notin gone
      BY <1>1, <2>0, <2>1 DEF Rows
    <2>5. PICK row : /\ {"email", "tag", "deleted"} \subseteq DOMAIN row
                     /\ accounts' = With(accounts, n, row)
      BY <1>5, <2>0 DEF Create
    <2>6. n \in 1 .. Len(maker')
      BY <2>0, <2>1
    <2>7. Owned(n, Me(t))'
      BY <2>1, <2>6 DEF Owned, Me
    <2>8. Asked(t)' /\ Answered(t)'
      <3>0. PICK sid : sid = request[t].sid
        OBVIOUS
      <3>1. Signs(sid, Me(t))' /\ sid \in 0 .. opened
        BY <1>1, <1>2, <2>2, <3>0, Owning DEF Asked, Me
      <3>2. Asked(t)'
        BY <1>2, <2>3, <2>4, <2>7, <3>0, <3>1 DEF Asked
      <3> QED  BY <2>3, <3>2 DEF Answered
    <2>9. Rows'
      <3>1. DOMAIN accounts' = DOMAIN accounts \cup {n}
        BY <2>5 DEF With
      <3>2. \A id \in DOMAIN accounts' : IF id = n THEN accounts'[id] = row ELSE accounts'[id] = accounts[id]
        BY <2>5 DEF With
      <3>3. 1 .. Len(maker) \subseteq 1 .. Len(maker')
        BY <2>0, <2>1
      <3> QED  BY <1>1, <2>1, <2>4, <2>5, <2>6, <3>1, <3>2, <3>3 DEF Rows
    <2> QED  BY <1>3, <2>2, <2>3, <2>8, <2>9 DEF Serving
  <1> QED  BY <1>4, <1>5 DEF CreateAccount

LEMMA OpensKeys ==
  ASSUME Rows, Keys, UNCHANGED <<accounts, maker, gone, adminSessions>>, NEW account, OpenSession(account)
  PROVE  /\ Onwards /\ Rows' /\ Keys' /\ opened' = opened + 1
         /\ sessions'[opened + 1].account = account
  <1>1. opened \in Nat /\ opened' = opened + 1 /\ opened + 1 \notin DOMAIN sessions
    BY DEF Rows, Keys, OpenSession
  <1>2. /\ DOMAIN sessions' = DOMAIN sessions \cup {opened + 1}
        /\ \A id \in DOMAIN sessions : sessions'[id] = sessions[id]
        /\ sessions'[opened + 1] = [account |-> account, left |-> SessionTtl]
    BY <1>1 DEF OpenSession, With
  <1>3. Onwards
    BY <1>1, <1>2 DEF Onwards, Rows
  <1>4. Keys'
    BY <1>1, <1>2 DEF Keys
  <1>5. Rows'
    BY <1>1 DEF Rows
  <1> QED  BY <1>1, <1>2, <1>3, <1>4, <1>5

LEMMA OpenServes ==
  ASSUME AccountsInv, NEW t \in Tabs, UNCHANGED adminSessions, Open(t) \/ OpenAnonymous(t)
  PROVE  Serving(t) /\ Onwards /\ Rows' /\ Keys'
  <1>1. Rows /\ Keys /\ Asked(t)
    BY DEF AccountsInv, Requests
  <1>2. /\ request[t] # Free /\ request[t].at = "open" /\ request[t].does \in {"login", "signup", "anonymous"}
        /\ Pending \subseteq DOMAIN request[t] /\ DOMAIN request = Tabs
        /\ request[t].before \subseteq gone /\ None \notin request[t].before
    <2>1. At(t, {"login", "signup"}, "open") \/ At(t, {"anonymous"}, "open")
      BY DEF Open, OpenAnonymous
    <2> QED  BY <2>1, InProgress
  <1>3. PICK account : /\ OpenSession(account) /\ Answers(t, "done", account, opened + 1)
                       /\ account = None \/ Owned(account, Me(t))
                       /\ account \notin request[t].before
    <2>1. CASE Open(t)
      <3>1. Owned(request[t].account, Me(t)) /\ request[t].account \notin request[t].before
        BY <1>1, <1>2, <2>1 DEF Asked, Open, At
      <3> QED  BY <2>1, <3>1 DEF Open, SignedInTo
    <2>2. CASE OpenAnonymous(t)
      BY <1>2, <2>2 DEF OpenAnonymous
    <2> QED  BY <2>1, <2>2
  <1>4. /\ Onwards /\ Rows' /\ Keys' /\ opened' = opened + 1 /\ opened \in Nat
        /\ sessions'[opened + 1].account = account
    <2>1. UNCHANGED <<accounts, maker, gone>>
      BY DEF Open, OpenAnonymous
    <2> QED  BY <1>1, <1>3, <2>1, OpensKeys DEF Rows
  <1>5. /\ DOMAIN request' = Tabs /\ \A u \in Tabs \ {t} : request'[u] = request[u]
        /\ Settled \subseteq DOMAIN request'[t] /\ request'[t].at = "answered"
        /\ request'[t].before = request[t].before
        /\ request'[t].shown = account /\ request'[t].change = opened + 1
    BY <1>2, <1>3, Answering
  <1>6. account = None \/ Owned(account, Me(t))'
    BY <1>1, <1>3, <1>4, Owning DEF Owned, Onwards, Me
  <1>7. PICK sid : sid = opened + 1
    OBVIOUS
  <1>8. Asked(t)' /\ Answered(t)'
    <2>1. gone \subseteq gone' /\ opened + 1 \in 0 .. opened'
      BY <1>4 DEF Onwards
    <2>2. Asked(t)'
      BY <1>5 DEF Asked
    <2>3. Signs(sid, Me(t))' /\ sid \in 0 .. opened' /\ request'[t].change = sid
      BY <1>4, <1>5, <1>6, <1>7, <2>1 DEF Signs
    <2>4. Answered(t)'
      BY <1>2, <1>3, <1>5, <1>6, <2>1, <2>3 DEF Answered
    <2> QED  BY <2>2, <2>4
  <1> QED  BY <1>4, <1>5, <1>8 DEF Serving

LEMMA ReadSessionServes ==
  ASSUME AccountsInv, NEW t \in Tabs, UNCHANGED <<opened, maker, gone, accounts, sessions>>, ReadSession(t)
  PROVE  Serving(t) /\ Onwards
  <1>1. Onwards /\ Rows /\ Keys /\ Asked(t)
    BY Unmoved DEF AccountsInv, Requests
  <1>2. /\ request[t] # Free /\ request[t].at = "read" /\ request[t].does \in {"me", "save", "delete"}
        /\ Pending \subseteq DOMAIN request[t] /\ DOMAIN request = Tabs
        /\ request[t].before \subseteq gone
    BY InProgress DEF ReadSession
  <1>3. CASE \E answer : Refuses(t, answer)
    BY <1>1, <1>2, <1>3, Refusing
  <1>4. CASE /\ request[t].sid \in DOMAIN sessions
             /\ request' = [request EXCEPT ![t].at = "touch", ![t].account = sessions[request[t].sid].account]
    <2>1. PICK a : a = sessions[request[t].sid].account
      OBVIOUS
    <2>2. a = None \/ Owned(a, Me(t))
      BY <1>1, <1>2, <1>4, <2>1 DEF Asked, Signs
    <2>3. /\ DOMAIN request' = Tabs /\ \A u \in Tabs \ {t} : request'[u] = request[u]
          /\ Pending \subseteq DOMAIN request'[t] /\ request'[t].at = "touch"
          /\ request'[t].before = request[t].before /\ request'[t].sid = request[t].sid
          /\ request'[t].does = request[t].does /\ request'[t].account = a
      BY <1>2, <1>4, <2>1 DEF Pending
    <2>4. a = None \/ Owned(a, Me(t))'
      BY <1>1, <2>2, Owning DEF Me
    <2>5. request[t].sid \in 0 .. opened' /\ request[t].before \subseteq gone'
      BY <1>1, <1>2, Owning DEF Asked, Onwards
    <2>6. PICK sid : sid = request[t].sid
      OBVIOUS
    <2>7. Signs(sid, Me(t))'
      BY <1>1, <1>2, <2>6, Owning DEF Asked, Me
    <2>8. Asked(t)'
      BY <1>2, <2>3, <2>4, <2>5, <2>6, <2>7 DEF Asked
    <2>9. Answered(t)'
      BY <2>3 DEF Answered
    <2> QED  BY <1>1, <2>3, <2>8, <2>9 DEF Serving
  <1> QED  BY <1>1, <1>3, <1>4 DEF ReadSession

LEMMA TouchSessionServes ==
  ASSUME AccountsInv, NEW t \in Tabs, UNCHANGED <<opened, maker, gone, accounts, adminSessions>>, TouchSession(t)
  PROVE  Serving(t) /\ Onwards /\ Rows' /\ Keys'
  <1>1. Rows /\ Keys /\ Asked(t)
    BY DEF AccountsInv, Requests
  <1>2. /\ request[t] # Free /\ request[t].at = "touch" /\ request[t].does \in {"me", "save", "delete"}
    BY InProgress DEF TouchSession
  <1>3. /\ DOMAIN sessions' = DOMAIN sessions
        /\ \A id \in DOMAIN sessions : /\ sessions'[id].account = sessions[id].account
                                       /\ {"account", "left"} \subseteq DOMAIN sessions'[id]
    BY <1>1 DEF TouchSession, Touch, Keys
  <1>4. Onwards
    BY <1>1, <1>3 DEF Onwards, Rows
  <1>5. Rows' /\ Keys'
    BY <1>1, <1>3, RowsLast DEF Keys
  <1>6. CASE \E answer : Refuses(t, answer)
    BY <1>2, <1>4, <1>5, <1>6, Refusing
  <1>7. CASE request[t].account # None /\ Goes(t, "row")
    <2>1. Owned(request[t].account, Me(t))
      BY <1>1, <1>2, <1>7 DEF Asked
    <2> QED  BY <1>2, <1>4, <1>5, <1>7, <2>1, GoingFurther
  <1> QED  BY <1>6, <1>7 DEF TouchSession

\* A row that its owner asked for, or asked to change or delete.
LEMMA RowIsOwned ==
  ASSUME AccountsInv, NEW t \in Tabs, NEW does, does \subseteq {"me", "save", "delete"}, At(t, does, "row")
  PROVE  /\ request[t] # Free /\ request[t].at = "row" /\ request[t].does \in does
         /\ Pending \subseteq DOMAIN request[t] /\ DOMAIN request = Tabs
         /\ request[t].before \subseteq gone /\ None \notin request[t].before
         /\ Owned(request[t].account, Me(t)) /\ request[t].account # None
  <1>1. /\ request[t] # Free /\ request[t].at = "row" /\ request[t].does \in does
        /\ Pending \subseteq DOMAIN request[t] /\ DOMAIN request = Tabs
        /\ request[t].before \subseteq gone /\ None \notin request[t].before
    BY InProgress
  <1>2. Asked(t)
    BY DEF AccountsInv, Requests
  <1> QED  BY <1>1, <1>2 DEF Asked

LEMMA AnswersShown ==
  ASSUME AccountsInv, Onwards, NEW t \in Tabs, request[t] # Free, request[t].at # "answered",
         NEW answer, NEW shown, Answers(t, answer, shown, Keep),
         shown = None \/ Owned(shown, Me(t)),
         request[t].does \in {"me", "login", "signup"} => shown \notin request[t].before
  PROVE  Serving(t)
  <1>1. Rows /\ DOMAIN request = Tabs /\ Asked(t)
    BY DEF AccountsInv, Requests
  <1>2. Pending \subseteq DOMAIN request[t] /\ request[t].before \subseteq gone /\ gone \subseteq gone'
    BY <1>1 DEF Asked, Onwards
  <1>3. /\ DOMAIN request' = Tabs /\ \A u \in Tabs \ {t} : request'[u] = request[u]
        /\ Settled \subseteq DOMAIN request'[t] /\ request'[t].at = "answered"
        /\ request'[t].before = request[t].before /\ request'[t].does = request[t].does
        /\ request'[t].shown = shown /\ request'[t].change = Keep
    BY <1>1, <1>2, Answering
  <1>4. shown = None \/ Owned(shown, Me(t))'
    BY <1>1, Owning DEF Me
  <1>5. Asked(t)'
    BY <1>3 DEF Asked
  <1>6. Answered(t)'
    BY <1>2, <1>3, <1>4 DEF Answered
  <1> QED  BY <1>3, <1>5, <1>6 DEF Serving

LEMMA LoadMeServes ==
  ASSUME AccountsInv, NEW t \in Tabs, UNCHANGED <<opened, maker, gone, accounts, sessions>>, LoadMe(t)
  PROVE  Serving(t) /\ Onwards
  <1>1. Onwards /\ Rows
    BY Unmoved DEF AccountsInv
  <1>2. /\ request[t] # Free /\ request[t].at = "row" /\ request[t].does = "me"
        /\ request[t].before \subseteq gone
        /\ Owned(request[t].account, Me(t)) /\ request[t].account # None
    BY RowIsOwned DEF LoadMe
  <1>3. CASE Goes(t, "revoke")
    BY <1>1, <1>2, <1>3, GoingOn
  <1>4. CASE FindById(request[t].account) # None /\ Answers(t, "none", FindById(request[t].account), Keep)
    <2>1. FindById(request[t].account) = request[t].account /\ request[t].account \notin gone
      BY <1>1, <1>4 DEF FindById, Rows
    <2> QED  BY <1>1, <1>2, <1>4, <2>1, AnswersShown
  <1> QED  BY <1>1, <1>3, <1>4 DEF LoadMe

LEMMA WriteProfileServes ==
  ASSUME AccountsInv, NEW t \in Tabs, UNCHANGED <<opened, maker, gone, sessions, adminSessions>>, WriteProfile(t)
  PROVE  Serving(t) /\ Onwards /\ Rows' /\ Keys'
  <1>1. Onwards /\ Rows /\ Keys'
    BY Unmoved, KeysLast DEF AccountsInv
  <1>2. /\ request[t] # Free /\ request[t].at = "row" /\ request[t].does = "save"
        /\ Owned(request[t].account, Me(t)) /\ request[t].account # None
    BY RowIsOwned DEF WriteProfile
  <1>3. CASE Refuses(t, "error") /\ UNCHANGED accounts
    BY <1>1, <1>2, <1>3, Refusing, RowsLast
  <1>4. CASE /\ ~Refused(request[t].account, request[t].form.value)
             /\ Update(request[t].account, request[t].form.value)
             /\ Answers(t, "saved", request[t].account, Keep)
    <2>1. /\ DOMAIN accounts' = DOMAIN accounts
          /\ \A id \in DOMAIN accounts :
               /\ {"email", "tag", "deleted"} \subseteq DOMAIN accounts'[id]
               /\ accounts'[id].deleted = accounts[id].deleted /\ accounts'[id].email = accounts[id].email
               /\ accounts'[id].tag = accounts[id].tag
      BY <1>1, <1>4 DEF Rows, Update, Refused
    <2>2. Rows'
      BY <1>1, <2>1 DEF Rows
    <2>3. Serving(t)
      BY <1>1, <1>2, <1>4, AnswersShown
    <2> QED  BY <1>1, <2>2, <2>3
  <1> QED  BY <1>3, <1>4 DEF WriteProfile

LEMMA EraseMeServes ==
  ASSUME AccountsInv, NEW t \in Tabs, UNCHANGED <<opened, maker, sessions, adminSessions>>, EraseMe(t)
  PROVE  Serving(t) /\ Onwards /\ Rows' /\ Keys'
  <1>1. Rows /\ Keys /\ Keys'
    BY KeysLast DEF AccountsInv
  <1>2. /\ request[t] # Free /\ request[t].at = "row" /\ request[t].does = "delete"
        /\ Owned(request[t].account, Me(t))
    BY RowIsOwned DEF EraseMe
  <1>3. SoftDelete(request[t].account) /\ gone' = gone \cup {request[t].account} /\ Goes(t, "revoke")
    BY DEF EraseMe
  <1>4. Onwards
    BY <1>1, <1>3 DEF Onwards, Rows, Keys
  <1>5. PICK n \in 1 .. Len(maker) : n = request[t].account
    BY <1>2 DEF Owned
  <1>6. /\ DOMAIN accounts' = DOMAIN accounts
        /\ \A id \in DOMAIN accounts : id # n => accounts'[id] = accounts[id]
    BY <1>3, <1>5 DEF SoftDelete
  <1>7. n \in DOMAIN accounts =>
           /\ {"email", "tag", "deleted"} \subseteq DOMAIN accounts'[n] /\ accounts'[n].deleted = TRUE
           /\ accounts'[n].email = <<"deleted", n>> /\ accounts'[n].tag = <<"deleted", n>>
    BY <1>1, <1>3, <1>5 DEF SoftDelete, Rows
  <1>8. <<"deleted", n>> \in Tombstones
    <2>1. n \in Nat
      BY <1>1, <1>5 DEF Rows
    <2> QED  BY <2>1 DEF Tombstones
  <1>9. Rows'
    BY <1>1, <1>3, <1>5, <1>6, <1>7, <1>8 DEF Rows
  <1> QED  BY <1>1, <1>2, <1>3, <1>4, <1>9, GoingOn

LEMMA RevokeSessionServes ==
  ASSUME AccountsInv, NEW t \in Tabs, UNCHANGED <<opened, maker, gone, accounts, adminSessions>>, RevokeSession(t)
  PROVE  Serving(t) /\ Onwards /\ Rows' /\ Keys'
  <1>1. Rows /\ Keys /\ Asked(t)
    BY DEF AccountsInv, Requests
  <1>2. /\ request[t] # Free /\ request[t].at = "revoke" /\ request[t].does \in {"me", "delete", "logout"}
        /\ Pending \subseteq DOMAIN request[t] /\ DOMAIN request = Tabs
        /\ request[t].before \subseteq gone /\ None \notin request[t].before
    BY InProgress DEF RevokeSession
  <1>3. DOMAIN sessions' \subseteq DOMAIN sessions /\ \A id \in DOMAIN sessions' : sessions'[id] = sessions[id]
    BY DEF RevokeSession, Revoke, Without
  <1>4. Onwards /\ Rows' /\ Keys'
    BY <1>1, <1>3, RowsLast DEF Onwards, Rows, Keys
  <1>5. PICK answer : Answers(t, answer, None, None)
    BY DEF RevokeSession
  <1>6. /\ DOMAIN request' = Tabs /\ \A u \in Tabs \ {t} : request'[u] = request[u]
        /\ Settled \subseteq DOMAIN request'[t] /\ request'[t].at = "answered"
        /\ request'[t].before = request[t].before
        /\ request'[t].shown = None /\ request'[t].change = None
    BY <1>2, <1>5, Answering
  <1>7. None \notin DOMAIN sessions' /\ None \in 0 .. opened' /\ gone \subseteq gone'
    BY <1>4 DEF Keys, None, Rows, Onwards
  <1>8. Asked(t)'
    BY <1>6 DEF Asked
  <1>9. Answered(t)'
    BY <1>2, <1>6, <1>7 DEF Answered, Signs
  <1> QED  BY <1>4, <1>6, <1>8, <1>9 DEF Serving

-----------------------------------------------------------------------------
(* The tabs.                                                               *)

\* A tab's step: the rows, the keys, the tab and its request are looked at; the
\* others last.
LEMMA TabMoves ==
  ASSUME AccountsInv, Onwards, Rows', Keys', NEW t \in Tabs, UNCHANGED <<cookie, order, console>>,
         Serving(t), DOMAIN tab' = Tabs, \A u \in Tabs \ {t} : tab'[u] = tab[u], Shown(t)'
  PROVE  AccountsInv'
  <1>1. Cookies'
    BY CookiesLast DEF AccountsInv
  <1>2. Requests'
    BY RequestLasts DEF AccountsInv, Requests, Serving
  <1>3. Screens'
    BY TabLasts DEF AccountsInv, Screens
  <1>4. Operators'
    BY OrderLasts, ConsoleLasts DEF AccountsInv, Operators
  <1> QED  BY <1>1, <1>2, <1>3, <1>4 DEF AccountsInv

LEMMA ServeKeeps ==
  ASSUME AccountsInv, NEW t \in Tabs, Serve(t), UNCHANGED consoleVars
  PROVE  AccountsInv'
  <1>1. UNCHANGED <<cookie, tab, order, console, adminSessions>>
    BY DEF Serve, consoleVars
  <1>2. Rows /\ Keys
    BY DEF AccountsInv
  <1>3. Serving(t) /\ Onwards /\ Rows' /\ Keys'
    <2>1. CASE CheckAddress(t) \/ Record(t) \/ Arm(t)
      <3>1. UNCHANGED <<opened, maker, gone, accounts, sessions>>
        BY <2>1 DEF CheckAddress, Record, Arm
      <3> QED  BY <1>1, <1>2, <2>1, <3>1, LimiterServes, RowsLast, KeysLast
    <2>2. CASE BeginLogin(t) \/ Verify(t) \/ Reset(t) \/ CheckNames(t) \/ ReadSession(t) \/ LoadMe(t)
      <3>1. UNCHANGED <<opened, maker, gone, accounts, sessions>>
        BY <2>2 DEF BeginLogin, Verify, Reset, CheckNames, ReadSession, LoadMe, store
      <3> QED  BY <1>1, <1>2, <2>2, <3>1, BeginLoginServes, VerifyServes, ResetServes, CheckNamesServes,
                  ReadSessionServes, LoadMeServes, RowsLast, KeysLast
    <2>3. CASE CreateAccount(t)
      BY <1>1, <2>3, CreateAccountServes DEF CreateAccount
    <2>4. CASE Open(t) \/ OpenAnonymous(t)
      BY <1>1, <2>4, OpenServes
    <2>5. CASE TouchSession(t)
      BY <1>1, <2>5, TouchSessionServes DEF TouchSession
    <2>6. CASE WriteProfile(t)
      BY <1>1, <2>6, WriteProfileServes DEF WriteProfile
    <2>7. CASE EraseMe(t)
      BY <1>1, <2>7, EraseMeServes DEF EraseMe
    <2>8. CASE RevokeSession(t)
      BY <1>1, <2>8, RevokeSessionServes DEF RevokeSession
    <2> QED  BY <2>1, <2>2, <2>3, <2>4, <2>5, <2>6, <2>7, <2>8 DEF Serve
  <1>4. Shown(t)' /\ DOMAIN tab' = Tabs
    BY <1>1, <1>2, <1>3, TabLasts DEF AccountsInv, Screens
  <1> QED  BY <1>1, <1>3, <1>4, TabMoves

LEMMA Starting ==
  ASSUME AccountsInv, Onwards, NEW t \in Tabs, NEW does, NEW at, NEW form, Start(t, does, at, form),
         does = "login" => form.who \in Tags \cup People,
         at \notin {"answered", "touch", "row"},
         at \in {"reset", "open"} => does \notin {"login", "signup"}
  PROVE  Serving(t)
  <1>1. Rows /\ Cookies /\ DOMAIN request = Tabs /\ Device[t] \in DOMAIN Owner
    BY AccountsAssumption DEF AccountsInv, Requests
  <1>2. PICK sid : sid = cookie[Device[t]]
    OBVIOUS
  <1>3. /\ DOMAIN request' = Tabs /\ \A u \in Tabs \ {t} : request'[u] = request[u]
        /\ Pending \subseteq DOMAIN request'[t] /\ request'[t].at = at
        /\ request'[t].before = gone /\ request'[t].sid = sid
        /\ request'[t].does = does /\ request'[t].form = form /\ request'[t].account = None
    BY <1>1, <1>2 DEF Start, Pending
  <1>4. sid \in 0 .. opened' /\ Signs(sid, Me(t))'
    <2>1. sid \in 0 .. opened /\ Signs(sid, Owner[Device[t]])
      BY <1>1, <1>2 DEF Cookies
    <2> QED  BY <1>1, <2>1, Owning DEF Me
  <1>5. gone \subseteq gone' /\ None \notin gone /\ None \in 0 .. Len(maker')
    BY <1>1 DEF Onwards, Rows, None
  <1>6. Asked(t)'
    BY <1>3, <1>4, <1>5 DEF Asked
  <1>7. Answered(t)'
    BY <1>3 DEF Answered
  <1> QED  BY <1>3, <1>6, <1>7 DEF Serving

LEMMA SubmitsKeeps ==
  ASSUME AccountsInv, NEW t \in Tabs, UNCHANGED consoleVars,
         NEW page, NEW does, NEW at, NEW form, Submits(t, page, does, at, form),
         page = "login" \/ does = "login" => form.who \in Tags \cup People,
         at \notin {"answered", "touch", "row"},
         at \in {"reset", "open"} => does \notin {"login", "signup"}
  PROVE  AccountsInv'
  <1>1. UNCHANGED <<cookie, order, console, adminSessions, accounts, sessions, opened, maker, gone>>
    BY DEF Submits, consoleVars, store, history
  <1>2. Rows /\ Keys /\ Shown(t) /\ DOMAIN tab = Tabs
    BY DEF AccountsInv, Screens
  <1>3. Onwards /\ Rows' /\ Keys'
    BY <1>1, <1>2, Unmoved, RowsLast, KeysLast
  <1>4. Serving(t)
    BY <1>3, Starting DEF Submits
  <1>5. /\ DOMAIN tab' = Tabs /\ \A u \in Tabs \ {t} : tab'[u] = tab[u]
        /\ {"page", "shown", "answer", "form"} \subseteq DOMAIN tab'[t]
        /\ tab'[t].page = page /\ tab'[t].form = form /\ tab'[t].shown \in {None, tab[t].shown}
    BY <1>2 DEF Submits
  <1>6. PICK s : s = tab[t].shown
    OBVIOUS
  <1>7. s = None \/ Owned(s, Me(t))'
    BY <1>2, <1>3, <1>6, Owning DEF Shown, Me
  <1>8. Shown(t)'
    BY <1>5, <1>6, <1>7 DEF Shown
  <1> QED  BY <1>1, <1>3, <1>4, <1>5, <1>8, TabMoves

LEMMA AskKeeps ==
  ASSUME AccountsInv, NEW t \in Tabs, UNCHANGED consoleVars, Ask(t) \/ Retry(t)
  PROVE  AccountsInv'
  <1>1. Me(t) \in People
    BY AccountsAssumption DEF Me, People
  <1>2. CASE LogIn(t)
    <2>1. PICK who \in Tags \cup {Me(t)} : Submits(t, "login", "login", "address", [who |-> who])
      BY <1>2 DEF LogIn
    <2> QED  BY <1>1, <2>1, SubmitsKeeps
  <1>3. CASE SignUp(t)
    BY <1>3, SubmitsKeeps DEF SignUp
  <1>4. CASE JoinByCode(t)
    BY <1>4, SubmitsKeeps DEF JoinByCode
  <1>5. CASE OpenAccount(t) \/ LogOut(t) \/ Delete(t)
    BY <1>5, SubmitsKeeps DEF OpenAccount, LogOut, Delete
  <1>6. CASE SaveProfile(t)
    BY <1>6, SubmitsKeeps DEF SaveProfile
  <1>7. CASE AskDelete(t) \/ Retry(t)
    <2>1. UNCHANGED <<cookie, order, console, adminSessions, accounts, sessions, opened, maker, gone>>
      BY <1>7 DEF AskDelete, Retry, consoleVars, store, history
    <2>2. Rows /\ Keys /\ Shown(t) /\ DOMAIN tab = Tabs /\ Asked(t) /\ Answered(t) /\ DOMAIN request = Tabs
      BY DEF AccountsInv, Screens, Requests
    <2>3. Onwards /\ Rows' /\ Keys'
      BY <2>1, <2>2, Unmoved, RowsLast, KeysLast
    <2>4. CASE AskDelete(t)
      <3>1. Serving(t)
        BY <2>2, <2>3, <2>4, RequestLasts DEF AskDelete, Serving
      <3>2. /\ DOMAIN tab' = Tabs /\ \A u \in Tabs \ {t} : tab'[u] = tab[u]
            /\ {"page", "shown", "answer", "form"} \subseteq DOMAIN tab'[t]
            /\ tab'[t].page = tab[t].page /\ tab'[t].form = tab[t].form /\ tab'[t].shown = tab[t].shown
        BY <2>2, <2>4 DEF AskDelete, Shown
      <3>3. PICK s : s = tab[t].shown
        OBVIOUS
      <3>4. s = None \/ Owned(s, Me(t))'
        BY <2>2, <2>3, <3>3, Owning DEF Shown, Me
      <3>5. Shown(t)'
        BY <2>2, <3>2, <3>3, <3>4 DEF Shown
      <3> QED  BY <2>1, <2>3, <3>1, <3>2, <3>5, TabMoves
    <2>5. CASE Retry(t)
      <3>1. Start(t, tab[t].page, "address", tab[t].form) /\ tab' = tab
        BY <2>5 DEF Retry
      <3>2. PICK page, form : page = tab[t].page /\ form = tab[t].form
        OBVIOUS
      <3>3. Start(t, page, "address", form) /\ (page = "login" => form.who \in Tags \cup People)
        BY <2>2, <3>1, <3>2 DEF Shown
      <3>4. Serving(t)
        BY <2>3, <3>3, Starting
      <3>5. Shown(t)'
        BY <2>2, <2>3, <3>1, TabLasts
      <3> QED  BY <2>1, <2>2, <2>3, <3>1, <3>4, <3>5, TabMoves
    <2> QED  BY <1>7, <2>4, <2>5
  <1> QED  BY <1>2, <1>3, <1>4, <1>5, <1>6, <1>7 DEF Ask

LEMMA ShowsKeeps ==
  ASSUME Rows, Onwards, Screens, NEW t \in Tabs, NEW answer, NEW shown, Shows(t, answer, shown),
         shown = None \/ Owned(shown, Me(t))
  PROVE  DOMAIN tab' = Tabs /\ (\A u \in Tabs \ {t} : tab'[u] = tab[u]) /\ Shown(t)'
  <1>1. DOMAIN tab = Tabs /\ Shown(t)
    BY DEF Screens
  <1>2. DOMAIN tab' = Tabs /\ \A u \in Tabs \ {t} : tab'[u] = tab[u]
    BY <1>1 DEF Shows
  <1>3. PICK s : s = IF tab[t].shown # None /\ answer = "error" THEN tab[t].shown ELSE shown
    OBVIOUS
  <1>4. s = None \/ Owned(s, Me(t))'
    BY <1>1, <1>3, Owning DEF Shown, Me
  <1>5. CASE answer = "home"
    <2>1. tab'[t] = Blank
      BY <1>1, <1>5 DEF Shows
    <2> QED  BY <1>2, <2>1 DEF Shown, Blank, None
  <1>6. CASE answer # "home"
    <2>1. /\ {"page", "shown", "answer", "form"} \subseteq DOMAIN tab'[t]
          /\ tab'[t].page = tab[t].page /\ tab'[t].form = tab[t].form /\ tab'[t].shown = s
      BY <1>1, <1>3, <1>6 DEF Shows, Shown
    <2> QED  BY <1>1, <1>2, <1>4, <2>1 DEF Shown
  <1> QED  BY <1>5, <1>6

LEMMA Freed ==
  ASSUME DOMAIN request = Tabs, NEW t \in Tabs, request' = [request EXCEPT ![t] = Free]
  PROVE  Serving(t)
  <1>1. request'[t] = Free
    OBVIOUS
  <1>2. Asked(t)' /\ Answered(t)'
    BY <1>1 DEF Asked, Answered
  <1> QED  BY <1>2 DEF Serving

LEMMA DeliverKeeps ==
  ASSUME AccountsInv, NEW t \in Tabs, Deliver(t), UNCHANGED consoleVars
  PROVE  AccountsInv'
  <1>1. UNCHANGED <<order, console, adminSessions, accounts, sessions, opened, maker, gone>>
    BY DEF Deliver, consoleVars, store, history
  <1>2. Rows /\ Keys /\ Cookies /\ Screens /\ DOMAIN request = Tabs /\ Answered(t)
    BY DEF AccountsInv, Requests
  <1>3. Onwards /\ Rows' /\ Keys'
    BY <1>1, <1>2, Unmoved, RowsLast, KeysLast
  <1>4. Serving(t)
    BY <1>2, Freed DEF Deliver
  <1>5. /\ request[t].shown = None \/ Owned(request[t].shown, Me(t))
        /\ request[t].change # Keep => request[t].change \in 0 .. opened /\ Signs(request[t].change, Me(t))
    BY <1>2 DEF Deliver, Answered
  <1>6. DOMAIN tab' = Tabs /\ (\A u \in Tabs \ {t} : tab'[u] = tab[u]) /\ Shown(t)'
    BY <1>2, <1>3, <1>5, ShowsKeeps DEF Deliver
  <1>7. PICK sid : sid = IF request[t].change = Keep THEN cookie[Device[t]] ELSE request[t].change
    OBVIOUS
  <1>8. Device[t] \in DOMAIN Owner /\ cookie' = [cookie EXCEPT ![Device[t]] = sid]
    BY <1>7, AccountsAssumption DEF Deliver
  <1>9. sid \in 0 .. opened' /\ Signs(sid, Me(t))'
    <2>1. sid \in 0 .. opened /\ Signs(sid, Me(t))
      BY <1>2, <1>5, <1>7, <1>8 DEF Cookies, Me
    <2> QED  BY <1>2, <1>3, <2>1, Owning DEF Me
  <1>10. Cookies'
    <2>1. DOMAIN cookie' = DOMAIN Owner
      BY <1>2, <1>8 DEF Cookies
    <2>2. ASSUME NEW d \in DOMAIN Owner PROVE cookie'[d] \in 0 .. opened' /\ Signs(cookie[d], Owner[d])'
      <3>1. PICK old : old = cookie[d]
        OBVIOUS
      <3>2. old \in 0 .. opened' /\ Signs(old, Owner[d])'
        BY <1>2, <1>3, <3>1, Owning DEF Cookies
      <3>3. CASE d = Device[t]
        BY <1>2, <1>8, <1>9, <3>3 DEF Cookies, Signs, Me
      <3>4. CASE d # Device[t]
        BY <1>2, <1>8, <3>1, <3>2, <3>4 DEF Cookies, Signs
      <3> QED  BY <3>3, <3>4
    <2> QED  BY <2>1, <2>2 DEF Cookies
  <1>11. Requests'
    BY <1>2, <1>3, <1>4, RequestLasts DEF AccountsInv, Requests, Serving
  <1>12. Screens'
    BY <1>2, <1>3, <1>6, TabLasts DEF AccountsInv, Screens
  <1>13. Operators'
    BY <1>1, <1>2, <1>3, OrderLasts, ConsoleLasts DEF AccountsInv, Operators
  <1> QED  BY <1>3, <1>10, <1>11, <1>12, <1>13 DEF AccountsInv

LEMMA LoseKeeps ==
  ASSUME AccountsInv, NEW t \in Tabs, Lose(t), UNCHANGED consoleVars
  PROVE  AccountsInv'
  <1>1. UNCHANGED <<cookie, order, console, adminSessions, accounts, sessions, opened, maker, gone>>
    BY DEF Lose, consoleVars, store
  <1>2. Rows /\ Keys /\ Screens /\ DOMAIN request = Tabs
    BY DEF AccountsInv, Requests
  <1>3. Onwards /\ Rows' /\ Keys'
    BY <1>1, <1>2, Unmoved, RowsLast, KeysLast
  <1>4. Serving(t)
    BY <1>2, Freed DEF Lose
  <1>5. DOMAIN tab' = Tabs /\ (\A u \in Tabs \ {t} : tab'[u] = tab[u]) /\ Shown(t)'
    BY <1>2, <1>3, ShowsKeeps DEF Lose
  <1> QED  BY <1>1, <1>3, <1>4, <1>5, TabMoves

-----------------------------------------------------------------------------
(* The consoles.                                                           *)

\* A console's step: the tabs and their requests last.
LEMMA ConsoleMoves ==
  ASSUME AccountsInv, Onwards, Rows', Keys', NEW c \in Consoles, UNCHANGED <<cookie, tab, request>>,
         DOMAIN order' = Consoles, \A b \in Consoles \ {c} : order'[b] = order[b], Order(c)',
         DOMAIN console' = Consoles, \A b \in Consoles \ {c} : console'[b] = console[b], Drawn(c)'
  PROVE  AccountsInv'
  <1>1. Cookies'
    BY CookiesLast DEF AccountsInv
  <1>2. Requests'
    BY RequestLasts DEF AccountsInv, Requests
  <1>3. Screens'
    BY TabLasts DEF AccountsInv, Screens
  <1>4. Operators'
    BY OrderLasts, ConsoleLasts DEF AccountsInv, Operators
  <1> QED  BY <1>1, <1>2, <1>3, <1>4 DEF AccountsInv

LEMMA GivesKeeps ==
  ASSUME AccountsInv, NEW c \in Consoles, NEW duty, NEW at, NEW form, Gives(c, duty, at, form), at # "answered",
         duty \in {"user", "insider", "delete"} => form.id \in 1 .. Len(maker)
  PROVE  AccountsInv'
  <1>1. UNCHANGED <<cookie, tab, request, adminSessions, accounts, sessions, opened, maker, gone>>
    BY DEF Gives, vars, store, history
  <1>2. Rows /\ Keys /\ DOMAIN order = Consoles /\ DOMAIN console = Consoles /\ Drawn(c)
    BY DEF AccountsInv, Operators
  <1>3. Onwards /\ Rows' /\ Keys'
    BY <1>1, <1>2, Unmoved, RowsLast, KeysLast
  <1>4. /\ DOMAIN order' = Consoles /\ \A b \in Consoles \ {c} : order'[b] = order[b]
        /\ {"does", "at", "form"} \subseteq DOMAIN order'[c]
        /\ order'[c].at = at /\ order'[c].does = duty /\ order'[c].form = form
    BY <1>2 DEF Gives
  <1>5. Order(c)'
    BY <1>1, <1>4 DEF Order
  <1>6. /\ DOMAIN console' = Consoles /\ \A b \in Consoles \ {c} : console'[b] = console[b]
        /\ {"page", "user", "insider", "answer", "form"} \subseteq DOMAIN console'[c]
        /\ console'[c].page = console[c].page /\ console'[c].user = console[c].user
    BY <1>2 DEF Gives, Drawn
  <1>7. Drawn(c)'
    BY <1>1, <1>2, <1>6 DEF Drawn
  <1> QED  BY <1>1, <1>3, <1>4, <1>5, <1>6, <1>7, ConsoleMoves

LEMMA OperateKeeps ==
  ASSUME AccountsInv, NEW c \in Consoles, Operate(c)
  PROVE  AccountsInv'
  <1>1. Rows /\ Keys /\ DOMAIN order = Consoles /\ DOMAIN console = Consoles /\ Drawn(c) /\ Order(c)
    BY DEF AccountsInv, Operators
  <1>2. CASE AdminLogsIn(c) \/ OpensUser(c) \/ AddsAdmin(c) \/ AdminLogsOut(c)
    BY <1>2, GivesKeeps DEF AdminLogsIn, OpensUser, AddsAdmin, AdminLogsOut
  <1>3. CASE Toggles(c) \/ Purges(c)
    <2>1. console[c].user \in 1 .. Len(maker)
      BY <1>1, <1>3 DEF Toggles, Purges, Drawn
    <2>2. CASE Toggles(c)
      BY <2>1, <2>2, GivesKeeps DEF Toggles
    <2>3. CASE Purges(c)
      BY <2>1, <2>3, GivesKeeps DEF Purges
    <2> QED  BY <1>3, <2>2, <2>3
  <1>4. CASE AdminRetries(c) \/ Confirms(c) \/ Rotates(c)
    <2>1. UNCHANGED <<cookie, tab, request, adminSessions, accounts, sessions, opened, maker, gone>>
      BY <1>4 DEF AdminRetries, Confirms, Rotates, vars, store, history
    <2>2. Onwards /\ Rows' /\ Keys'
      BY <1>1, <2>1, Unmoved, RowsLast, KeysLast
    <2>3. DOMAIN order' = Consoles /\ (\A b \in Consoles \ {c} : order'[b] = order[b]) /\ Order(c)'
      <3>1. CASE AdminRetries(c)
        <4>1. /\ DOMAIN order' = Consoles /\ \A b \in Consoles \ {c} : order'[b] = order[b]
              /\ {"does", "at", "form"} \subseteq DOMAIN order'[c]
              /\ order'[c].at = "check" /\ order'[c].does = "login"
          BY <1>1, <3>1 DEF AdminRetries
        <4> QED  BY <4>1 DEF Order
      <3>2. CASE order' = order
        BY <1>1, <2>2, <3>2, OrderLasts
      <3> QED  BY <1>4, <3>1, <3>2 DEF Confirms, Rotates
    <2>4. DOMAIN console' = Consoles /\ (\A b \in Consoles \ {c} : console'[b] = console[b]) /\ Drawn(c)'
      <3>1. CASE Confirms(c)
        <4>1. /\ DOMAIN console' = Consoles /\ \A b \in Consoles \ {c} : console'[b] = console[b]
              /\ {"page", "user", "insider", "answer", "form"} \subseteq DOMAIN console'[c]
              /\ console'[c].page = console[c].page /\ console'[c].user = console[c].user
          BY <1>1, <3>1 DEF Confirms, Drawn
        <4> QED  BY <1>1, <2>1, <4>1 DEF Drawn
      <3>2. CASE console' = console
        BY <1>1, <2>2, <3>2, ConsoleLasts
      <3> QED  BY <1>4, <3>1, <3>2 DEF AdminRetries, Rotates
    <2> QED  BY <2>1, <2>2, <2>3, <2>4, ConsoleMoves
  <1> QED  BY <1>2, <1>3, <1>4 DEF Operate

\* What becomes of an order in a step of its route.
Handling(c) ==
    /\ DOMAIN order' = Consoles /\ \A b \in Consoles \ {c} : order'[b] = order[b]
    /\ Order(c)'

LEMMA InHand ==
  ASSUME AccountsInv, NEW c \in Consoles, NEW does, NEW at, "nothing" \notin does, Due(c, does, at)
  PROVE  /\ order[c] # Free /\ order[c].at = at /\ order[c].does \in does
         /\ {"does", "at", "form"} \subseteq DOMAIN order[c] /\ DOMAIN order = Consoles
  BY DEF Due, Free, AccountsInv, Operators, Order

LEMMA Replying ==
  ASSUME AccountsInv, Onwards, NEW c \in Consoles, order[c] # Free, order[c].at # "answered",
         NEW answer, NEW change, Reply(c, answer, change),
         answer \in {"user", "insider"} => order[c].does = "user"
  PROVE  Handling(c)
  <1>1. DOMAIN order = Consoles /\ Order(c) /\ Rows
    BY DEF AccountsInv, Operators
  <1>2. /\ DOMAIN order' = Consoles /\ \A b \in Consoles \ {c} : order'[b] = order[b]
        /\ {"does", "at", "form"} \subseteq DOMAIN order'[c]
        /\ order'[c].at = "answered" /\ order'[c].answer = answer /\ order'[c].form = order[c].form
    BY <1>1 DEF Reply
  <1>3. Len(maker) \in Nat /\ Len(maker') \in Nat /\ Len(maker) <= Len(maker')
    BY <1>1 DEF Rows, Onwards
  <1>4. Order(c)'
    BY <1>1, <1>2, <1>3 DEF Order
  <1> QED  BY <1>2, <1>4 DEF Handling

LEMMA Turning ==
  ASSUME AccountsInv, Onwards, NEW c \in Consoles, order[c] # Free, order[c].at # "answered",
         NEW at, at # "answered",
         Turns(c, at) \/ \E admin : order' = [order EXCEPT ![c].at = at, ![c].admin = admin]
  PROVE  Handling(c)
  <1>1. DOMAIN order = Consoles /\ Order(c) /\ Rows
    BY DEF AccountsInv, Operators
  <1>2. /\ DOMAIN order' = Consoles /\ \A b \in Consoles \ {c} : order'[b] = order[b]
        /\ {"does", "at", "form"} \subseteq DOMAIN order'[c]
        /\ order'[c].at = at /\ order'[c].does = order[c].does /\ order'[c].form = order[c].form
    BY <1>1 DEF Turns, Order
  <1>3. Len(maker) \in Nat /\ Len(maker') \in Nat /\ Len(maker) <= Len(maker')
    BY <1>1 DEF Rows, Onwards
  <1>4. Order(c)'
    BY <1>1, <1>2, <1>3 DEF Order
  <1> QED  BY <1>2, <1>4 DEF Handling

\* The login, which opens a session of an admin; the gate, which prolongs one.
LEMMA AdminServes ==
  ASSUME AccountsInv, NEW c \in Consoles,
         \/ CheckAdmin(c) \/ VerifyAdmin(c) \/ RecordAdmin(c) \/ ArmAdmin(c) \/ ResetAdmin(c)
         \/ ReadAdmin(c) \/ TouchAdmin(c) \/ CreateAdmin(c) \/ RevokeAdmin(c) \/ ViewUser(c)
  PROVE  Handling(c) /\ Onwards /\ Rows' /\ Keys'
  <1>1. Rows /\ Keys
    BY DEF AccountsInv
  <1>2. UNCHANGED <<opened, maker, gone, accounts, sessions>> /\ DOMAIN adminSessions' \subseteq DOMAIN adminSessions
    BY DEF CheckAdmin, VerifyAdmin, RecordAdmin, ArmAdmin, ResetAdmin, ReadAdmin, TouchAdmin, CreateAdmin,
           RevokeAdmin, ViewUser, store, ProlongAdmin, Without
  <1>3. Onwards /\ Rows'
    BY <1>1, <1>2, Unmoved, RowsLast
  <1>4. Keys'
    BY <1>1, <1>2 DEF Keys
  <1>5. /\ order[c] # Free /\ order[c].at # "answered"
        /\ ViewUser(c) => order[c].does = "user"
    <2>1. \/ Due(c, {"login"}, "check") \/ Due(c, {"login"}, "verify") \/ Due(c, {"login"}, "record")
          \/ Due(c, {"login"}, "arm") \/ Due(c, {"login"}, "reset") \/ Due(c, Gated, "read")
          \/ Due(c, Gated, "touch") \/ Due(c, {"admin"}, "act") \/ Due(c, {"logout"}, "revoke")
          \/ Due(c, {"user"}, "act")
      BY DEF CheckAdmin, VerifyAdmin, RecordAdmin, ArmAdmin, ResetAdmin, ReadAdmin, TouchAdmin, CreateAdmin,
             RevokeAdmin, ViewUser
    <2>2. order[c] # Free /\ order[c].at # "answered"
      BY <2>1 DEF Due, Free, Gated
    <2>3. ViewUser(c) => order[c].does = "user"
      BY DEF ViewUser, Due
    <2> QED  BY <2>2, <2>3
  <1>6. Handling(c)
    <2>1. CASE CheckAdmin(c) \/ VerifyAdmin(c) \/ RecordAdmin(c) \/ ArmAdmin(c) \/ ResetAdmin(c)
      BY <1>3, <1>5, <2>1, Turning, Replying DEF CheckAdmin, VerifyAdmin, RecordAdmin, ArmAdmin, ResetAdmin
    <2>2. CASE ReadAdmin(c) \/ TouchAdmin(c)
      BY <1>3, <1>5, <2>2, Turning, Replying DEF ReadAdmin, TouchAdmin
    <2>3. CASE CreateAdmin(c) \/ RevokeAdmin(c)
      BY <1>3, <1>5, <2>3, Replying DEF CreateAdmin, RevokeAdmin
    <2>4. CASE ViewUser(c)
      BY <1>3, <1>5, <2>4, Replying DEF ViewUser
    <2> QED  BY <2>1, <2>2, <2>3, <2>4
  <1> QED  BY <1>3, <1>4, <1>6

LEMMA OpenAdminServes ==
  ASSUME AccountsInv, NEW c \in Consoles, OpenAdmin(c)
  PROVE  Handling(c) /\ Onwards /\ Rows' /\ Keys'
  <1>1. Rows /\ Keys /\ opened \in Nat
    BY DEF AccountsInv, Rows
  <1>2. UNCHANGED <<maker, gone, accounts, sessions>> /\ opened' = opened + 1
    BY DEF OpenAdmin, store
  <1>3. Onwards
    BY <1>1, <1>2 DEF Onwards, Rows, Keys
  <1>4. Rows'
    BY <1>1, <1>2 DEF Rows
  <1>5. Keys'
    BY <1>1, <1>2 DEF Keys, OpenAdmin, With
  <1>6. order[c] # Free /\ order[c].at # "answered"
    BY DEF OpenAdmin, Due, Free
  <1>7. PICK change : Reply(c, "users", change)
    BY DEF OpenAdmin
  <1>8. Handling(c)
    BY <1>3, <1>6, <1>7, Replying
  <1> QED  BY <1>3, <1>4, <1>5, <1>8

LEMMA SetInsiderServes ==
  ASSUME AccountsInv, NEW c \in Consoles, SetInsider(c)
  PROVE  Handling(c) /\ Onwards /\ Rows' /\ Keys'
  <1>1. Rows /\ Keys
    BY DEF AccountsInv
  <1>2. UNCHANGED <<sessions, opened, maker, gone, adminSessions>>
    BY DEF SetInsider
  <1>3. Onwards /\ Keys'
    BY <1>1, <1>2, Unmoved, KeysLast
  <1>4. /\ DOMAIN accounts' = DOMAIN accounts
        /\ \A id \in DOMAIN accounts :
             /\ {"email", "tag", "deleted"} \subseteq DOMAIN accounts'[id]
             /\ accounts'[id].email = accounts[id].email /\ accounts'[id].tag = accounts[id].tag
             /\ accounts'[id].deleted = accounts[id].deleted
    <2>1. accounts' = accounts \/ \E id, v : accounts' = [accounts EXCEPT ![id].insider = v]
      BY DEF SetInsider
    <2> QED  BY <1>1, <2>1 DEF Rows
  <1>5. Rows'
    BY <1>1, <1>2, <1>4 DEF Rows
  <1>6. order[c] # Free /\ order[c].at # "answered"
    BY DEF SetInsider, Due, Free
  <1>7. Handling(c)
    BY <1>3, <1>6, Replying DEF SetInsider
  <1> QED  BY <1>3, <1>5, <1>7

LEMMA HardDeleteServes ==
  ASSUME AccountsInv, NEW c \in Consoles, HardDelete(c)
  PROVE  Handling(c) /\ Onwards /\ Rows' /\ Keys'
  <1>1. Rows /\ Keys
    BY DEF AccountsInv
  <1>2. UNCHANGED <<sessions, opened, maker, adminSessions>>
    BY DEF HardDelete
  <1>3. order[c] # Free /\ order[c].at = "act" /\ order[c].does = "delete"
    BY DEF HardDelete, Due, Free
  <1>4. PICK id : id = order[c].form.id
    OBVIOUS
  <1>5. id \in 1 .. Len(maker) /\ accounts' = Without(accounts, id) /\ gone' = gone \cup {id}
    BY <1>3, <1>4 DEF HardDelete, AccountsInv, Operators, Order
  <1>6. Onwards
    BY <1>1, <1>2, <1>5 DEF Onwards, Rows, Keys
  <1>7. Rows'
    <2>1. /\ DOMAIN accounts' = DOMAIN accounts \ {id}
          /\ \A i \in DOMAIN accounts' : accounts'[i] = accounts[i]
      BY <1>5 DEF Without
    <2> QED  BY <1>1, <1>2, <1>5, <2>1 DEF Rows
  <1>8. Keys'
    BY <1>1, <1>2, KeysLast
  <1>9. Handling(c)
    BY <1>3, <1>6, Replying DEF HardDelete
  <1> QED  BY <1>6, <1>7, <1>8, <1>9

LEMMA ServeConsoleKeeps ==
  ASSUME AccountsInv, NEW c \in Consoles, ServeConsole(c)
  PROVE  AccountsInv'
  <1>1. UNCHANGED <<cookie, tab, request, console>>
    BY DEF ServeConsole
  <1>2. Handling(c) /\ Onwards /\ Rows' /\ Keys'
    BY AdminServes, OpenAdminServes, SetInsiderServes, HardDeleteServes DEF ServeConsole
  <1>3. Rows /\ DOMAIN console = Consoles /\ Drawn(c)
    BY DEF AccountsInv, Operators
  <1>4. Drawn(c)' /\ DOMAIN console' = Consoles
    BY <1>1, <1>2, <1>3, ConsoleLasts
  <1> QED  BY <1>1, <1>2, <1>4, ConsoleMoves DEF Handling

Drawing(c) ==
    /\ DOMAIN console' = Consoles /\ \A b \in Consoles \ {c} : console'[b] = console[b]
    /\ Drawn(c)'

LEMMA DrawsKeeps ==
  ASSUME Rows, DOMAIN console = Consoles, NEW c \in Consoles, Drawn(c), UNCHANGED maker,
         NEW answer, Draws(c, answer),
         answer \in {"user", "insider"} => order[c].form.id \in 1 .. Len(maker)
  PROVE  Drawing(c)
  <1>1. /\ DOMAIN console' = Consoles /\ \A b \in Consoles \ {c} : console'[b] = console[b]
        /\ {"page", "user", "insider", "answer", "form"} \subseteq DOMAIN console'[c]
        /\ console'[c].page = "user" =>
              \/ answer \in {"user", "insider"} /\ console'[c].user = order[c].form.id
              \/ console[c].page = "user" /\ console'[c].user = console[c].user
    <2>1. CASE answer = "users"
      <3>1. console' = [console EXCEPT ![c] = UsersPage]
        BY <2>1 DEF Draws
      <3> QED  BY <3>1 DEF UsersPage, LoginPage
    <2>2. CASE answer \in {"user", "insider"}
      <3>1. console' = [console EXCEPT ![c] = [UsersPage EXCEPT !.page = "user", !.user = order[c].form.id,
                                                               !.insider = (answer = "insider")]]
        BY <2>2 DEF Draws
      <3> QED  BY <2>2, <3>1 DEF UsersPage, LoginPage
    <2>3. CASE answer = "set"
      <3>1. console' = [console EXCEPT ![c].answer = "none", ![c].insider = order[c].form.insider]
        BY <2>3 DEF Draws
      <3> QED  BY <3>1 DEF Drawn
    <2>4. CASE answer \notin {"users", "user", "insider", "set"}
      <3>1. console' = [console EXCEPT ![c].answer = answer]
        BY <2>4 DEF Draws
      <3> QED  BY <3>1 DEF Drawn
    <2> QED  BY <2>1, <2>2, <2>3, <2>4
  <1>2. Drawn(c)'
    BY <1>1 DEF Drawn
  <1> QED  BY <1>1, <1>2 DEF Drawing

LEMMA GoesToLoginKeeps ==
  ASSUME DOMAIN console = Consoles, NEW c \in Consoles, NEW sid, GoesToLogin(c, sid)
  PROVE  Drawing(c) /\ DOMAIN adminSessions' = DOMAIN adminSessions
  <1>1. DOMAIN adminSessions' = DOMAIN adminSessions
    BY DEF GoesToLogin, ProlongAdmin
  <1>2. PICK drawn \in {UsersPage, LoginPage} : console' = [console EXCEPT ![c] = drawn]
    BY DEF GoesToLogin
  <1>3. Drawn(c)'
    BY <1>2 DEF Drawn, UsersPage, LoginPage
  <1> QED  BY <1>1, <1>2, <1>3 DEF Drawing

LEMMA AnswerShown ==
  ASSUME AccountsInv, NEW c \in Consoles, DeliverOrder(c) \/ LoseOrder(c)
  PROVE  AccountsInv'
  <1>1. UNCHANGED <<cookie, tab, request, accounts, sessions, opened, maker, gone>>
    BY DEF DeliverOrder, LoseOrder, vars, store, history
  <1>2. Rows /\ Keys /\ DOMAIN order = Consoles /\ Order(c) /\ DOMAIN console = Consoles /\ Drawn(c)
    BY DEF AccountsInv, Operators
  <1>3. Onwards /\ Rows'
    BY <1>1, <1>2, Unmoved, RowsLast
  <1>4. order[c] # Free /\ order[c].at = "answered" /\ order' = [order EXCEPT ![c] = Free]
    BY DEF DeliverOrder, LoseOrder
  <1>5. Drawing(c) /\ DOMAIN adminSessions' = DOMAIN adminSessions
    <2>1. CASE \E sid : GoesToLogin(c, sid)
      BY <1>2, <2>1, GoesToLoginKeeps
    <2>2. CASE Draws(c, order[c].answer) /\ UNCHANGED adminSessions
      <3>1. order[c].answer \in {"user", "insider"} => order[c].form.id \in 1 .. Len(maker)
        BY <1>2, <1>4 DEF Order
      <3> QED  BY <1>1, <1>2, <2>2, <3>1, DrawsKeeps
    <2>3. CASE Draws(c, "error") /\ UNCHANGED adminSessions
      BY <1>1, <1>2, <2>3, DrawsKeeps
    <2> QED  BY <2>1, <2>2, <2>3 DEF DeliverOrder, LoseOrder
  <1>6. Keys'
    BY <1>1, <1>2, <1>5 DEF Keys
  <1>7. DOMAIN order' = Consoles /\ (\A b \in Consoles \ {c} : order'[b] = order[b]) /\ order'[c] = Free
    BY <1>2, <1>4
  <1>8. Order(c)'
    BY <1>7 DEF Order
  <1> QED  BY <1>1, <1>3, <1>5, <1>6, <1>7, <1>8, ConsoleMoves DEF Drawing

-----------------------------------------------------------------------------
(* A restart, and time.                                                    *)

LEMMA RebootKeeps ==
  ASSUME AccountsInv, Reboot
  PROVE  AccountsInv'
  <1>1. UNCHANGED <<cookie, adminSessions, accounts, sessions, opened, maker, gone>>
    BY DEF Reboot, Dies, store
  <1>2. Rows /\ Keys /\ Screens /\ Operators
    BY DEF AccountsInv
  <1>3. Onwards /\ Rows' /\ Keys'
    BY <1>1, <1>2, Unmoved, RowsLast, KeysLast
  <1>4. Cookies'
    BY <1>1, <1>3, CookiesLast DEF AccountsInv
  <1>5. Requests'
    <2>1. request' = [t \in Tabs |-> Free]
      BY DEF Reboot, Dies
    <2> QED  BY <2>1 DEF Requests, Asked, Answered
  <1>6. Screens'
    <2>1. DOMAIN tab' = Tabs
      BY DEF Reboot, Dies
    <2>2. ASSUME NEW t \in Tabs PROVE Shown(t)'
      <3>1. Shown(t)
        BY <1>2 DEF Screens
      <3>2. CASE tab'[t] = tab[t]
        BY <1>2, <1>3, <3>1, <3>2, TabLasts
      <3>3. CASE tab'[t] = Blank
        BY <3>3 DEF Shown, Blank, None
      <3>4. CASE tab'[t] = [tab[t] EXCEPT !.answer = "error"]
        <4>1. /\ {"page", "shown", "answer", "form"} \subseteq DOMAIN tab'[t]
              /\ tab'[t].page = tab[t].page /\ tab'[t].form = tab[t].form /\ tab'[t].shown = tab[t].shown
          BY <3>1, <3>4 DEF Shown
        <4>2. PICK s : s = tab[t].shown
          OBVIOUS
        <4>3. s = None \/ Owned(s, Me(t))'
          BY <1>2, <1>3, <3>1, <4>2, Owning DEF Shown, Me
        <4> QED  BY <3>1, <4>1, <4>2, <4>3 DEF Shown
      <3> QED  BY <3>2, <3>3, <3>4 DEF Reboot, Dies
    <2> QED  BY <2>1, <2>2 DEF Screens
  <1>7. Operators'
    <2>1. order' = [c \in Consoles |-> Free] /\ DOMAIN console' = Consoles
      BY DEF Reboot
    <2>2. ASSUME NEW c \in Consoles PROVE Order(c)' /\ Drawn(c)'
      <3>1. Drawn(c)
        BY <1>2 DEF Operators
      <3>2. Order(c)'
        BY <2>1 DEF Order
      <3>3. CASE console'[c] = console[c]
        BY <1>2, <1>3, <3>1, <3>2, <3>3, ConsoleLasts
      <3>4. CASE console'[c] = [console[c] EXCEPT !.answer = "error"]
        <4>1. /\ {"page", "user", "insider", "answer", "form"} \subseteq DOMAIN console'[c]
              /\ console'[c].page = console[c].page /\ console'[c].user = console[c].user
          BY <3>1, <3>4 DEF Drawn
        <4> QED  BY <1>1, <3>1, <3>2, <4>1 DEF Drawn
      <3> QED  BY <3>3, <3>4 DEF Reboot
    <2> QED  BY <2>1, <2>2 DEF Operators
  <1> QED  BY <1>3, <1>4, <1>5, <1>6, <1>7 DEF AccountsInv

LEMMA ClockKeeps ==
  ASSUME AccountsInv, Clock
  PROVE  AccountsInv'
  <1>1. UNCHANGED <<cookie, tab, request, order, console, accounts, opened, maker, gone>>
    BY DEF Clock, Tick, history
  <1>2. Rows /\ Keys
    BY DEF AccountsInv
  <1>3. /\ DOMAIN sessions' \subseteq DOMAIN sessions /\ DOMAIN adminSessions' \subseteq DOMAIN adminSessions
        /\ \A id \in DOMAIN sessions' : /\ sessions'[id].account = sessions[id].account
                                        /\ {"account", "left"} \subseteq DOMAIN sessions'[id]
    BY <1>2 DEF Clock, Tick, Keys
  <1>4. Onwards
    BY <1>1, <1>2, <1>3 DEF Onwards, Rows
  <1>5. Rows' /\ Keys'
    BY <1>1, <1>2, <1>3, RowsLast DEF Keys
  <1>6. Cookies'
    BY <1>1, <1>4, CookiesLast DEF AccountsInv
  <1>7. Requests'
    BY <1>1, <1>4, RequestLasts DEF AccountsInv, Requests
  <1>8. Screens'
    BY <1>1, <1>4, TabLasts DEF AccountsInv, Screens
  <1>9. Operators'
    BY <1>1, <1>4, OrderLasts, ConsoleLasts DEF AccountsInv, Operators
  <1> QED  BY <1>5, <1>6, <1>7, <1>8, <1>9 DEF AccountsInv

-----------------------------------------------------------------------------

LEMMA InitHolds ==
  ASSUME ConsoleInit
  PROVE  AccountsInv
  <1>1. /\ accounts = <<>> /\ sessions = <<>> /\ adminSessions = <<>> /\ opened = 0 /\ maker = <<>> /\ gone = {}
        /\ cookie = [d \in DOMAIN Owner |-> None]
        /\ tab = [t \in Tabs |-> Blank] /\ request = [t \in Tabs |-> Free]
        /\ console = [c \in Consoles |-> LoginPage] /\ order = [c \in Consoles |-> Free]
    BY DEF ConsoleInit, Init
  <1>2. Rows /\ Keys
    BY <1>1 DEF Rows, Keys
  <1>3. Cookies
    BY <1>1 DEF Cookies, Signs, None
  <1>4. Requests
    BY <1>1 DEF Requests, Asked, Answered
  <1>5. Screens
    BY <1>1 DEF Screens, Shown, Blank, None
  <1>6. Operators
    BY <1>1 DEF Operators, Order, Drawn, LoginPage
  <1> QED  BY <1>2, <1>3, <1>4, <1>5, <1>6 DEF AccountsInv

LEMMA NextKeeps ==
  ASSUME AccountsInv, [Next]_allVars
  PROVE  AccountsInv'
  <1>1. ASSUME NEW t \in Tabs, Player(Use(t)) PROVE AccountsInv'
    BY <1>1, AskKeeps, ServeKeeps, DeliverKeeps, LoseKeeps DEF Player, Use
  <1>2. ASSUME NEW c \in Consoles, Operate(c) \/ ServeConsole(c) \/ DeliverOrder(c) \/ LoseOrder(c) PROVE AccountsInv'
    BY <1>2, OperateKeeps, ServeConsoleKeeps, AnswerShown
  <1>3. CASE UNCHANGED allVars
    <2>1. UNCHANGED <<cookie, tab, request, order, console, accounts, sessions, adminSessions, opened, maker, gone>>
      BY <1>3 DEF allVars, vars, consoleVars, store, history
    <2>2. Onwards /\ Rows' /\ Keys'
      BY <2>1, Unmoved, RowsLast, KeysLast DEF AccountsInv
    <2>3. Cookies' /\ Requests' /\ Screens'
      BY <2>1, <2>2, CookiesLast, RequestLasts, TabLasts DEF AccountsInv, Requests, Screens
    <2>4. Operators'
      BY <2>1, <2>2, OrderLasts, ConsoleLasts DEF AccountsInv, Operators
    <2> QED  BY <2>2, <2>3, <2>4 DEF AccountsInv
  <1> QED  BY <1>1, <1>2, <1>3, RebootKeeps, ClockKeeps DEF Next

LEMMA AccountsInvHolds == Spec => []AccountsInv
  <1>1. ConsoleInit => AccountsInv
    BY InitHolds
  <1>2. AccountsInv /\ [Next]_allVars => AccountsInv'
    BY NextKeeps
  <1> QED  BY <1>1, <1>2, PTL DEF Spec

-----------------------------------------------------------------------------
(* The theorems.                                                           *)

\* auth.ts:138-159, service.ts:183-204: whatever happens to an account, or to its tag,
\* while a password is held against it, the browser that sent the password ends up
\* signed in to an account of its own user, and a tab shows none but its user's.
THEOREM SignedInToOwnAccount == Spec => []OwnAccount
  <1>1. AccountsInv => OwnAccount
    BY DEF AccountsInv, Cookies, Signs, Owned, Screens, Shown, OwnAccount
  <1> QED  BY <1>1, AccountsInvHolds, PTL

\* auth.ts:192-209, repository.ts:66-70: once an account is deleted, by its user or by
\* an operator, no page load or login that begins later is answered with it.
THEOREM DeletedStaysGone == Spec => []DeletedIsGone
  <1>1. AccountsInv => DeletedIsGone
    BY DEF AccountsInv, Requests, Answered, DeletedIsGone
  <1> QED  BY <1>1, AccountsInvHolds, PTL

\* A step gives a session to no id but the next.
LEMMA OnlyTheNextIsOpened ==
  ASSUME Next
  PROVE  /\ DOMAIN sessions' \subseteq DOMAIN sessions \cup {opened + 1}
         /\ DOMAIN adminSessions' \subseteq DOMAIN adminSessions \cup {opened + 1}
  <1>1. ASSUME NEW t \in Tabs, Player(Use(t)) PROVE DOMAIN sessions' \subseteq DOMAIN sessions \cup {opened + 1}
    <2>1. CASE Ask(t) \/ Retry(t) \/ Deliver(t) \/ Lose(t)
      BY <2>1 DEF Ask, LogIn, SignUp, JoinByCode, OpenAccount, SaveProfile, LogOut, AskDelete, Delete, Submits,
                  Retry, Deliver, Lose, store
    <2>2. CASE Serve(t)
      <3>1. CASE Open(t) \/ OpenAnonymous(t)
        BY <3>1 DEF Open, OpenAnonymous, OpenSession, With
      <3>2. CASE TouchSession(t) \/ RevokeSession(t)
        BY <3>2 DEF TouchSession, Touch, RevokeSession, Revoke, Without
      <3>3. CASE ~ (Open(t) \/ OpenAnonymous(t) \/ TouchSession(t) \/ RevokeSession(t))
        <4>1. UNCHANGED sessions
          BY <2>2, <3>3 DEF Serve, CheckAddress, BeginLogin, Verify, Record, Arm, Reset, CheckNames, CreateAccount,
                            ReadSession, LoadMe, WriteProfile, EraseMe, store
        <4> QED  BY <4>1
      <3> QED  BY <3>1, <3>2, <3>3
    <2> QED  BY <1>1, <2>1, <2>2 DEF Player, Use
  <1>2. ASSUME NEW c \in Consoles, Operate(c) \/ ServeConsole(c) \/ DeliverOrder(c) \/ LoseOrder(c)
        PROVE  /\ DOMAIN sessions' \subseteq DOMAIN sessions
               /\ DOMAIN adminSessions' \subseteq DOMAIN adminSessions \cup {opened + 1}
    <2>1. CASE Operate(c)
      <3>1. UNCHANGED <<sessions, adminSessions>>
        BY <2>1 DEF Operate, AdminLogsIn, AdminRetries, OpensUser, Toggles, Confirms, Purges, AddsAdmin, AdminLogsOut,
                    Rotates, Gives, vars, store
      <3> QED  BY <3>1
    <2>2. CASE ServeConsole(c)
      <3>1. UNCHANGED sessions
        BY <2>2 DEF ServeConsole, CheckAdmin, VerifyAdmin, RecordAdmin, ArmAdmin, ResetAdmin, OpenAdmin, ReadAdmin,
                    TouchAdmin, ViewUser, SetInsider, HardDelete, CreateAdmin, RevokeAdmin, store
      <3>2. DOMAIN adminSessions' \subseteq DOMAIN adminSessions \cup {opened + 1}
        <4>1. CASE OpenAdmin(c)
          BY <4>1 DEF OpenAdmin, With
        <4>2. CASE TouchAdmin(c) \/ RevokeAdmin(c)
          BY <4>2 DEF TouchAdmin, ProlongAdmin, RevokeAdmin, Without
        <4>3. CASE UNCHANGED adminSessions
          BY <4>3
        <4> QED  BY <2>2, <4>1, <4>2, <4>3 DEF ServeConsole, CheckAdmin, VerifyAdmin, RecordAdmin, ArmAdmin,
                    ResetAdmin, ReadAdmin, ViewUser, SetInsider, HardDelete, CreateAdmin
      <3> QED  BY <3>1, <3>2
    <2>3. CASE DeliverOrder(c) \/ LoseOrder(c)
      BY <2>3 DEF DeliverOrder, LoseOrder, GoesToLogin, ProlongAdmin, vars, store
    <2> QED  BY <1>2, <2>1, <2>2, <2>3
  <1>3. CASE Reboot
    BY <1>3 DEF Reboot, Dies, store
  <1>4. CASE Clock
    BY <1>4 DEF Clock, Tick
  <1>5. ASSUME NEW t \in Tabs, Player(Use(t)) PROVE UNCHANGED adminSessions
    BY <1>5 DEF Player, consoleVars
  <1> QED  BY <1>1, <1>2, <1>3, <1>4, <1>5 DEF Next

\* store.ts:68-94: a session of either kind that was revoked or has lapsed is never
\* there again, whatever request had read it before and is still to prolong it.
THEOREM EndedStaysEnded == Spec => EndedForGood
  <1>1. ASSUME AccountsInv, [Next]_allVars
        PROVE  [\A id \in 1 .. opened :
                  id \notin DOMAIN sessions \cup DOMAIN adminSessions =>
                      id \notin DOMAIN sessions' \cup DOMAIN adminSessions']_allVars
    <2>1. opened \in Nat
      BY <1>1 DEF AccountsInv, Rows
    <2> QED  BY <1>1, <2>1, OnlyTheNextIsOpened
  <1> QED  BY <1>1, AccountsInvHolds, PTL DEF Spec, EndedForGood
===============================================================================
