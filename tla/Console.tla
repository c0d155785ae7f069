------------------------------- MODULE Console -------------------------------
(***************************************************************************)
(* The admin console beside the accounts (control plane: routes/admin.ts   *)
(* over admin/; apps/admin).  Admins are rows of their own, which no route *)
(* removes or renames, so an email names one; their sessions are keys of   *)
(* their own, named by a cookie of the console's own host.  Every console  *)
(* is one browser.  The root admin comes from the environment, which a     *)
(* restart may change.                                                     *)
(***************************************************************************)
EXTENDS Accounts

CONSTANTS
    Consoles,           \* the operators' browsers
    Root, Emails,       \* the root admin's email; those an operator may type
    Passwords,          \* that are long enough
    FirstPassword,      \* the root's at the first boot
    AdminTtl,           \* of an admin session, in ticks
    Duties              \* bound: how often each console does what, in one behaviour

ASSUME ConsoleAssumption ==
    /\ Root \in Emails /\ FirstPassword \in Passwords /\ Bad \notin Emails \cup Passwords
    /\ AdminTtl \in Nat \ {0}

VARIABLES
    rootPassword,       \* ADMIN_ROOT_PASSWORD
    admins,             \* email -> its row
    adminSessions,      \* admin_session:<id>
    adminCookie,        \* each console's session id
    console,            \* what each console shows
    order,              \* the request of each console
    duties              \* what each console may still do in this one

consoleVars == <<rootPassword, admins, adminSessions, adminCookie, console, order, duties>>
allVars == <<vars, consoleVars>>

LoginPage == [page |-> "login", user |-> None, insider |-> FALSE, answer |-> "none", form |-> <<>>]
UsersPage == [LoginPage EXCEPT !.page = "users"]

\* ensureRootAdmin, at every boot: the environment is the truth about the password.
Seeded(rows, password) ==
    With(rows, Root, [password |-> password,
                      createdBy |-> IF Root \in DOMAIN rows THEN rows[Root].createdBy ELSE None])

ConsoleInit ==
    /\ Init
    /\ rootPassword = FirstPassword
    /\ admins = Seeded(<<>>, rootPassword)
    /\ adminSessions = <<>> /\ adminCookie = [c \in Consoles |-> None]
    /\ console = [c \in Consoles |-> LoginPage] /\ order = [c \in Consoles |-> Free]
    /\ duties = Duties[repertoire]

-----------------------------------------------------------------------------
(* The pages.                                                              *)

Gives(c, duty, at, form) ==
    /\ order[c] = Free /\ duties[c][duty] > 0
    /\ duties' = [duties EXCEPT ![c][duty] = @ - 1]
    /\ order' = [order EXCEPT ![c] = [does |-> duty, at |-> at, form |-> form, sid |-> adminCookie[c], admin |-> None]]
    /\ console' = [console EXCEPT ![c].answer = "none", ![c].form = form]
    /\ UNCHANGED <<vars, rootPassword, admins, adminSessions, adminCookie>>

AdminLogsIn(c) ==
    /\ console[c].page = "login"
    /\ \E email \in Emails, password \in Passwords :
         Gives(c, "login", "check", [email |-> email, password |-> password])

\* "Too many attempts. Try again later."
AdminRetries(c) ==
    /\ order[c] = Free /\ console[c].answer = "blocked"
    /\ order' = [order EXCEPT ![c] = [does |-> "login", at |-> "check", form |-> console[c].form,
                                     sid |-> adminCookie[c], admin |-> None]]
    /\ UNCHANGED <<vars, rootPassword, admins, adminSessions, adminCookie, console, duties>>

\* A page of the console is drawn once its session is read (me, and again by the list
\* or the row it shows); a player's page holds the toggle and the deletion.
OpensUser(c) ==
    /\ console[c].page # "login"
    /\ \E id \in 1 .. Len(maker) : Gives(c, "user", "read", [id |-> id])
Toggles(c) ==
    /\ console[c].page = "user"
    /\ Gives(c, "insider", "read", [id |-> console[c].user, insider |-> ~console[c].insider])
Confirms(c) ==
    /\ console[c].page = "user" /\ order[c] = Free /\ duties[c]["delete"] > 0 /\ console[c].answer # "sure?"
    /\ console' = [console EXCEPT ![c].answer = "sure?"]
    /\ UNCHANGED <<vars, rootPassword, admins, adminSessions, adminCookie, order, duties>>
Purges(c) ==
    /\ console[c].page = "user" /\ console[c].answer = "sure?"
    /\ Gives(c, "delete", "read", [id |-> console[c].user])
AddsAdmin(c) ==
    /\ console[c].page # "login"
    /\ \E email \in Emails \cup {Bad}, password \in Passwords \cup {Bad} :
         Gives(c, "admin", "read", [email |-> email, password |-> password])
AdminLogsOut(c) ==
    /\ console[c].page # "login"
    /\ Gives(c, "logout", "revoke", <<>>)

-----------------------------------------------------------------------------
(* The routes.                                                             *)

Due(c, does, at) == order[c].does \in does /\ order[c].at = at
Turns(c, at) == order' = [order EXCEPT ![c].at = at]
Reply(c, answer, change) ==
    order' = [order EXCEPT ![c] = [does |-> @.does, at |-> "answered", form |-> @.form,
                                   answer |-> answer, change |-> change]]

AdminKey(c) == <<"admin-login", order[c].form.email>>

CheckAdmin(c) ==
    /\ Due(c, {"login"}, "check")
    /\ Check(AdminKey(c), LoginMax)
    /\ IF Blocked(AdminKey(c), LoginMax) THEN Reply(c, "blocked", Keep) ELSE Turns(c, "verify")
    /\ UNCHANGED <<accounts, sessions, opened, maker, gone, admins, adminSessions>>

AdminVerifies(form) == form.email \in DOMAIN admins /\ admins[form.email].password = form.password
VerifyAdmin(c) ==
    /\ Due(c, {"login"}, "verify")
    /\ Turns(c, IF AdminVerifies(order[c].form) THEN "reset" ELSE "record")
    /\ UNCHANGED <<store, opened, maker, gone, admins, adminSessions>>

RecordAdmin(c) ==
    /\ Due(c, {"login"}, "record")
    /\ Incr(AdminKey(c))
    /\ IF Hits(AdminKey(c)) = 0 THEN Turns(c, "arm") ELSE Reply(c, "error", Keep)
    /\ UNCHANGED <<accounts, sessions, opened, maker, gone, admins, adminSessions>>
ArmAdmin(c) ==
    /\ Due(c, {"login"}, "arm")
    /\ Expire(AdminKey(c)) /\ Reply(c, "error", Keep)
    /\ UNCHANGED <<accounts, sessions, opened, maker, gone, admins, adminSessions>>
ResetAdmin(c) ==
    /\ Due(c, {"login"}, "reset")
    /\ counters' = Without(counters, AdminKey(c)) /\ Turns(c, "open")
    /\ UNCHANGED <<accounts, sessions, opened, maker, gone, admins, adminSessions>>
OpenAdmin(c) ==
    /\ Due(c, {"login"}, "open")
    /\ adminSessions' = With(adminSessions, opened + 1, [admin |-> order[c].form.email, left |-> AdminTtl])
    /\ opened' = opened + 1 /\ Reply(c, "users", opened + 1)
    /\ UNCHANGED <<store, maker, gone, admins>>

Gated == {"user", "insider", "delete", "admin"}

\* requireAdmin: the row of a session's admin is always there.
ReadAdmin(c) ==
    /\ Due(c, Gated, "read")
    /\ IF order[c].sid \in DOMAIN adminSessions
       THEN order' = [order EXCEPT ![c].at = "touch", ![c].admin = adminSessions[order[c].sid].admin]
       ELSE Reply(c, IF order[c].does = "user" THEN "login" ELSE "error", Keep)
    /\ UNCHANGED <<store, opened, maker, gone, admins, adminSessions>>

ProlongAdmin(sid) ==
    adminSessions' = IF sid \in DOMAIN adminSessions THEN [adminSessions EXCEPT ![sid].left = AdminTtl]
                     ELSE adminSessions
TouchAdmin(c) ==
    /\ Due(c, Gated, "touch")
    /\ ProlongAdmin(order[c].sid) /\ Turns(c, "act")
    /\ UNCHANGED <<store, opened, maker, gone, admins>>

\* The console sees deleted players too.
ViewUser(c) ==
    /\ Due(c, {"user"}, "act")
    /\ Reply(c, IF order[c].form.id \notin DOMAIN accounts THEN "users"
               ELSE IF accounts[order[c].form.id].insider THEN "insider" ELSE "user", Keep)
    /\ UNCHANGED <<store, opened, maker, gone, admins, adminSessions>>
SetInsider(c) ==
    /\ Due(c, {"insider"}, "act")
    /\ LET f == order[c].form
       IN IF f.id \notin DOMAIN accounts
          THEN Reply(c, "error", Keep) /\ UNCHANGED accounts
          ELSE accounts' = [accounts EXCEPT ![f.id].insider = f.insider] /\ Reply(c, "set", Keep)
    /\ UNCHANGED <<sessions, counters, opened, maker, gone, admins, adminSessions>>
HardDelete(c) ==
    /\ Due(c, {"delete"}, "act")
    /\ LET id == order[c].form.id
       IN /\ accounts' = Without(accounts, id) /\ gone' = gone \cup {id}
          /\ Reply(c, IF id \in DOMAIN accounts THEN "users" ELSE "error", Keep)
    /\ UNCHANGED <<sessions, counters, opened, maker, admins, adminSessions>>
CreateAdmin(c) ==
    /\ Due(c, {"admin"}, "act")
    /\ LET f == order[c].form
       IN IF Bad \in {f.email, f.password} \/ f.email \in DOMAIN admins
          THEN Reply(c, "error", Keep) /\ UNCHANGED admins
          ELSE /\ admins' = With(admins, f.email, [password |-> f.password, createdBy |-> order[c].admin])
               /\ Reply(c, "done", Keep)
    /\ UNCHANGED <<store, opened, maker, gone, adminSessions>>
RevokeAdmin(c) ==
    /\ Due(c, {"logout"}, "revoke")
    /\ adminSessions' = Without(adminSessions, order[c].sid)
    /\ Reply(c, "login", None)
    /\ UNCHANGED <<store, opened, maker, gone, admins>>

ServeConsole(c) ==
    /\ \/ CheckAdmin(c) \/ VerifyAdmin(c) \/ RecordAdmin(c) \/ ArmAdmin(c) \/ ResetAdmin(c) \/ OpenAdmin(c)
       \/ ReadAdmin(c) \/ TouchAdmin(c)
       \/ ViewUser(c) \/ SetInsider(c) \/ HardDelete(c) \/ CreateAdmin(c) \/ RevokeAdmin(c)
    /\ UNCHANGED <<cookie, tab, request, repertoire, faults, rootPassword, adminCookie, console, duties>>

-----------------------------------------------------------------------------
(* Answers, losses and time.                                               *)

\* The login page sends on whoever is still signed in.
GoesToLogin(c, sid) ==
    /\ console' = [console EXCEPT ![c] = IF sid \in DOMAIN adminSessions THEN UsersPage ELSE LoginPage]
    /\ ProlongAdmin(sid)

Draws(c, answer) ==
    CASE answer = "users" -> console' = [console EXCEPT ![c] = UsersPage]
      [] answer \in {"user", "insider"} ->
           console' = [console EXCEPT ![c] = [UsersPage EXCEPT !.page = "user", !.user = order[c].form.id,
                                                              !.insider = (answer = "insider")]]
      [] answer = "set" ->
           console' = [console EXCEPT ![c].answer = "none", ![c].insider = order[c].form.insider]
      [] OTHER -> console' = [console EXCEPT ![c].answer = answer]

DeliverOrder(c) ==
    /\ order[c] # Free /\ order[c].at = "answered"
    /\ LET sid == IF order[c].change = Keep THEN adminCookie[c] ELSE order[c].change
       IN /\ adminCookie' = [adminCookie EXCEPT ![c] = sid]
          /\ IF order[c].answer = "login" THEN GoesToLogin(c, sid)
             ELSE Draws(c, order[c].answer) /\ UNCHANGED adminSessions
    /\ order' = [order EXCEPT ![c] = Free]
    /\ UNCHANGED <<vars, rootPassword, admins, duties>>

\* Nothing heard: an error is shown; who was logging out goes to the login page.
LoseOrder(c) ==
    /\ order[c] # Free /\ order[c].at = "answered"
    /\ faults > 0 /\ faults' = faults - 1
    /\ IF order[c].does = "logout" THEN GoesToLogin(c, adminCookie[c])
       ELSE Draws(c, "error") /\ UNCHANGED adminSessions
    /\ order' = [order EXCEPT ![c] = Free]
    /\ UNCHANGED <<store, cookie, tab, request, repertoire, opened, maker, gone,
                   rootPassword, admins, adminCookie, duties>>

\* An operator with access to the host changes the environment of the next boot.
Rotates(c) ==
    /\ order[c] = Free /\ duties[c]["rotate"] > 0
    /\ duties' = [duties EXCEPT ![c]["rotate"] = @ - 1]
    /\ rootPassword' \in Passwords \ {rootPassword}
    /\ UNCHANGED <<vars, admins, adminSessions, adminCookie, console, order>>

Reboot ==
    /\ Dies
    /\ \/ \E t \in Tabs : request[t] # Free
       \/ \E c \in Consoles : order[c] # Free
       \/ admins # Seeded(admins, rootPassword)
    /\ admins' = Seeded(admins, rootPassword)
    /\ console' = [c \in Consoles |->
                     IF order[c] = Free THEN console[c] ELSE [console[c] EXCEPT !.answer = "error"]]
    /\ order' = [c \in Consoles |-> Free]
    /\ UNCHANGED <<rootPassword, adminSessions, adminCookie, duties>>

Clock ==
    /\ Tick
    /\ adminSessions' = [id \in {i \in DOMAIN adminSessions : adminSessions[i].left > 1} |->
                           [adminSessions[id] EXCEPT !.left = @ - 1]]
    /\ UNCHANGED <<rootPassword, admins, adminCookie, console, order, duties>>

Player(action) == action /\ UNCHANGED consoleVars

Operate(c) ==
    \/ AdminLogsIn(c) \/ AdminRetries(c) \/ OpensUser(c) \/ Toggles(c) \/ Confirms(c) \/ Purges(c)
    \/ AddsAdmin(c) \/ AdminLogsOut(c) \/ Rotates(c)

Next ==
    \/ \E t \in Tabs : Player(Use(t))
    \/ \E c \in Consoles : Operate(c) \/ ServeConsole(c) \/ DeliverOrder(c) \/ LoseOrder(c)
    \/ Reboot \/ Clock

Spec == ConsoleInit /\ [][Next]_allVars

\* Redis's clock runs; and while there is a request to serve, an answer to show or a
\* locked form to send again, one of these happens, none in particular.
Onward ==
    \/ \E t \in Tabs : Player(Serve(t) \/ Deliver(t) \/ Retry(t))
    \/ \E c \in Consoles : ServeConsole(c) \/ DeliverOrder(c) \/ AdminRetries(c)

FairSpec == Spec /\ WF_allVars(Clock) /\ WF_allVars(Onward)

-----------------------------------------------------------------------------
(* Properties.                                                             *)

\* auth.ts:138-159, service.ts:183-204: a browser is signed in to an account of the
\* person whose password it sent, though the account was deleted, and its tag taken by
\* somebody else, while the password was being held against it.
OwnAccount ==
    /\ \A d \in DOMAIN Owner :
         cookie[d] \in DOMAIN sessions /\ sessions[cookie[d]].account # None =>
             maker[sessions[cookie[d]].account] = Owner[d]
    /\ \A t \in Tabs : tab[t].shown # None => maker[tab[t].shown] = Me(t)

\* store.ts:68-94: a session that was revoked or has lapsed is not brought back by a
\* request that read it before.
EndedForGood == [][\A id \in 1 .. opened :
                        id \notin DOMAIN sessions \cup DOMAIN adminSessions =>
                            id \notin DOMAIN sessions' \cup DOMAIN adminSessions']_allVars

\* auth.ts:192-209, repository.ts:66-70: a page load or a login that begins after an
\* account was deleted is not answered with it, whatever sessions are left of it.
DeletedIsGone ==
    \A t \in Tabs :
        request[t] # Free /\ request[t].at = "answered" /\ request[t].does \in {"me", "login", "signup"} =>
            request[t].shown \notin request[t].before

\* limiter.ts:47-76: whoever is told to try again later is in the end heard, though the
\* control plane died between a counter's first hit and its window: a time comes when
\* nobody is locked out (attempts being finite in number).
LockedOut == (\E t \in Tabs : tab[t].answer = "blocked") \/ (\E c \in Consoles : console[c].answer = "blocked")
LocksOpen == LockedOut ~> ~LockedOut
===============================================================================
