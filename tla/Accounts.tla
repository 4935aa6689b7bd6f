------------------------------ MODULE Accounts ------------------------------
(***************************************************************************)
(* A broker account of the desk: its saved password (table users), its     *)
(* session row (table logged_in_users), the cached client of main.py, the  *)
(* background login, and the rotation of an expired password (utils/tms.py). *)
(*                                                                         *)
(* Everything here is kept per account, so the module has one.  The        *)
(* coroutines that log it in are flows: the background task, a page that   *)
(* reconciles the sessions, the login form, login-all, the order monitor,  *)
(* and a request of a shared client that renews its session.  They differ  *)
(* in the password they carry and in what they do at the end.              *)
(*                                                                         *)
(* Passwords are numbers, as the rotation numbers their tails: 1 is the    *)
(* broker's at the beginning, MaxPassword stands for the 999 of the code,  *)
(* and 0 means no account, or no cached client.  A session carries its     *)
(* password's expiry as it was at login: a "stale" one is past it.         *)
(***************************************************************************)
EXTENDS Integers, FiniteSets

CONSTANTS
  Flows,        \* slots for coroutines: the bound on how many overlap
  MaxPassword,  \* the last password of the rotation
  Typed,        \* the passwords a user types
  MaxFaults,    \* bound on lost answers and failed writes
  NoFlow

ASSUME ConstantsAssumption ==
  /\ NoFlow \notin Flows /\ MaxPassword \in Nat \ {0} /\ MaxFaults \in Nat
  /\ Typed \subseteq 1..MaxPassword

VARIABLES
  flow,        \* the coroutines
  registered,  \* tms_login_tasks
  saved,       \* the password of the users row
  row,         \* the logged_in_users row: status and stored session
  cached,      \* tms_user_cache: the password of the client in it
  backups,     \* passwords in tms_password_backups, all less than a day old
  rotating,    \* the holder of the rotation lock
  full,        \* the holder of the process-wide full-login lock
  broker,      \* the password the broker accepts
  due,         \* that password has expired
  faults,      \* lost answers and failed writes so far
  rotations,   \* passwords changed at the broker so far
  restarted,   \* no page has reconciled since the process started
  revived      \* none has since a page wrote the row of an account that was deleted

vars == <<flow, registered, saved, row, cached, backups, rotating, full,
          broker, due, faults, rotations, restarted, revived>>

Passwords == 1..MaxPassword
Kinds == {"none", "task", "page", "form", "all", "monitor", "request", "delete"}
Flow == [kind: Kinds, at: {"idle", "begin", "rotate", "change", "validate", "refresh",
                           "full", "login", "collateral", "ending"},
         stage: {"stored", "refreshed", "full"}, pw: 0..MaxPassword, n: 0..MaxPassword,
         expired: BOOLEAN]
Row == [status: {"none", "logging_in", "logged_in", "logged_out"},
        tokens: {"none", "fresh", "stale"}]

Idle == [kind |-> "none", at |-> "idle", stage |-> "stored", pw |-> 0, n |-> 0,
         expired |-> FALSE]
NoRow == [status |-> "none", tokens |-> "none"]
LoggedOut == [status |-> "logged_out", tokens |-> "none"]

Init ==
  /\ flow = [f \in Flows |-> Idle] /\ registered = NoFlow
  /\ saved \in 0..1 /\ cached = 0 /\ backups = {}
  /\ rotating = NoFlow /\ full = NoFlow
  /\ broker = 1 /\ due = TRUE
  /\ row \in {NoRow, LoggedOut} \cup
        [status: {"logged_in", "logging_in"}, tokens: {"stale"}]
  /\ saved = 0 => row = NoRow
  /\ faults = 0 /\ rotations = 0 /\ restarted = TRUE /\ revived = FALSE

-----------------------------------------------------------------------------
\* (Operators named Mutant... are faulty variants of the definition that follows them:
\* the properties at the end of the module tell the two apart.)
At(f, point) == flow[f].at = point
Kind(f) == flow[f].kind
HasTask == registered # NoFlow
Deleting == \E f \in Flows : Kind(f) = "delete"
Fault == faults < MaxFaults /\ faults' = faults + 1

\* The locks a coroutine leaves, and its place in tms_login_tasks, when it ends.
Release(f) ==
  /\ rotating' = IF rotating = f THEN NoFlow ELSE rotating
  /\ full' = IF full = f THEN NoFlow ELSE full
Unregister(f) == registered' = IF registered = f THEN NoFlow ELSE registered

Go(f, point) == flow' = [flow EXCEPT ![f].at = point]

\* _queue_tms_account_login, automatic: the page's slot becomes the task's.  The session
\* row is r so far.  After a failure there is a delay of one to fifteen minutes before the
\* next automatic login, which the model leaves open.
Queue(f, r, force) ==
  \/ /\ ~HasTask /\ (force \/ r.status # "logged_in")
     /\ row' = [r EXCEPT !.status = "logging_in"]
     /\ flow' = [flow EXCEPT ![f] = [Idle EXCEPT !.kind = "task", !.at = "begin"]]
     /\ registered' = f
  \/ row' = r /\ flow' = [flow EXCEPT ![f] = Idle] /\ UNCHANGED registered

\* The end of a page: every saved account is queued, then the rows are listed.
PageEnds(f, r, force) ==
  IF saved # 0 THEN Queue(f, r, force)
               ELSE row' = r /\ flow' = [flow EXCEPT ![f] = Idle] /\ UNCHANGED registered

-----------------------------------------------------------------------------
(* Where a login begins.                                                   *)

AfterSession(f, e) == IF e.expired THEN "rotate" ELSE "validate"

\* try_cached_login of a client with password p: the stored session first.
Enter(f, kind, p) ==
  LET e == [Idle EXCEPT !.kind = kind, !.pw = p,
                        !.expired = (row.tokens = "stale")]
  IN IF row.tokens # "none"
       THEN flow' = [flow EXCEPT ![f] = [e EXCEPT !.at = AfterSession(f, e)]]
       ELSE flow' = [flow EXCEPT ![f] = [e EXCEPT !.at = "full", !.stage = "full"]]

\* get_cached_tms_user: the cached client is used while it has the account's password
\* and is less than five minutes old (aged is the other case).
Hit(aged) == cached # 0 /\ cached = saved /\ ~aged

TaskStarts(f) ==
  /\ At(f, "begin")
  /\ IF saved = 0
       THEN flow' = [flow EXCEPT ![f] = Idle] /\ Unregister(f) /\ UNCHANGED cached
       ELSE Enter(f, "task", saved) /\ cached' = 0 /\ UNCHANGED registered
  /\ UNCHANGED <<saved, row, backups, rotating, full, broker, due, faults,
                 rotations, restarted, revived>>

\* POST /tms-accounts/{id}/login: a forced login that no failure delays.
LoginNow(f) ==
  /\ At(f, "idle") /\ saved # 0 /\ ~HasTask
  /\ row' = [row EXCEPT !.status = "logging_in"]
  /\ flow' = [flow EXCEPT ![f] = [Idle EXCEPT !.kind = "task", !.at = "begin"]]
  /\ registered' = f
  /\ UNCHANGED <<saved, cached, backups, rotating, full, broker, due, faults,
                 rotations, restarted, revived>>

MutantReconciled == row

\* The first half of _reconcile_logged_in_sessions.
Reconciled ==
  IF row.status = "logging_in" /\ ~HasTask THEN [row EXCEPT !.status = "logged_out"]
  ELSE IF row.status = "logged_in" /\ saved = 0 THEN LoggedOut ELSE row

\* GET /tms-accounts/ and GET /logged-in-clients/: a session that is logged in is tried
\* without a captcha.
Page(f) ==
  /\ At(f, "idle")
  /\ restarted' = FALSE /\ revived' = FALSE
  /\ \E aged \in BOOLEAN :
       IF Reconciled.status = "logged_in" /\ ~Hit(aged)
         THEN /\ cached' = 0
              /\ IF row.tokens # "none" THEN Enter(f, "page", saved)
                                           /\ UNCHANGED <<row, registered>>
                                        ELSE PageEnds(f, row, TRUE)
         ELSE PageEnds(f, Reconciled, FALSE) /\ UNCHANGED cached
  /\ UNCHANGED <<saved, backups, rotating, full, broker, due, faults, rotations>>

LoginAll(f) ==
  /\ At(f, "idle") /\ saved # 0
  /\ Enter(f, "all", saved) /\ cached' = 0
  /\ UNCHANGED <<registered, saved, row, backups, rotating, full, broker, due, faults,
                 rotations, restarted, revived>>

\* load_tms_users_instances: the order monitor builds its own client, for an account with
\* orders whether it is logged in or not.
MonitorLogin(f) ==
  /\ At(f, "idle") /\ saved # 0
  /\ Enter(f, "monitor", saved)
  /\ UNCHANGED <<registered, saved, row, cached, backups, rotating, full, broker, due,
                 faults, rotations, restarted, revived>>

\* POST /login/ with whatever password was typed.
Form(f) ==
  /\ At(f, "idle")
  /\ \E p \in Typed : Enter(f, "form", p)
  /\ UNCHANGED <<registered, saved, row, cached, backups, rotating, full, broker,
                 due, faults, rotations, restarted, revived>>

\* A 401 for a client that is in use: it renews its session with the password it has.
Request(f) ==
  /\ At(f, "idle") /\ cached # 0
  /\ \E e \in {due, row.tokens = "stale"} :
       flow' = [flow EXCEPT ![f] = [Idle EXCEPT !.kind = "request", !.at = "refresh",
                                                !.pw = cached, !.expired = e]]
  /\ UNCHANGED <<registered, saved, row, cached, backups, rotating, full, broker,
                 due, faults, rotations, restarted, revived>>

-----------------------------------------------------------------------------
(* How a login ends.                                                       *)

\* A page whose login failed queues the account it read before it waited.  If that account
\* is gone the row is written, and reading the account for the task then raises.
Revives(f) ==
  /\ saved = 0 /\ ~HasTask
  /\ row' = [row EXCEPT !.status = "logging_in"] /\ revived' = TRUE
  /\ flow' = [flow EXCEPT ![f] = Idle] /\ UNCHANGED registered

\* A login that failed: what the caller does with the exception.
Fails(f) ==
  /\ Release(f)
  /\ IF Kind(f) = "page"
       THEN Revives(f) \/ (PageEnds(f, row, TRUE) /\ UNCHANGED revived)
       ELSE /\ flow' = [flow EXCEPT ![f] = Idle] /\ Unregister(f) /\ UNCHANGED revived
            /\ row' = IF \/ Kind(f) \in {"task", "form"}
                         \/ Kind(f) = "request" /\ row # NoRow
                      THEN LoggedOut ELSE row

\* The full login, where allow_full_login is set: not for a page, and for a request as it
\* was for the last login of its client.
ToFull(f) ==
  \/ /\ Kind(f) # "page"
     /\ flow' = [flow EXCEPT ![f].at = "full", ![f].stage = "full"]
     /\ Release(f) /\ UNCHANGED <<row, registered, revived>>
  \/ Kind(f) \in {"page", "request"} /\ Fails(f)

\* An exception while the session of some stage is rotated or checked.
NextStage(f) ==
  CASE flow[f].stage = "stored"    -> /\ Go(f, "refresh") /\ Release(f)
                                      /\ UNCHANGED <<row, registered, revived>>
    [] flow[f].stage = "refreshed" -> ToFull(f)
    [] flow[f].stage = "full"      -> Fails(f)

Broken(f) ==
  /\ \/ At(f, "validate") /\ NextStage(f)
     \/ At(f, "refresh") /\ ToFull(f)         \* refused
     \/ At(f, "login") /\ Fails(f)
     \/ /\ At(f, "refresh")                   \* not answered
        /\ IF Kind(f) = "request"
             THEN /\ flow' = [flow EXCEPT ![f] = Idle] /\ Release(f)
                  /\ UNCHANGED <<row, registered, revived>>
             ELSE Fails(f)
  /\ UNCHANGED <<saved, cached, backups, broker, due, faults, rotations, restarted>>

Stored(r, f) == [status |-> "logged_in", tokens |-> IF flow[f].expired THEN "stale" ELSE "fresh"]

Refreshed(f) ==                               \* the tokens are stored before they are checked
  /\ At(f, "refresh")
  /\ row' = Stored(row, f)
  /\ flow' = [flow EXCEPT ![f].stage = "refreshed", ![f].at =
                IF Kind(f) = "request" THEN "validate" ELSE AfterSession(f, flow[f])]
  /\ UNCHANGED <<registered, saved, cached, backups, rotating, full, broker, due,
                 faults, rotations, restarted, revived>>

FullLogin(f) ==
  /\ At(f, "full") /\ full = NoFlow
  /\ full' = f
  /\ Go(f, "login")
  /\ UNCHANGED <<registered, saved, row, cached, backups, rotating, broker, due,
                 faults, rotations, restarted, revived>>

LoggedIn(f) ==
  /\ At(f, "login") /\ flow[f].pw = broker
  /\ flow' = [flow EXCEPT ![f].expired = due,
                          ![f].at = IF due THEN "rotate" ELSE "validate"]
  /\ UNCHANGED <<registered, saved, row, cached, backups, rotating, full, broker,
                 due, faults, rotations, restarted, revived>>

\* _persist_logged_in_session and what follows it.  Either write may fail, which is
\* printed and forgotten.
Validated(f) ==
  /\ At(f, "validate")
  /\ \/ row' = Stored(row, f) /\ saved' = flow[f].pw /\ UNCHANGED faults
     \/ Fault /\ row' = Stored(row, f) /\ UNCHANGED saved
     \/ Fault /\ UNCHANGED row /\ saved' = flow[f].pw
  /\ Release(f)
  /\ cached' = IF Kind(f) \in {"task", "page", "form", "all"} THEN flow[f].pw ELSE cached
  /\ flow' = [flow EXCEPT ![f] = CASE Kind(f) = "task" -> [@ EXCEPT !.at = "collateral"]
                                   [] Kind(f) = "page" -> [@ EXCEPT !.at = "ending"]
                                   [] OTHER            -> Idle]
  /\ UNCHANGED <<registered, backups, broker, due, rotations, restarted, revived>>

\* The rest of the page, in the slice that stored the session.
Listed(f) ==
  /\ Kind(f) = "page" /\ At(f, "ending")
  /\ PageEnds(f, row, FALSE)
  /\ UNCHANGED <<saved, cached, backups, rotating, full, broker, due, faults,
                 rotations, restarted, revived>>

\* _run_tms_account_login after the collateral, which may fail: nothing has been read
\* since the awaits, and a missing row is created.
TaskEnds(f) ==
  /\ At(f, "collateral")
  /\ row' = [row EXCEPT !.status = "logged_in"]
  /\ flow' = [flow EXCEPT ![f] = Idle] /\ Unregister(f)
  /\ UNCHANGED <<saved, cached, backups, rotating, full, broker, due, faults, rotations,
                 restarted, revived>>

-----------------------------------------------------------------------------
(* rotate_password_if_expired.                                             *)

MutantKnown(f) == saved # 0 /\ saved # flow[f].pw

\* Another login has rotated it already.
Known(f) == saved # 0 /\ (saved # flow[f].pw \/ flow[f].pw \in backups)

Rotate(f) ==
  /\ At(f, "rotate") /\ rotating = NoFlow
  /\ IF Known(f)
       THEN /\ flow' = [flow EXCEPT ![f].pw = saved, ![f].at = "validate"]
            /\ UNCHANGED <<row, registered, rotating, full, revived>>
     ELSE IF flow[f].pw < MaxPassword
       THEN /\ flow' = [flow EXCEPT ![f].n = flow[f].pw + 1, ![f].at = "change"]
            /\ rotating' = f /\ UNCHANGED <<row, registered, full, revived>>
     ELSE NextStage(f)                        \* no candidate is left
  /\ UNCHANGED <<saved, cached, backups, broker, due, faults, rotations, restarted>>

BrokerChanges(f) ==
  /\ broker = flow[f].pw
  /\ broker' = flow[f].n /\ due' = FALSE /\ rotations' = rotations + 1

MutantBackup(f) == backups \cup {flow[f].pw}

Backup(f) == backups \cup {flow[f].n}         \* save_password_backup

Changed(f) ==
  /\ At(f, "change") /\ BrokerChanges(f)
  /\ flow' = [flow EXCEPT ![f].pw = flow[f].n, ![f].at = "validate"]
  /\ rotating' = NoFlow
  /\ \/ saved' = flow[f].n /\ backups' = Backup(f) /\ UNCHANGED faults
     \/ Fault /\ saved' = flow[f].n /\ UNCHANGED backups
     \/ Fault /\ backups' = Backup(f) /\ UNCHANGED saved
  /\ UNCHANGED <<registered, row, cached, full, restarted, revived>>

\* Any exception: the next candidate, with the password the client had.
NextCandidate(f) ==
  IF flow[f].n < MaxPassword
    THEN /\ flow' = [flow EXCEPT ![f].n = @ + 1]
         /\ UNCHANGED <<row, registered, rotating, full, revived>>
    ELSE NextStage(f)

\* The broker refuses (a password in its history, or the wrong present one), or changes the
\* password and the answer is lost.
NotChanged(f) ==
  /\ At(f, "change") /\ NextCandidate(f)
  /\ \/ UNCHANGED <<broker, due, faults, rotations>>
     \/ BrokerChanges(f) /\ Fault
  /\ UNCHANGED <<saved, cached, backups, restarted>>

-----------------------------------------------------------------------------
(* The account itself, and the process.                                    *)

Create(f) ==
  /\ At(f, "idle") /\ saved = 0 /\ saved' \in Typed
  /\ UNCHANGED <<flow, registered, row, cached, backups, rotating, full, broker,
                 due, faults, rotations, restarted, revived>>

Update(f) ==
  /\ At(f, "idle") /\ saved # 0 /\ saved' \in Typed /\ cached' = 0
  /\ UNCHANGED <<flow, registered, row, backups, rotating, full, broker, due,
                 faults, rotations, restarted, revived>>

\* The background login is cancelled and awaited, which lets others run: among them a page
\* that queues another one.  A change of the password that is cancelled may have been made.
Delete(f) ==
  /\ At(f, "idle") /\ saved # 0
  /\ registered' = NoFlow
  /\ IF HasTask
       THEN /\ flow' = [flow EXCEPT ![registered] = Idle,
                                    ![f] = [Idle EXCEPT !.kind = "delete", !.at = "ending"]]
            /\ Release(registered)
            /\ \/ UNCHANGED <<broker, due, faults, rotations>>
               \/ At(registered, "change") /\ BrokerChanges(registered) /\ Fault
            /\ UNCHANGED <<saved, row, cached>>
       ELSE /\ saved' = 0 /\ row' = NoRow /\ cached' = 0
            /\ UNCHANGED <<flow, rotating, full, broker, due, faults, rotations>>
  /\ UNCHANGED <<backups, restarted, revived>>

DeleteEnds(f) ==
  /\ Kind(f) = "delete" /\ At(f, "ending")
  /\ saved' = 0 /\ row' = NoRow /\ cached' = 0
  /\ flow' = [flow EXCEPT ![f] = Idle]
  /\ UNCHANGED <<registered, backups, rotating, full, broker, due, faults,
                 rotations, restarted, revived>>

\* The process dies and starts again: what it had in memory is gone.
Restart ==
  /\ flow' = [f \in Flows |-> Idle] /\ registered' = NoFlow /\ cached' = 0
  /\ rotating' = NoFlow /\ full' = NoFlow /\ restarted' = TRUE
  /\ \/ UNCHANGED <<broker, due, faults, rotations>>
     \/ \E f \in Flows : At(f, "change") /\ BrokerChanges(f) /\ Fault
  /\ UNCHANGED <<saved, row, backups, revived>>

LoginStep(f) ==
  \/ TaskStarts(f) \/ Broken(f) \/ Refreshed(f) \/ FullLogin(f) \/ LoggedIn(f)
  \/ Validated(f) \/ Listed(f) \/ TaskEnds(f) \/ Rotate(f) \/ Changed(f) \/ NotChanged(f)

Next ==
  \/ \E f \in Flows : \/ LoginStep(f) \/ LoginNow(f) \/ Page(f) \/ LoginAll(f)
                      \/ MonitorLogin(f) \/ Form(f) \/ Request(f) \/ Create(f) \/ Update(f)
                      \/ Delete(f) \/ DeleteEnds(f)
  \/ Restart

Spec == Init /\ [][Next]_vars

-----------------------------------------------------------------------------
(* Properties.                                                             *)

\* Types of the variables.
TypeOK ==
  /\ flow \in [Flows -> Flow] /\ registered \in Flows \cup {NoFlow}
  /\ saved \in 0..MaxPassword /\ row \in Row /\ cached \in 0..MaxPassword
  /\ backups \subseteq Passwords /\ broker \in Passwords
  /\ {due, restarted, revived} \subseteq BOOLEAN
  /\ {rotating, full} \subseteq Flows \cup {NoFlow}
  /\ faults \in 0..MaxFaults /\ rotations \in 0..MaxPassword

\* "Start one deduplicated background login for a saved TMS account": the login a page,
\* a failed session or the user asked for is the only one that runs, and it is the one
\* registered, whatever pages and deletions overlap.
OneTask == \A f \in Flows : Kind(f) = "task" <=> registered = f

\* ... and an account whose row says "logging_in" has that login or is being deleted.  Two
\* accidents leave the row without one until the next page looks at it: the process died, or
\* the failed login of a page wrote the row of an account deleted in the meantime.
PendingHasTask ==
  OneTask /\ (row.status = "logging_in" => HasTask \/ Deleting \/ restarted \/ revived)

\* An expired password is rotated once in a day: no other login of the account, and no page
\* that replays the old expiry from the stored session, begins to rotate the new one, unless
\* an answer or a write was lost.
RotatesOnce ==
  [][\A f \in Flows : At(f, "rotate") /\ flow'[f].at = "change" /\ flow[f].pw = broker
                        /\ saved # 0 /\ rotations > 0 => faults > 0]_vars

\* A password the desk has chosen is in the account or in its backups, so nobody is locked
\* out for good, unless an answer or a write was lost: a login that ends later with the old
\* password, or a deletion, does not lose it.
RecoverablePassword == faults = 0 => broker \in {1, saved} \cup backups

=============================================================================
