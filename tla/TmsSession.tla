----------------------------- MODULE TmsSession -----------------------------
(***************************************************************************)
(* The authenticated HTTP session of a broker client (class TmsUser of     *)
(* utils/tms.py): its session lock, the refresh of an expired token, the   *)
(* full login behind a process-wide lock, and the cool-down after a failed *)
(* refresh.                                                                *)
(*                                                                         *)
(* Coroutines share a TmsUser once it has logged in.  A request holds the  *)
(* session lock from the send to the end of whatever its answer leads to.  *)
(* asyncio locks are queues: the head holds the lock, and an entry names   *)
(* the task and the request that waits, the task's own ("outer") or the    *)
(* one that validates a new session ("check").  The lock _auth_refresh_lock *)
(* is only ever taken by a holder of the session lock, so it never delays  *)
(* anybody and is left out.                                                *)
(***************************************************************************)
EXTENDS Integers, Sequences, SequencesExt

CONSTANTS
  Tasks,        \* coroutines of the event loop
  Users,        \* TmsUser instances
  CaptchaUsers, \* those whose refresh may fall back on a full captcha login
  MaxAttempts,  \* max_connection_retries
  NoUser

ASSUME ConstantsAssumption ==
  CaptchaUsers \subseteq Users /\ NoUser \notin Users /\ MaxAttempts \in Nat \ {0}

VARIABLES
  task,     \* where each coroutine is
  session,  \* per user, the queue of _session_lock
  full,     \* the queue of _full_login_lock
  ready,    \* users that have logged in and are shared
  expired,  \* users whose token the broker rejects
  cooling,  \* users whose last refresh failed less than a minute ago
  nonLive   \* the market is closed: GETs may be answered from the cache

vars == <<task, session, full, ready, expired, cooling, nonLive>>

Entry == Tasks \X {"outer", "check"}
Points == {"idle", "queued", "sent", "renewing", "resting", "refresh", "captcha", "login"}
TaskState ==
  [op: {"none", "request", "login"}, user: Users \cup {NoUser}, at: Points,
   level: {"outer", "check"}, stage: {"stored", "refreshed", "full"},
   outer: 0..MaxAttempts, inner: 0..MaxAttempts, stale: BOOLEAN]

Idle == [op |-> "none", user |-> NoUser, at |-> "idle", level |-> "outer",
         stage |-> "stored", outer |-> 0, inner |-> 0, stale |-> FALSE]

-----------------------------------------------------------------------------
\* (Operators named Mutant... are faulty variants of the definition that follows them:
\* the properties at the end of the module tell the two apart.)
U(t) == task[t].user
Me(t) == <<t, task[t].level>>
At(t, point) == task[t].at = point
Busy(t) == ~At(t, "idle")
Tries(t) == IF task[t].level = "outer" THEN task[t].outer ELSE task[t].inner
Retry(s) == IF s.level = "outer" THEN [s EXCEPT !.outer = @ + 1] ELSE [s EXCEPT !.inner = @ + 1]

Granted(t) == Head(session[U(t)]) = Me(t)

\* Nobody waits twice for the same thing, so the first entry of its kind is the only one.
Without(q, e) == RemoveFirst(q, e)
Leave(q, t) == Without(Without(q, <<t, "outer">>), <<t, "check">>)

Init ==
  /\ task = [t \in Tasks |-> Idle]
  /\ session = [u \in Users |-> <<>>] /\ full = <<>>
  /\ ready = {} /\ cooling = {}
  /\ expired \in SUBSET Users
  /\ nonLive \in BOOLEAN

-----------------------------------------------------------------------------
(* The request machine of _authenticated_request.                          *)

BeginRequest(t, u) ==
  /\ ~Busy(t) /\ u \in ready
  /\ task' = [task EXCEPT ![t] = [Idle EXCEPT !.op = "request", !.user = u, !.at = "queued"]]
  /\ session' = [session EXCEPT ![u] = Append(@, <<t, "outer">>)]
  /\ UNCHANGED <<full, ready, expired, cooling, nonLive>>

Send(t) ==
  /\ At(t, "queued") /\ Granted(t)
  /\ task' = [task EXCEPT ![t].at = "sent"]
  /\ UNCHANGED <<session, full, ready, expired, cooling, nonLive>>

\* The coroutine ends and leaves every lock.
EndAmong(t, others) ==
  /\ task' = [others EXCEPT ![t] = Idle]
  /\ session' = [session EXCEPT ![U(t)] = Leave(@, t)]
  /\ full' = Without(full, t)
End(t) == EndAmong(t, task)

\* An error that _is_transient_request_error knows, with attempts left: the lock of
\* the failed request is released, then taken again to recreate the HTTP session.
RetryLater(t) ==
  /\ Tries(t) < MaxAttempts - 1
  /\ task' = [task EXCEPT ![t].at = "renewing"]
  /\ session' = [session EXCEPT ![U(t)] = Append(Without(@, Me(t)), Me(t))]
  /\ UNCHANGED full

Recreate(t) ==
  /\ At(t, "renewing") /\ Granted(t)
  /\ task' = [task EXCEPT ![t].at = "resting"]
  /\ session' = [session EXCEPT ![U(t)] = Without(@, Me(t))]
  /\ UNCHANGED <<full, ready, expired, cooling, nonLive>>

Rested(t) ==                                      \* asyncio.sleep
  /\ At(t, "resting")
  /\ task' = [task EXCEPT ![t] = [Retry(@) EXCEPT !.at = "queued", !.stale = FALSE]]
  /\ session' = [session EXCEPT ![U(t)] = Append(@, Me(t))]
  /\ UNCHANGED <<full, ready, expired, cooling, nonLive>>

OuterSent(t) == At(t, "sent") /\ task[t].level = "outer"

Answered(t) ==
  /\ OuterSent(t) /\ U(t) \notin expired /\ ~task[t].stale
  /\ End(t)
  /\ UNCHANGED <<ready, expired, cooling, nonLive>>

RequestBreaks(t) ==
  /\ OuterSent(t)
  /\ RetryLater(t) \/ End(t)
  /\ UNCHANGED <<ready, expired, cooling, nonLive>>

Rejected(t) == U(t) \in expired \/ task[t].stale

MutantUnauthorized(t) ==
  /\ OuterSent(t) /\ Rejected(t)
  /\ U(t) \notin cooling
  /\ task' = [task EXCEPT ![t].at = "refresh"]
  /\ session' = [session EXCEPT ![U(t)] = Without(@, Me(t))]
  /\ UNCHANGED <<full, ready, expired, cooling, nonLive>>

\* A 401: the token has expired, or is one that a full login has replaced while the
\* request, which reads it before it waits for the lock, was queued.  The refresh runs
\* under the session lock of the request.
Unauthorized(t) ==
  /\ OuterSent(t) /\ Rejected(t)
  /\ IF U(t) \in cooling
       THEN End(t)                                \* LoginFailedException
       ELSE task' = [task EXCEPT ![t].at = "refresh"] /\ UNCHANGED <<session, full>>
  /\ UNCHANGED <<ready, expired, cooling, nonLive>>

-----------------------------------------------------------------------------
(* Refresh, validation and full login, for a request or for a login.       *)

\* A new session, of the given stage, is valid: the login is done, or the request's
\* next attempt begins; a request on its last attempt fails.
Validated(t, others) ==
  IF task[t].op = "login"
    THEN EndAmong(t, others) /\ ready' = ready \cup {U(t)} /\ UNCHANGED cooling
    ELSE /\ IF task[t].outer < MaxAttempts - 1
              THEN /\ task' = [others EXCEPT ![t] =
                                [Idle EXCEPT !.op = "request", !.user = U(t), !.at = "queued",
                                             !.outer = task[t].outer + 1]]
                   /\ session' = [session EXCEPT ![U(t)] = Append(Leave(@, t), <<t, "outer">>)]
                   /\ full' = Without(full, t)
              ELSE EndAmong(t, others)
         /\ cooling' = cooling \ {U(t)}
         /\ UNCHANGED ready

\* _validate_session: a GET of the client details, from the cache or queued.
Validate(t, stage, others) ==
  \/ nonLive /\ Validated(t, others)
  \/ /\ task' = [others EXCEPT ![t].at = "queued", ![t].level = "check", ![t].inner = 0,
                             ![t].stage = stage]
     /\ session' = [session EXCEPT ![U(t)] = Append(@, <<t, "check">>)]
     /\ UNCHANGED <<full, ready, cooling>>

\* Neither refreshed nor logged in: the login ends, the request fails or (a network
\* error of the full login is transient) is tried again, and the user cools down.
MutantGiveUp(t) ==
  IF task[t].op = "login"
    THEN /\ task' = [task EXCEPT ![t] = Idle]
         /\ session' = [session EXCEPT ![U(t)] = Leave(@, t)]
         /\ UNCHANGED <<full, ready, cooling>>
    ELSE /\ End(t) /\ cooling' = cooling \cup {U(t)} /\ UNCHANGED ready
GiveUp(t) ==
  IF task[t].op = "login"
    THEN End(t) /\ UNCHANGED <<ready, cooling>>
    ELSE /\ \/ End(t)
            \/ /\ U(t) \in CaptchaUsers /\ task[t].outer < MaxAttempts - 1
               /\ task' = [task EXCEPT ![t].at = "renewing", ![t].level = "outer",
                                       ![t].stage = "stored"]
               /\ session' = [session EXCEPT ![U(t)] = Append(Leave(@, t), <<t, "outer">>)]
               /\ full' = Without(full, t)
         /\ cooling' = cooling \cup {U(t)}
         /\ UNCHANGED ready

FullLoginOrGiveUp(t) ==
  IF U(t) \in CaptchaUsers
    THEN /\ task' = [task EXCEPT ![t].at = "captcha"]
         /\ full' = Append(full, t)
         /\ UNCHANGED <<session, ready, cooling>>
    ELSE GiveUp(t)

\* try_cached_login: from the stored session if there is one.  A TmsUser that does not
\* log in is thrown away and its next incarnation has no cool-down.
LoggingIn(u) == \E t \in Tasks : task[t].op = "login" /\ U(t) = u
BeginLogin(t, u) ==
  /\ ~Busy(t) /\ u \notin ready /\ ~LoggingIn(u)
  /\ LET s == [Idle EXCEPT !.op = "login", !.user = u] IN
     \/ /\ task' = [task EXCEPT ![t] = [s EXCEPT !.at = "queued", !.level = "check"]]
        /\ session' = [session EXCEPT ![u] = Append(@, <<t, "check">>)]
        /\ UNCHANGED <<full, ready>>
     \/ /\ nonLive                                \* stored, and validated from the cache
        /\ ready' = ready \cup {u}
        /\ UNCHANGED <<task, session, full>>
     \/ /\ u \in CaptchaUsers                     \* nothing stored
        /\ task' = [task EXCEPT ![t] = [s EXCEPT !.at = "captcha"]]
        /\ full' = Append(full, t)
        /\ UNCHANGED <<session, ready>>
  /\ cooling' = cooling \ {u}
  /\ UNCHANGED <<expired, nonLive>>

Refresh(t) ==                                     \* refresh_auth_token
  /\ At(t, "refresh")
  /\ \/ expired' = expired \ {U(t)} /\ Validate(t, "refreshed", task)
     \/ UNCHANGED expired /\ FullLoginOrGiveUp(t)
  /\ UNCHANGED nonLive

\* The POST of the refresh raises: nobody catches it on the way out.
RefreshBreaks(t) ==
  /\ At(t, "refresh")
  /\ (task[t].op = "request" /\ RetryLater(t)) \/ End(t)
  /\ UNCHANGED <<ready, expired, cooling, nonLive>>

FullLogin(t) ==
  /\ At(t, "captcha") /\ Head(full) = t
  /\ task' = [task EXCEPT ![t].at = "login"]
  /\ UNCHANGED <<session, full, ready, expired, cooling, nonLive>>

\* login() replaces tokens and headers; requests of the user that wait keep the old.
LoggedIn(t) ==
  /\ At(t, "login")
  /\ expired' = expired \ {U(t)}
  /\ Validate(t, "full", [x \in Tasks |->
       IF x # t /\ U(x) = U(t) /\ At(x, "queued") THEN [task[x] EXCEPT !.stale = TRUE] ELSE task[x]])
  /\ UNCHANGED nonLive

LoginFails(t) ==
  /\ At(t, "login")
  /\ GiveUp(t)
  /\ UNCHANGED <<expired, nonLive>>

CheckSent(t) == At(t, "sent") /\ task[t].level = "check"

CheckAnswered(t) ==
  /\ CheckSent(t) /\ U(t) \notin expired
  /\ Validated(t, task)
  /\ UNCHANGED <<expired, nonLive>>

\* Any error of the validation, a 401 too (raise_for_status), counts as transient.
CheckBreaks(t) ==
  /\ CheckSent(t)
  /\ \/ RetryLater(t) /\ UNCHANGED <<ready, cooling>>
     \/ CASE task[t].stage = "stored" ->
               /\ task' = [task EXCEPT ![t].at = "refresh", ![t].level = "outer"]
               /\ session' = [session EXCEPT ![U(t)] = Without(@, Me(t))]
               /\ UNCHANGED <<full, ready, cooling>>
          [] task[t].stage = "refreshed" /\ U(t) \in CaptchaUsers ->
               /\ task' = [task EXCEPT ![t].at = "captcha", ![t].level = "outer"]
               /\ session' = [session EXCEPT ![U(t)] = Without(@, Me(t))]
               /\ full' = Append(full, t)
               /\ UNCHANGED <<ready, cooling>>
          [] OTHER -> GiveUp(t)
  /\ UNCHANGED <<expired, nonLive>>

-----------------------------------------------------------------------------
\* A timeout around the caller, or the end of its task, cancels the await.
Cancel(t) ==
  /\ Busy(t)
  /\ End(t)
  /\ UNCHANGED <<ready, expired, cooling, nonLive>>

CooldownEnds(u) ==
  /\ u \in cooling
  /\ cooling' = cooling \ {u}
  /\ UNCHANGED <<task, session, full, ready, expired, nonLive>>

\* External: the broker stops accepting a token.
TokenExpires(u) ==
  /\ expired' = expired \cup {u}
  /\ UNCHANGED <<task, session, full, ready, cooling, nonLive>>

MarketOpensOrCloses ==
  /\ nonLive' = ~nonLive
  /\ UNCHANGED <<task, session, full, ready, expired, cooling>>

TaskStep(t) ==
  \/ Send(t) \/ Recreate(t) \/ Rested(t)
  \/ Answered(t) \/ RequestBreaks(t) \/ Unauthorized(t)
  \/ Refresh(t) \/ RefreshBreaks(t) \/ FullLogin(t) \/ LoggedIn(t) \/ LoginFails(t)
  \/ CheckAnswered(t) \/ CheckBreaks(t)

Next ==
  \/ \E t \in Tasks : TaskStep(t) \/ Cancel(t)
  \/ \E t \in Tasks, u \in Users : BeginLogin(t, u) \/ BeginRequest(t, u)
  \/ \E u \in Users : CooldownEnds(u) \/ TokenExpires(u)
  \/ MarketOpensOrCloses

Spec == Init /\ [][Next]_vars

\* Every await but that of a lock ends: all requests have timeouts.
FairSpec == Spec /\ \A t \in Tasks : WF_vars(TaskStep(t))

-----------------------------------------------------------------------------
(* Properties *)

\* Types of the variables.
TypeOK ==
  /\ task \in [Tasks -> TaskState]
  /\ session \in [Users -> Seq(Entry)] /\ full \in Seq(Tasks)
  /\ ready \subseteq Users /\ expired \subseteq Users /\ cooling \subseteq Users
  /\ nonLive \in BOOLEAN

Holds(t, u) == session[u] # <<>> /\ Head(session[u])[1] = t
SelfWaits(t) ==
  /\ Busy(t) /\ Holds(t, U(t))
  /\ \E i \in DOMAIN session[U(t)] : i > 1 /\ session[U(t)][i] = Me(t)

\* Locks are left on every path (answers, errors, cancellation, all the exits of a
\* refresh): an entry in a queue belongs to a task that is at work on that user, at most
\* one for the request and one for the validation, and whoever talks to the broker, to
\* refresh, to log in or to ask, holds the lock that serialises it.
LocksFollowTasks ==
  /\ \A u \in Users : IsInjective(session[u]) /\ \A e \in ToSet(session[u]) : Busy(e[1]) /\ U(e[1]) = u
  /\ IsInjective(full)
  /\ \A t \in Tasks :
       /\ At(t, "sent") => Holds(t, U(t))
       /\ task[t].op = "request" /\ task[t].at \in {"refresh", "captcha", "login"} => Holds(t, U(t))
       /\ t \in ToSet(full) <=> task[t].at \in {"captcha", "login"} \/ task[t].stage = "full"

\* While the token of a user is renewed no other coroutine has a request of that user on
\* the wire (tms.py:1720): neither answers nor the retry can meet a half-replaced token.
OneOnTheWire ==
  \A t1, t2 \in Tasks :
    /\ t1 # t2 /\ U(t1) = U(t2)
    /\ task[t1].at \in {"sent", "refresh", "captcha", "login"}
    => task[t2].at \notin {"sent", "refresh", "captcha", "login"}

\* The self-deadlock below is the only one: as long as no request waits for a lock it
\* holds itself, every login and every request ends, although session locks are held
\* while the process-wide login lock is awaited and the other way round.
OnlySelfWaitBlocks ==
  <>[](\A t \in Tasks : ~SelfWaits(t)) => \A t \in Tasks : Busy(t) ~> ~Busy(t)

\* "Session expired - refreshing login token and retrying" (tms.py:1647, tested by
\* unit_tests/performance_optimizations_test.py:135 with the refresh mocked): a request
\* that refreshes its token ends.
RefreshResolves ==
  \A t \in Tasks : At(t, "refresh") /\ task[t].op = "request" ~> ~Busy(t) \/ OuterSent(t)

=============================================================================
