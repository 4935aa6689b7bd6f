------------------------- MODULE TmsSession_proofs -------------------------
(***************************************************************************)
(* Proofs about TmsSession, for any coroutines, clients and attempts.      *)
(***************************************************************************)
EXTENDS TmsSession, SequenceTheorems, TLAPS

-----------------------------------------------------------------------------
(* Queues.                                                                 *)

\* e holds the lock.
Leads(q, e) == q # <<>> /\ Head(q) = e

\* A queue without one of its entries keeps the others, and who holds the lock.
LEMMA WithoutKeeps ==
  ASSUME NEW S, NEW q \in Seq(S), IsInjective(q), NEW e
  PROVE  /\ Without(q, e) \in Seq(S) /\ IsInjective(Without(q, e))
         /\ ToSet(Without(q, e)) = ToSet(q) \ {e}
         /\ \A x : Leads(q, x) /\ x # e => Leads(Without(q, e), x)
<1>1. CASE ~\E i \in 1..Len(q) : q[i] = e
  BY <1>1 DEF Without, RemoveFirst, ToSet
<1>2. CASE \E i \in 1..Len(q) : q[i] = e
  <2>1. PICK i \in 1..Len(q) : q[i] = e
    BY <1>2
  <2>2. \A j \in 1..Len(q) : q[j] = e => j = i
    BY <2>1 DEF IsInjective
  <2>3. {j \in 1..Len(q) : q[j] = e} = {i}
    BY <2>1, <2>2
  <2>4. Min({i}) = i
    BY <2>1 DEF Min
  <2>5. Without(q, e) = RemoveAt(q, i)
    BY <1>2, <2>3, <2>4 DEF Without, RemoveFirst, SelectInSeq
  <2> DEFINE r == RemoveAt(q, i)
  <2>6. /\ SubSeq(q, 1, i - 1) \in Seq(S) /\ Len(SubSeq(q, 1, i - 1)) = i - 1
        /\ \A j \in 1..(i - 1) : SubSeq(q, 1, i - 1)[j] = q[j]
    BY <2>1
  <2>7. /\ SubSeq(q, i + 1, Len(q)) \in Seq(S) /\ Len(SubSeq(q, i + 1, Len(q))) = Len(q) - i
        /\ \A j \in 1..(Len(q) - i) : SubSeq(q, i + 1, Len(q))[j] = q[i + j]
    BY <2>1
  <2>8. /\ r \in Seq(S) /\ Len(r) = Len(q) - 1
        /\ \A j \in 1..(Len(q) - 1) : r[j] = IF j < i THEN q[j] ELSE q[j + 1]
    <3> DEFINE a == SubSeq(q, 1, i - 1)
               b == SubSeq(q, i + 1, Len(q))
    <3>1. r = a \o b
      BY DEF RemoveAt
    <3>2. a \in Seq(S) /\ Len(a) = i - 1 /\ \A j \in 1..(i - 1) : a[j] = q[j]
      BY <2>6
    <3>3. b \in Seq(S) /\ Len(b) = Len(q) - i /\ \A j \in 1..(Len(q) - i) : b[j] = q[i + j]
      BY <2>7
    <3> HIDE DEF a, b, r
    <3>4. /\ r \in Seq(S) /\ Len(r) = Len(a) + Len(b)
          /\ \A j \in 1..(Len(a) + Len(b)) : r[j] = IF j <= Len(a) THEN a[j] ELSE b[j - Len(a)]
      BY <3>1, <3>2, <3>3, ConcatProperties
    <3>5. ASSUME NEW j \in 1..(Len(q) - 1) PROVE r[j] = IF j < i THEN q[j] ELSE q[j + 1]
      <4>n. Len(q) \in Nat /\ i \in 1..Len(q) /\ Len(a) = i - 1 /\ Len(b) = Len(q) - i
        BY <2>1, <3>2, <3>3
      <4>j. j \in 1..(Len(a) + Len(b))
        BY <4>n
      <4>r. r[j] = IF j <= Len(a) THEN a[j] ELSE b[j - Len(a)]
        BY <3>4, <4>j
      <4>1. CASE j < i
        <5>1. j <= Len(a) /\ j \in 1..(i - 1)
          BY <4>n, <4>1
        <5>2. QED
          BY <3>2, <4>r, <4>1, <5>1
      <4>2. CASE j >= i
        <5>1. r[j] = b[j - (i - 1)] /\ j - (i - 1) \in 1..(Len(q) - i)
          <6>1. ~(j <= Len(a)) /\ j - (i - 1) \in 1..(Len(q) - i)
            BY <4>n, <4>2
          <6>2. QED
            BY <4>n, <4>r, <6>1
        <5>2. i + (j - (i - 1)) = j + 1
          BY <2>1
        <5>3. QED
          BY <3>3, <4>2, <5>1, <5>2
      <4>3. QED
        BY <2>1, <4>1, <4>2
    <3>6. QED
      BY <2>1, <3>2, <3>3, <3>4, <3>5
  <2> HIDE DEF r
  <2>9. IsInjective(r)
    <3> SUFFICES ASSUME NEW j \in 1..(Len(q) - 1), NEW k \in 1..(Len(q) - 1), r[j] = r[k] PROVE j = k
      BY <2>8 DEF IsInjective
    <3>1. \A x, y \in 1..Len(q) : q[x] = q[y] => x = y
      BY DEF IsInjective
    <3> DEFINE P(x) == IF x < i THEN x ELSE x + 1
    <3>2. r[j] = q[P(j)] /\ r[k] = q[P(k)]
      BY <2>8
    <3>3. P(j) \in 1..Len(q) /\ P(k) \in 1..Len(q) /\ (P(j) = P(k) => j = k)
      BY <2>1
    <3> HIDE DEF P
    <3>4. q[P(j)] = q[P(k)]
      BY <3>2
    <3>5. QED
      BY <3>1, <3>3, <3>4
  <2>10. ToSet(r) = ToSet(q) \ {e}
    <3>1. ASSUME NEW x \in ToSet(r) PROVE x \in ToSet(q) \ {e}
      BY <2>1, <2>2, <2>8, <3>1 DEF ToSet
    <3>2. ASSUME NEW x \in ToSet(q) \ {e} PROVE x \in ToSet(r)
      <4>1. PICK j \in 1..Len(q) : q[j] = x /\ j # i
        BY <2>1, <3>2 DEF ToSet
      <4>2. CASE j < i
        BY <2>1, <2>8, <4>1, <4>2 DEF ToSet
      <4>3. CASE j > i
        <5>1. j - 1 \in 1..(Len(q) - 1) /\ r[j - 1] = x
          BY <2>1, <2>8, <4>1, <4>3
        <5>2. QED
          BY <2>8, <5>1 DEF ToSet
      <4>4. QED
        BY <4>1, <4>2, <4>3
    <3>3. QED
      BY <3>1, <3>2
  <2>11. ASSUME NEW x, Leads(q, x), x # e PROVE Leads(r, x)
    BY <2>1, <2>8, <2>11 DEF Leads
  <2>12. QED
    BY <2>5, <2>8, <2>9, <2>10, <2>11 DEF r
<1>3. QED
  BY <1>1, <1>2

\* A queue that somebody joins.
LEMMA JoinKeeps ==
  ASSUME NEW S, NEW q \in Seq(S), IsInjective(q), NEW e \in S, e \notin ToSet(q)
  PROVE  /\ Append(q, e) \in Seq(S) /\ IsInjective(Append(q, e))
         /\ ToSet(Append(q, e)) = ToSet(q) \cup {e}
         /\ \A x : Leads(q, x) => Leads(Append(q, e), x)
<1>1. /\ Append(q, e) \in Seq(S) /\ Len(Append(q, e)) = Len(q) + 1
      /\ \A j \in 1..Len(q) : Append(q, e)[j] = q[j]
      /\ Append(q, e)[Len(q) + 1] = e
  OBVIOUS
<1>2. IsInjective(Append(q, e))
  BY <1>1 DEF IsInjective, ToSet
<1>3. ToSet(Append(q, e)) = ToSet(q) \cup {e}
  BY <1>1 DEF ToSet
<1>4. ASSUME NEW x, Leads(q, x) PROVE Leads(Append(q, e), x)
  BY <1>1, <1>4 DEF Leads
<1>5. QED
  BY <1>1, <1>2, <1>3, <1>4

-----------------------------------------------------------------------------
(* The inductive invariant.                                                *)

Kinds == {"outer", "check"}

\* What a coroutine may be: only a login validates a session it stored or made, since the
\* request that does waits for itself; users are shared once their login is over; and who
\* recreates its HTTP session or rests has attempts left.
Local(s, shared) ==
  /\ s \in TaskState
  /\ s.op = "none" <=> s.at = "idle"
  /\ s.op = "none" => s.level = "outer"
  /\ s.op # "login" /\ s.level = "outer" => s.stage = "stored"
  /\ s.op # "none" => s.user \in Users
  /\ s.op = "request" => s.user \in shared /\ (s.level = "check" => s.at = "queued")
  /\ s.op = "login" => s.user \notin shared
  /\ s.level = "check" => s.at \in {"queued", "sent", "renewing", "resting"}
  /\ s.op = "login" /\ s.level = "outer" => s.at \in {"refresh", "captcha", "login"}
  /\ s.at \in {"refresh", "captcha", "login"} => s.level = "outer"
  /\ s.at = "refresh" => s.stage = "stored"
  /\ s.level = "outer" => s.stage # "full"
  /\ s.at \in {"renewing", "resting"} =>
       (IF s.level = "outer" THEN s.outer ELSE s.inner) < MaxAttempts - 1

\* The entries of a coroutine, and those it holds a lock with.
InQueue(s, kind, u) ==
  s.user = u /\ s.at # "resting" /\ IF kind = "outer" THEN s.op = "request" ELSE s.level = "check"
InFull(s) == s.at \in {"captcha", "login"} \/ s.stage = "full"
Holding(s) ==
  s.at = "sent" \/ (s.op = "request" /\ (s.at \in {"refresh", "captcha", "login"} \/ s.level = "check"))
HeldKind(s) == IF s.op = "login" THEN "check" ELSE "outer"
LogsIn(s, u) == s.op = "login" /\ s.user = u

Distinct == IsInjective(full) /\ \A u \in Users : IsInjective(session[u])
Standing ==
  /\ \A u \in Users, t \in Tasks, kind \in Kinds : <<t, kind>> \in ToSet(session[u]) <=> InQueue(task[t], kind, u)
  /\ \A t \in Tasks : t \in ToSet(full) <=> InFull(task[t])
InFront == \A t \in Tasks : Holding(task[t]) => Leads(session[U(t)], <<t, HeldKind(task[t])>>)
LoginAlone == \A t, x \in Tasks, u \in Users : LogsIn(task[t], u) /\ LogsIn(task[x], u) => t = x

IInv ==
  /\ TypeOK /\ (\A t \in Tasks : Local(task[t], ready))
  /\ Distinct /\ Standing /\ InFront /\ LoginAlone

\* Nobody waits at first.
LEMMA InductiveInit == Init => IInv
<1> SUFFICES ASSUME Init PROVE IInv
  OBVIOUS
<1>1. Idle \in TaskState
  BY ConstantsAssumption DEF Idle, TaskState, Points
<1>2. TypeOK
  BY <1>1 DEF Init, TypeOK
<1>3. IsInjective(<<>>) /\ ToSet(<<>>) = {}
  BY DEF IsInjective, ToSet
<1>4. QED
  BY <1>1, <1>2, <1>3
  DEF Init, IInv, Local, Distinct, Standing, InQueue, InFull, InFront, Holding, LoginAlone, LogsIn, Idle, Kinds

\* A change of the queue q that concerns the entries of t alone, and one of the login queue.
Exchanges(t, q, r) ==
  /\ r \in Seq(Entry) /\ IsInjective(r)
  /\ \A x \in Tasks \ {t}, kind \in Kinds :
       /\ <<x, kind>> \in ToSet(r) <=> <<x, kind>> \in ToSet(q)
       /\ Leads(q, <<x, kind>>) => Leads(r, <<x, kind>>)
Changes(t, f, g) ==
  /\ g \in Seq(Tasks) /\ IsInjective(g)
  /\ \A x \in Tasks \ {t} : x \in ToSet(g) <=> x \in ToSet(f)

\* A step of t, which works on u: to the state s, with the queues q of u and f of the login.
Turn(t, u, s, q, f) ==
  /\ s.op = "none" \/ s.user = u
  /\ task[t].op = "none" \/ U(t) = u
  /\ task' \in [Tasks -> TaskState] /\ task'[t] = s
  /\ \A x \in Tasks \ {t} : task'[x] = task[x] \/ task'[x] = [task[x] EXCEPT !.stale = TRUE]
  /\ session' = [session EXCEPT ![u] = q] /\ full' = f
  /\ ready' \in {ready, ready \cup {u}}
  /\ (s.op = "login" \/ ready' # ready) => \A x \in Tasks \ {t} : ~LogsIn(task[x], u)
  /\ expired' \subseteq Users /\ cooling' \subseteq Users /\ nonLive' \in BOOLEAN

\* Such a step keeps the invariant when t's new state fits its places in the queues.
LEMMA TurnKeeps ==
  ASSUME IInv, NEW t \in Tasks, NEW u \in Users, NEW s, NEW q, NEW f,
         Turn(t, u, s, q, f), Exchanges(t, session[u], q), Changes(t, full, f),
         Local(s, ready'),
         \A kind \in Kinds : <<t, kind>> \in ToSet(q) <=> InQueue(s, kind, u),
         t \in ToSet(f) <=> InFull(s),
         Holding(s) => Leads(q, <<t, HeldKind(s)>>)
  PROVE  IInv'
<1>1. TypeOK'
  BY DEF IInv, TypeOK, Turn, Exchanges, Changes
<1>2. /\ session' \in [Users -> Seq(Entry)] /\ session'[u] = q /\ full' = f /\ task'[t] = s
      /\ \A v \in Users \ {u} : session'[v] = session[v]
  BY DEF Turn, IInv, TypeOK, Exchanges
<1>3. ASSUME NEW x \in Tasks \ {t}
      PROVE  /\ task'[x] \in TaskState
             /\ task'[x].op = task[x].op /\ task'[x].user = task[x].user /\ task'[x].at = task[x].at
             /\ task'[x].level = task[x].level /\ task'[x].stage = task[x].stage
             /\ task'[x].outer = task[x].outer /\ task'[x].inner = task[x].inner
  <2>1. task'[x] \in TaskState /\ task[x] \in TaskState
    BY DEF Turn, IInv, TypeOK
  <2>2. CASE task'[x] = task[x]
    BY <2>1, <2>2
  <2>3. CASE task'[x] = [task[x] EXCEPT !.stale = TRUE]
    BY <2>1, <2>3 DEF TaskState
  <2>4. QED
    BY <2>2, <2>3 DEF Turn
<1>4. ASSUME NEW x \in Tasks PROVE Local(task'[x], ready')
  <2>1. CASE x = t
    BY <1>2, <2>1
  <2>2. CASE x # t
    <3>1. Local(task[x], ready) /\ task[x].op = "login" => task[x].user \notin ready'
      BY <2>2 DEF IInv, Turn, Local, LogsIn
    <3>2. ready \subseteq ready'
      BY DEF Turn
    <3>3. QED
      BY <1>3, <2>2, <3>1, <3>2 DEF IInv, Local
  <2>3. QED
    BY <2>1, <2>2
<1>5. Distinct'
  BY <1>2 DEF IInv, Distinct, Exchanges, Changes
<1>6. ASSUME NEW v \in Users, NEW x \in Tasks, NEW kind \in Kinds
      PROVE  <<x, kind>> \in ToSet(session'[v]) <=> InQueue(task'[x], kind, v)
  <2>1. CASE x # t
    <3>1. <<x, kind>> \in ToSet(session[v]) <=> InQueue(task[x], kind, v)
      BY DEF IInv, Standing
    <3>2. <<x, kind>> \in ToSet(session'[v]) <=> <<x, kind>> \in ToSet(session[v])
      BY <1>2, <2>1 DEF Exchanges
    <3>3. QED
      BY <1>3, <2>1, <3>1, <3>2 DEF InQueue
  <2>2. CASE x = t /\ v = u
    BY <1>2, <2>2
  <2>3. CASE x = t /\ v # u
    <3>1. ~InQueue(task[t], kind, v) /\ ~InQueue(s, kind, v)
      BY <2>3 DEF Turn, InQueue, IInv, Local, Kinds, U
    <3>2. QED
      BY <1>2, <2>3, <3>1 DEF IInv, Standing
  <2>4. QED
    BY <2>1, <2>2, <2>3
<1>7. ASSUME NEW x \in Tasks PROVE x \in ToSet(full') <=> InFull(task'[x])
  BY <1>2, <1>3 DEF IInv, Standing, InFull, Changes
<1>8. ASSUME NEW x \in Tasks, Holding(task'[x])
      PROVE  Leads(session'[task'[x].user], <<x, HeldKind(task'[x])>>)
  <2>1. CASE x # t
    <3>1. Holding(task[x]) /\ HeldKind(task'[x]) = HeldKind(task[x]) /\ HeldKind(task[x]) \in Kinds
      BY <1>3, <1>8, <2>1 DEF Holding, HeldKind, Kinds
    <3>2. U(x) \in Users /\ Leads(session[U(x)], <<x, HeldKind(task[x])>>)
      BY <3>1 DEF IInv, InFront, Local, Holding, U
    <3>3. Leads(session'[U(x)], <<x, HeldKind(task[x])>>)
      BY <1>2, <2>1, <3>1, <3>2 DEF Exchanges
    <3>4. QED
      BY <1>3, <2>1, <3>1, <3>3 DEF U
  <2>2. CASE x = t
    <3>1. s.user = u
      BY <1>2, <1>8, <2>2 DEF Turn, Holding, Local
    <3>2. QED
      BY <1>2, <1>8, <2>2, <3>1
  <2>3. QED
    BY <2>1, <2>2
<1>9. LoginAlone'
  <2> SUFFICES ASSUME NEW x \in Tasks, NEW y \in Tasks, NEW v \in Users,
                      LogsIn(task'[x], v), LogsIn(task'[y], v), x # t, x # y
               PROVE  FALSE
    BY DEF LoginAlone
  <2>1. LogsIn(task[x], v)
    BY <1>3 DEF LogsIn
  <2>2. CASE y # t
    BY <1>3, <2>1, <2>2 DEF LogsIn, IInv, LoginAlone
  <2>3. CASE y = t
    BY <1>2, <2>1, <2>3 DEF LogsIn, Turn
  <2>4. QED
    BY <2>2, <2>3
<1>10. QED
  BY <1>1, <1>4, <1>5, <1>6, <1>7, <1>8, <1>9 DEF IInv, Standing, InFront, U

-----------------------------------------------------------------------------
(* What a step does to the queues.                                         *)

\* A queue that is left alone, left by an entry of t, left by t, or joined by t.
LEMMA ExchangesSame ==
  ASSUME NEW t, NEW q \in Seq(Entry), IsInjective(q)
  PROVE  Exchanges(t, q, q)
BY DEF Exchanges

LEMMA ExchangesWithout ==
  ASSUME NEW t, NEW q \in Seq(Entry), IsInjective(q), NEW kind
  PROVE  /\ Exchanges(t, q, Without(q, <<t, kind>>))
         /\ ToSet(Without(q, <<t, kind>>)) = ToSet(q) \ {<<t, kind>>}
         /\ \A x : Leads(q, x) /\ x # <<t, kind>> => Leads(Without(q, <<t, kind>>), x)
BY WithoutKeeps DEF Exchanges

LEMMA ExchangesJoin ==
  ASSUME NEW t \in Tasks, NEW q \in Seq(Entry), IsInjective(q), NEW kind \in Kinds, <<t, kind>> \notin ToSet(q)
  PROVE  /\ Exchanges(t, q, Append(q, <<t, kind>>))
         /\ ToSet(Append(q, <<t, kind>>)) = ToSet(q) \cup {<<t, kind>>}
         /\ \A x : Leads(q, x) => Leads(Append(q, <<t, kind>>), x)
<1>1. <<t, kind>> \in Entry
  BY DEF Entry, Kinds
<1>2. QED
  BY <1>1, JoinKeeps DEF Exchanges

\* One after the other.
LEMMA ExchangesBoth ==
  ASSUME NEW t, NEW q, NEW r, NEW p, Exchanges(t, q, r), Exchanges(t, r, p)
  PROVE  Exchanges(t, q, p)
BY DEF Exchanges

LEMMA ExchangesLeave ==
  ASSUME NEW t, NEW q \in Seq(Entry), IsInjective(q)
  PROVE  /\ Exchanges(t, q, Leave(q, t)) /\ \A kind \in Kinds : <<t, kind>> \notin ToSet(Leave(q, t))
<1> DEFINE r == Without(q, <<t, "outer">>)
<1>1. Exchanges(t, q, r) /\ ToSet(r) = ToSet(q) \ {<<t, "outer">>}
  BY ExchangesWithout
<1>2. r \in Seq(Entry) /\ IsInjective(r)
  BY <1>1 DEF Exchanges
<1> HIDE DEF r
<1>3. Exchanges(t, r, Without(r, <<t, "check">>)) /\ ToSet(Without(r, <<t, "check">>)) = ToSet(r) \ {<<t, "check">>}
  BY <1>2, ExchangesWithout
<1>4. Leave(q, t) = Without(r, <<t, "check">>)
  BY DEF Leave, r
<1>5. Exchanges(t, q, Leave(q, t))
  BY <1>1, <1>3, <1>4, ExchangesBoth
<1>6. QED
  BY <1>1, <1>3, <1>4, <1>5 DEF Kinds

\* The login queue left alone, joined, or left by t.
LEMMA ChangesSame ==
  ASSUME NEW t, NEW f \in Seq(Tasks), IsInjective(f)
  PROVE  Changes(t, f, f)
BY DEF Changes

LEMMA ChangesJoin ==
  ASSUME NEW t \in Tasks, NEW f \in Seq(Tasks), IsInjective(f), t \notin ToSet(f)
  PROVE  Changes(t, f, Append(f, t)) /\ t \in ToSet(Append(f, t))
BY JoinKeeps DEF Changes

LEMMA ChangesWithout ==
  ASSUME NEW t, NEW f \in Seq(Tasks), IsInjective(f)
  PROVE  Changes(t, f, Without(f, t)) /\ t \notin ToSet(Without(f, t))
BY WithoutKeeps DEF Changes

\* What the invariant says of the queues a coroutine is in.
LEMMA QueuesOf ==
  ASSUME IInv, NEW u \in Users, NEW t \in Tasks
  PROVE  /\ session[u] \in Seq(Entry) /\ IsInjective(session[u])
         /\ full \in Seq(Tasks) /\ IsInjective(full)
         /\ \A kind \in Kinds : <<t, kind>> \in ToSet(session[u]) <=> InQueue(task[t], kind, u)
         /\ t \in ToSet(full) <=> InFull(task[t])
BY DEF IInv, TypeOK, Distinct, Standing

-----------------------------------------------------------------------------
(* Ends, retries and validations.                                          *)

\* The other coroutines, some of which may have lost their token.
Others(t, others) ==
  /\ others \in [Tasks -> TaskState] /\ others[t] = task[t]
  /\ \A x \in Tasks \ {t} : others[x] = task[x] \/ others[x] = [task[x] EXCEPT !.stale = TRUE]

Rest == expired' \subseteq Users /\ cooling' \subseteq Users /\ nonLive' \in BOOLEAN

\* A coroutine that ends; the client of a login may be shared from then on.
LEMMA EndKeeps ==
  ASSUME IInv, NEW t \in Tasks, Busy(t), NEW others, Others(t, others), EndAmong(t, others), Rest,
         ready' = ready \/ (task[t].op = "login" /\ ready' = ready \cup {U(t)})
  PROVE  IInv'
<1>1. U(t) \in Users /\ task[t].op # "none"
  BY DEF IInv, Local, Busy, At, U
<1> DEFINE u == U(t)
           q == Leave(session[u], t)
           f == Without(full, t)
<1>2. Exchanges(t, session[u], q) /\ \A kind \in Kinds : <<t, kind>> \notin ToSet(q)
  BY <1>1, QueuesOf, ExchangesLeave
<1>3. Changes(t, full, f) /\ t \notin ToSet(f)
  BY <1>1, QueuesOf, ChangesWithout
<1>4. Idle \in TaskState
  BY ConstantsAssumption DEF Idle, TaskState, Points
<1>5. Local(Idle, ready') /\ ~Holding(Idle) /\ ~InFull(Idle) /\ (\A kind \in Kinds : ~InQueue(Idle, kind, u))
  BY <1>4 DEF Local, Idle, Holding, InFull, InQueue, Kinds
<1>6. ready' # ready => \A x \in Tasks \ {t} : ~LogsIn(task[x], u)
  BY <1>1 DEF IInv, LoginAlone, LogsIn, U
<1>7. /\ task' \in [Tasks -> TaskState] /\ task'[t] = Idle
      /\ \A x \in Tasks \ {t} : task'[x] = others[x]
      /\ session' = [session EXCEPT ![u] = q] /\ full' = f
  BY <1>4 DEF EndAmong, Others
<1> HIDE DEF q, f
<1>8. Turn(t, u, Idle, q, f)
  BY <1>6, <1>7 DEF Turn, Others, Rest, Idle
<1>9. QED
  BY <1>1, <1>2, <1>3, <1>5, <1>8, TurnKeeps DEF u

\* A request that begins its next attempt, in the queue or by recreating its HTTP session.
LEMMA AgainKeeps ==
  ASSUME IInv, NEW t \in Tasks, task[t].op = "request", NEW others, Others(t, others), NEW s \in TaskState,
         s.op = "request", s.user = U(t), s.level = "outer", s.stage = "stored",
         s.at = "queued" \/ (s.at = "renewing" /\ s.outer < MaxAttempts - 1),
         task' = [others EXCEPT ![t] = s],
         session' = [session EXCEPT ![U(t)] = Append(Leave(@, t), <<t, "outer">>)],
         full' = Without(full, t), Rest, ready' = ready
  PROVE  IInv'
<1>1. U(t) \in Users /\ U(t) \in ready
  BY DEF IInv, Local, U
<1> DEFINE u == U(t)
           r == Leave(session[u], t)
           q == Append(r, <<t, "outer">>)
           f == Without(full, t)
<1>2. Exchanges(t, session[u], r) /\ \A kind \in Kinds : <<t, kind>> \notin ToSet(r)
  BY <1>1, QueuesOf, ExchangesLeave
<1>3. Changes(t, full, f) /\ t \notin ToSet(f)
  BY <1>1, QueuesOf, ChangesWithout
<1>4. session' = [session EXCEPT ![u] = q] /\ full' = f
  BY <1>1 DEF IInv, TypeOK
<1> HIDE DEF r, f
<1>5. Exchanges(t, r, q) /\ ToSet(q) = ToSet(r) \cup {<<t, "outer">>}
  BY <1>2, ExchangesJoin DEF Kinds, Exchanges
<1> HIDE DEF q
<1>6. Exchanges(t, session[u], q)
  BY <1>2, <1>5, ExchangesBoth
<1>7. \A kind \in Kinds : <<t, kind>> \in ToSet(q) <=> InQueue(s, kind, u)
  BY <1>2, <1>5 DEF Kinds, InQueue
<1>8. Local(s, ready') /\ ~Holding(s) /\ ~InFull(s)
  BY <1>1 DEF Local, Holding, InFull
<1>9. Turn(t, u, s, q, f)
  BY <1>4 DEF Turn, Others, Rest
<1>10. QED
  BY <1>1, <1>3, <1>6, <1>7, <1>8, <1>9, TurnKeeps DEF u

\* A refreshed or new session that is to be validated by a request.
LEMMA CheckKeeps ==
  ASSUME IInv, NEW t \in Tasks, NEW others, Others(t, others), NEW stage \in {"refreshed", "full"},
         task[t].at = IF stage = "full" THEN "login" ELSE "refresh",
         task' = [others EXCEPT ![t].at = "queued", ![t].level = "check", ![t].inner = 0, ![t].stage = stage],
         session' = [session EXCEPT ![U(t)] = Append(@, <<t, "check">>)],
         full' = full, Rest, ready' = ready
  PROVE  IInv'
<1>1. /\ U(t) \in Users /\ task[t].op # "none" /\ task[t].level = "outer" /\ task[t].stage # "full"
      /\ task[t] \in TaskState /\ Local(task[t], ready)
  BY DEF IInv, Local, U
<1> DEFINE u == U(t)
           q == Append(session[u], <<t, "check">>)
           s == [task[t] EXCEPT !.at = "queued", !.level = "check", !.inner = 0, !.stage = stage]
<1>2. <<t, "check">> \notin ToSet(session[u])
  BY <1>1, QueuesOf DEF InQueue, Kinds
<1>3. Exchanges(t, session[u], q) /\ ToSet(q) = ToSet(session[u]) \cup {<<t, "check">>}
      /\ \A x : Leads(session[u], x) => Leads(q, x)
  BY <1>1, <1>2, QueuesOf, ExchangesJoin DEF Kinds
<1>4. Changes(t, full, full)
  BY <1>1, QueuesOf, ChangesSame
<1>5. /\ s \in TaskState /\ s.op = task[t].op /\ s.user = u /\ s.at = "queued" /\ s.level = "check"
      /\ s.stage = stage /\ s.inner = 0
  <2>1. 0 \in 0..MaxAttempts
    BY ConstantsAssumption
  <2>2. s \in TaskState
    BY <1>1, <2>1 DEF TaskState, Points
  <2>3. QED
    BY <1>1, <2>2 DEF TaskState, U
<1>6. /\ task' \in [Tasks -> TaskState] /\ task'[t] = s
      /\ \A x \in Tasks \ {t} : task'[x] = others[x]
  BY <1>5 DEF Others
<1>7. session' = [session EXCEPT ![u] = q]
  BY <1>1 DEF IInv, TypeOK
<1> HIDE DEF q, s
<1>8. /\ \A kind \in Kinds : <<t, kind>> \in ToSet(session[u]) <=> InQueue(task[t], kind, u)
      /\ t \in ToSet(full) <=> InFull(task[t])
  BY <1>1, QueuesOf
<1>9. \A kind \in Kinds : <<t, kind>> \in ToSet(q) <=> InQueue(s, kind, u)
  BY <1>1, <1>3, <1>5, <1>8 DEF InQueue, Kinds, U
<1>10. t \in ToSet(full) <=> InFull(s)
  BY <1>1, <1>5, <1>8 DEF InFull
<1>11. Holding(s) => Leads(q, <<t, HeldKind(s)>>)
  <2>1. Holding(s) => Holding(task[t]) /\ HeldKind(s) = HeldKind(task[t])
    BY <1>5 DEF Holding, HeldKind
  <2>2. QED
    BY <1>3, <2>1 DEF IInv, InFront
<1>12. Local(s, ready')
  BY <1>1, <1>5 DEF Local, U
<1>13. s.op = "login" => \A x \in Tasks \ {t} : ~LogsIn(task[x], u)
  BY <1>1, <1>5 DEF IInv, LoginAlone, LogsIn, U
<1>14. Turn(t, u, s, q, full)
  BY <1>5, <1>6, <1>7, <1>13 DEF Turn, Others, Rest
<1>15. QED
  BY <1>1, <1>3, <1>4, <1>9, <1>10, <1>11, <1>12, <1>14, TurnKeeps DEF u

\* A new session that is valid.
LEMMA ValidatedKeeps ==
  ASSUME IInv, NEW t \in Tasks, Busy(t), NEW others, Others(t, others), Validated(t, others),
         expired' \subseteq Users, nonLive' \in BOOLEAN
  PROVE  IInv'
<1>1. U(t) \in Users /\ task[t] \in TaskState /\ task[t].op \in {"request", "login"} /\ cooling \subseteq Users
  BY DEF IInv, TypeOK, Local, Busy, At, U, TaskState
<1>2. CASE task[t].op = "login"
  BY <1>1, <1>2, EndKeeps DEF Validated, Rest
<1>3. CASE task[t].op = "request" /\ ~(task[t].outer < MaxAttempts - 1)
  BY <1>1, <1>3, EndKeeps DEF Validated, Rest
<1>4. CASE task[t].op = "request" /\ task[t].outer < MaxAttempts - 1
  <2> DEFINE s == [Idle EXCEPT !.op = "request", !.user = U(t), !.at = "queued", !.outer = task[t].outer + 1]
  <2>1. s \in TaskState /\ s.op = "request" /\ s.user = U(t) /\ s.level = "outer" /\ s.stage = "stored" /\ s.at = "queued"
    <3>1. 0 \in 0..MaxAttempts /\ task[t].outer + 1 \in 0..MaxAttempts
      BY <1>1, <1>4, ConstantsAssumption DEF TaskState
    <3>2. /\ Idle \in TaskState
          /\ Idle.level = "outer" /\ Idle.stage = "stored" /\ Idle.inner = 0 /\ Idle.stale = FALSE
      BY ConstantsAssumption DEF Idle, TaskState, Points
    <3>3. QED
      BY <1>1, <3>1, <3>2 DEF TaskState, Points
  <2>2. /\ task' = [others EXCEPT ![t] = s]
        /\ session' = [session EXCEPT ![U(t)] = Append(Leave(@, t), <<t, "outer">>)]
        /\ full' = Without(full, t) /\ Rest /\ ready' = ready
    BY <1>1, <1>4 DEF Validated, Rest
  <2> HIDE DEF s
  <2>3. QED
    BY <1>4, <2>1, <2>2, AgainKeeps
<1>5. QED
  BY <1>1, <1>2, <1>3, <1>4

\* A refresh or full login that gave a session.
LEMMA ValidateKeeps ==
  ASSUME IInv, NEW t \in Tasks, NEW others, Others(t, others), NEW stage \in {"refreshed", "full"},
         task[t].at = IF stage = "full" THEN "login" ELSE "refresh",
         Validate(t, stage, others), expired' \subseteq Users, nonLive' \in BOOLEAN
  PROVE  IInv'
<1>1. CASE nonLive /\ Validated(t, others)
  BY <1>1, ValidatedKeeps DEF Busy, At
<1>2. CASE ~(nonLive /\ Validated(t, others))
  <2>1. cooling' \subseteq Users
    BY <1>2 DEF Validate, IInv, TypeOK
  <2>2. QED
    BY <1>2, <2>1, CheckKeeps DEF Validate, Rest
<1>3. QED
  BY <1>1, <1>2

\* One that did not.
LEMMA GiveUpKeeps ==
  ASSUME IInv, NEW t \in Tasks, Busy(t), GiveUp(t), expired' \subseteq Users, nonLive' \in BOOLEAN
  PROVE  IInv'
<1>1. /\ U(t) \in Users /\ task[t] \in TaskState /\ task[t].op \in {"request", "login"}
      /\ cooling \subseteq Users /\ task \in [Tasks -> TaskState]
  BY DEF IInv, TypeOK, Local, Busy, At, U, TaskState
<1>2. Others(t, task) /\ Rest /\ ready' = ready
  BY <1>1 DEF Others, Rest, GiveUp
<1>3. CASE End(t)
  BY <1>2, <1>3, EndKeeps DEF End
<1>4. CASE ~End(t)
  <2> DEFINE s == [task[t] EXCEPT !.at = "renewing", !.level = "outer", !.stage = "stored"]
  <2>1. /\ task[t].op = "request" /\ task[t].outer < MaxAttempts - 1
        /\ task' = [task EXCEPT ![t] = s]
        /\ session' = [session EXCEPT ![U(t)] = Append(Leave(@, t), <<t, "outer">>)]
        /\ full' = Without(full, t)
    BY <1>1, <1>4 DEF GiveUp
  <2>2. /\ s \in TaskState /\ s.op = "request" /\ s.user = U(t) /\ s.level = "outer" /\ s.stage = "stored"
        /\ s.at = "renewing" /\ s.outer < MaxAttempts - 1
    BY <1>1, <2>1 DEF TaskState, Points, U
  <2> HIDE DEF s
  <2>3. QED
    BY <1>2, <2>1, <2>2, AgainKeeps
<1>5. QED
  BY <1>3, <1>4

-----------------------------------------------------------------------------
(* The other steps of a coroutine.                                         *)

\* A step of t to s, for the same client, with no effect but on its places in the queues.
LEMMA OwnKeeps ==
  ASSUME IInv, NEW t \in Tasks, Busy(t), NEW s \in TaskState, s.op = task[t].op, s.user = U(t),
         NEW q, NEW f,
         task' = [task EXCEPT ![t] = s], session' = [session EXCEPT ![U(t)] = q], full' = f,
         ready' = ready, Rest,
         Exchanges(t, session[U(t)], q), Changes(t, full, f), Local(s, ready),
         \A kind \in Kinds : <<t, kind>> \in ToSet(q) <=> InQueue(s, kind, U(t)),
         t \in ToSet(f) <=> InFull(s),
         Holding(s) => Leads(q, <<t, HeldKind(s)>>)
  PROVE  IInv'
<1>1. U(t) \in Users /\ task[t].op # "none" /\ task \in [Tasks -> TaskState]
  BY DEF IInv, TypeOK, Local, Busy, At, U
<1>2. s.op = "login" => \A x \in Tasks \ {t} : ~LogsIn(task[x], U(t))
  BY <1>1 DEF IInv, LoginAlone, LogsIn, U
<1>3. Turn(t, U(t), s, q, f)
  BY <1>1, <1>2 DEF Turn, Rest
<1>4. QED
  BY <1>1, <1>3, TurnKeeps

\* The invariant seen from a coroutine at work.
LEMMA Working ==
  ASSUME IInv, NEW t \in Tasks, Busy(t)
  PROVE  /\ U(t) \in Users /\ U(t) = task[t].user /\ task[t].op \in {"request", "login"}
         /\ task[t] \in TaskState /\ Local(task[t], ready)
         /\ task[t].level \in Kinds /\ Me(t) = <<t, task[t].level>>
         /\ session[U(t)] \in Seq(Entry) /\ IsInjective(session[U(t)])
         /\ full \in Seq(Tasks) /\ IsInjective(full)
         /\ session = [session EXCEPT ![U(t)] = session[U(t)]]
         /\ \A kind \in Kinds : <<t, kind>> \in ToSet(session[U(t)]) <=> InQueue(task[t], kind, U(t))
         /\ t \in ToSet(full) <=> InFull(task[t])
         /\ Holding(task[t]) => Leads(session[U(t)], <<t, HeldKind(task[t])>>)
         /\ Exchanges(t, session[U(t)], session[U(t)]) /\ Changes(t, full, full)
         /\ cooling \subseteq Users /\ expired \subseteq Users /\ nonLive \in BOOLEAN
         /\ task \in [Tasks -> TaskState] /\ session \in [Users -> Seq(Entry)]
<1>1. /\ task[t] \in TaskState /\ Local(task[t], ready) /\ U(t) = task[t].user
      /\ task \in [Tasks -> TaskState] /\ session \in [Users -> Seq(Entry)]
      /\ cooling \subseteq Users /\ expired \subseteq Users /\ nonLive \in BOOLEAN
  BY DEF IInv, TypeOK, U
<1>2. /\ task[t].op \in {"request", "login"} /\ task[t].level \in Kinds /\ U(t) \in Users
      /\ Me(t) = <<t, task[t].level>>
  BY <1>1 DEF Local, Busy, At, TaskState, Kinds, Me
<1>3. /\ session[U(t)] \in Seq(Entry) /\ IsInjective(session[U(t)])
      /\ full \in Seq(Tasks) /\ IsInjective(full)
      /\ \A kind \in Kinds : <<t, kind>> \in ToSet(session[U(t)]) <=> InQueue(task[t], kind, U(t))
      /\ t \in ToSet(full) <=> InFull(task[t])
  BY <1>2, QueuesOf
<1>4. Holding(task[t]) => Leads(session[U(t)], <<t, HeldKind(task[t])>>)
  BY DEF IInv, InFront
<1>5. Exchanges(t, session[U(t)], session[U(t)]) /\ Changes(t, full, full)
  BY <1>3, ExchangesSame, ChangesSame
<1>6. session = [session EXCEPT ![U(t)] = session[U(t)]]
  BY <1>1, <1>2
<1>7. QED
  BY <1>1, <1>2, <1>3, <1>4, <1>5, <1>6

\* Whoever is granted the session lock has the entry that holds it: the request that
\* validates its new session never is, because its own entry is in front.
LEMMA SendKeeps ==
  ASSUME IInv, NEW t \in Tasks, Send(t)
  PROVE  IInv'
<1>1. Busy(t) /\ task[t].at = "queued"
  BY DEF Send, At, Busy
<1> DEFINE s == [task[t] EXCEPT !.at = "sent"]
<1>2. /\ s \in TaskState /\ s.op = task[t].op /\ s.user = U(t) /\ s.at = "sent" /\ s.level = task[t].level
      /\ s.stage = task[t].stage
  BY <1>1, Working DEF TaskState, Points
<1>3. task' = [task EXCEPT ![t] = s] /\ session' = session /\ full' = full /\ ready' = ready /\ Rest
  BY <1>1, Working DEF Send, Rest
<1> HIDE DEF s
<1>4. Leads(session[U(t)], Me(t))
  <2>1. Me(t) \in ToSet(session[U(t)])
    <3>1. InQueue(task[t], task[t].level, U(t))
      BY <1>1, Working DEF InQueue, Kinds, Local
    <3>2. task[t].level \in Kinds /\ Me(t) = <<t, task[t].level>>
      BY <1>1, Working
    <3>3. <<t, task[t].level>> \in ToSet(session[U(t)])
      BY <1>1, <3>1, <3>2, Working
    <3>4. QED
      BY <3>2, <3>3
  <2>2. session[U(t)] # <<>>
    BY <2>1 DEF ToSet
  <2>3. QED
    BY <2>2 DEF Send, Granted, Leads
<1>5. ~(task[t].op = "request" /\ task[t].level = "check")
  BY <1>1, <1>4, Working DEF Holding, HeldKind, Leads
<1>6. Local(s, ready)
  BY <1>1, <1>2, <1>5, Working DEF Local
<1>7. HeldKind(s) = task[t].level
  BY <1>1, <1>2, <1>5, Working DEF HeldKind, Local, Kinds
<1>8. /\ \A kind \in Kinds : InQueue(s, kind, U(t)) <=> InQueue(task[t], kind, U(t))
      /\ InFull(s) <=> InFull(task[t])
  BY <1>1, <1>2, Working DEF InQueue, InFull
<1>9. Leads(session[U(t)], <<t, HeldKind(s)>>)
  BY <1>1, <1>4, <1>7, Working
<1>10. QED
  <2>1. /\ session' = [session EXCEPT ![U(t)] = session[U(t)]]
        /\ Exchanges(t, session[U(t)], session[U(t)]) /\ Changes(t, full, full)
        /\ \A kind \in Kinds : <<t, kind>> \in ToSet(session[U(t)]) <=> InQueue(s, kind, U(t))
        /\ t \in ToSet(full) <=> InFull(s)
    BY <1>1, <1>3, <1>8, Working
  <2>2. QED
    BY <1>1, <1>2, <1>3, <1>6, <1>9, <2>1, OwnKeeps

\* An attempt that fails leaves the queue, and joins it to recreate the HTTP session.
LEMMA RetryKeeps ==
  ASSUME IInv, NEW t \in Tasks, RetryLater(t), Rest, ready' = ready,
         task[t].at = "sent" \/ (task[t].at = "refresh" /\ task[t].op = "request")
  PROVE  IInv'
<1>1. Busy(t)
  BY DEF At, Busy
<1> DEFINE s == [task[t] EXCEPT !.at = "renewing"]
           r == Without(session[U(t)], Me(t))
           q == Append(r, Me(t))
<1>2. /\ s \in TaskState /\ s.op = task[t].op /\ s.user = U(t) /\ s.at = "renewing" /\ s.level = task[t].level
      /\ s.stage = task[t].stage /\ s.outer = task[t].outer /\ s.inner = task[t].inner
  BY <1>1, Working DEF TaskState, Points
<1>3. task' = [task EXCEPT ![t] = s] /\ session' = [session EXCEPT ![U(t)] = q] /\ full' = full
  BY <1>1, Working DEF RetryLater
<1>m. /\ Me(t) = <<t, task[t].level>> /\ task[t].level \in Kinds
      /\ session[U(t)] \in Seq(Entry) /\ IsInjective(session[U(t)])
  BY <1>1, Working
<1>4. Exchanges(t, session[U(t)], r) /\ ToSet(r) = ToSet(session[U(t)]) \ {Me(t)}
  <2>1. r = Without(session[U(t)], <<t, task[t].level>>)
    BY DEF Me
  <2> HIDE DEF r
  <2>2. /\ Exchanges(t, session[U(t)], r)
        /\ ToSet(r) = ToSet(session[U(t)]) \ {<<t, task[t].level>>}
    BY <1>m, <2>1, ExchangesWithout
  <2>3. QED
    BY <1>m, <2>2
<1> HIDE DEF s, r
<1>5. Exchanges(t, r, q) /\ ToSet(q) = ToSet(r) \cup {Me(t)}
  <2>1. r \in Seq(Entry) /\ IsInjective(r) /\ Me(t) \notin ToSet(r)
    BY <1>4 DEF Exchanges
  <2>2. QED
    BY <1>m, <2>1, ExchangesJoin
<1> HIDE DEF q
<1>6. Exchanges(t, session[U(t)], q)
  BY <1>4, <1>5, ExchangesBoth
<1>7. InQueue(task[t], task[t].level, U(t))
  BY <1>1, Working DEF InQueue, Local, Kinds
<1>8. \A kind \in Kinds : <<t, kind>> \in ToSet(q) <=> InQueue(s, kind, U(t))
  BY <1>1, <1>2, <1>4, <1>5, <1>7, Working DEF InQueue, Kinds
<1>9. InFull(s) <=> InFull(task[t])
  BY <1>2 DEF InFull
<1>10. Local(s, ready)
  BY <1>1, <1>2, Working DEF Local, RetryLater, Tries, Kinds
<1>11. ~Holding(s)
  BY <1>1, <1>2, Working DEF Holding, Local
<1>12. QED
  BY <1>1, <1>2, <1>3, <1>6, <1>8, <1>9, <1>10, <1>11, Working, OwnKeeps

\* The HTTP session is recreated: the lock is free while the coroutine sleeps.
LEMMA RecreateKeeps ==
  ASSUME IInv, NEW t \in Tasks, Recreate(t)
  PROVE  IInv'
<1>1. Busy(t) /\ task[t].at = "renewing"
  BY DEF Recreate, At, Busy
<1> DEFINE s == [task[t] EXCEPT !.at = "resting"]
           q == Without(session[U(t)], <<t, task[t].level>>)
<1>2. /\ s \in TaskState /\ s.op = task[t].op /\ s.user = U(t) /\ s.at = "resting" /\ s.level = task[t].level
      /\ s.stage = task[t].stage /\ s.outer = task[t].outer /\ s.inner = task[t].inner
  BY <1>1, Working DEF TaskState, Points
<1>3. /\ task' = [task EXCEPT ![t] = s] /\ session' = [session EXCEPT ![U(t)] = q] /\ full' = full
      /\ ready' = ready /\ Rest
  BY <1>1, Working DEF Recreate, Rest, Me
<1>4. Exchanges(t, session[U(t)], q) /\ ToSet(q) = ToSet(session[U(t)]) \ {<<t, task[t].level>>}
  BY <1>1, Working, ExchangesWithout
<1> HIDE DEF s, q
<1>5. \A kind \in Kinds : <<t, kind>> \in ToSet(q) <=> InQueue(s, kind, U(t))
  <2>1. \A kind \in Kinds : InQueue(task[t], kind, U(t)) => kind = task[t].level
    BY <1>1, Working DEF InQueue, Kinds, Local
  <2>2. \A kind \in Kinds : <<t, kind>> \notin ToSet(q)
    BY <1>1, <1>4, <2>1, Working
  <2>3. QED
    BY <1>2, <2>2 DEF InQueue
<1>6. Local(s, ready) /\ ~Holding(s) /\ (InFull(s) <=> InFull(task[t]))
  BY <1>1, <1>2, Working DEF Local, Holding, InFull
<1>7. QED
  BY <1>1, <1>2, <1>3, <1>4, <1>5, <1>6, Working, OwnKeeps

\* The next attempt queues.
LEMMA RestedKeeps ==
  ASSUME IInv, NEW t \in Tasks, Rested(t)
  PROVE  IInv'
<1>1. Busy(t) /\ task[t].at = "resting"
  BY DEF Rested, At, Busy
<1> DEFINE s == [Retry(task[t]) EXCEPT !.at = "queued", !.stale = FALSE]
           q == Append(session[U(t)], <<t, task[t].level>>)
<1>2. /\ s \in TaskState /\ s.op = task[t].op /\ s.user = U(t) /\ s.at = "queued" /\ s.level = task[t].level
      /\ s.stage = task[t].stage
  <2>0. task[t] \in TaskState /\ Local(task[t], ready)
    BY <1>1, Working
  <2>1. /\ task[t].outer \in 0..MaxAttempts /\ task[t].inner \in 0..MaxAttempts
        /\ (IF task[t].level = "outer" THEN task[t].outer ELSE task[t].inner) < MaxAttempts - 1
    BY <1>1, <2>0 DEF TaskState, Local
  <2>2. CASE task[t].level = "outer"
    <3>1. task[t].outer + 1 \in 0..MaxAttempts
      BY <2>1, <2>2, ConstantsAssumption
    <3>2. QED
      BY <1>1, <2>2, <3>1, Working DEF TaskState, Points, Retry
  <2>3. CASE task[t].level = "check"
    <3>1. task[t].inner + 1 \in 0..MaxAttempts
      BY <2>1, <2>3, ConstantsAssumption
    <3>2. QED
      BY <1>1, <2>3, <3>1, Working DEF TaskState, Points, Retry
  <2>4. QED
    BY <1>1, <2>2, <2>3, Working DEF Kinds
<1>3. /\ task' = [task EXCEPT ![t] = s] /\ session' = [session EXCEPT ![U(t)] = q] /\ full' = full
      /\ ready' = ready /\ Rest
  BY <1>1, Working DEF Rested, Rest, Me
<1>4. Exchanges(t, session[U(t)], q) /\ ToSet(q) = ToSet(session[U(t)]) \cup {<<t, task[t].level>>}
  <2>1. <<t, task[t].level>> \notin ToSet(session[U(t)])
    BY <1>1, Working DEF InQueue
  <2>2. QED
    BY <1>1, <2>1, Working, ExchangesJoin
<1> HIDE DEF s, q
<1>5. \A kind \in Kinds : <<t, kind>> \in ToSet(q) <=> InQueue(s, kind, U(t))
  <2>1. \A kind \in Kinds : InQueue(s, kind, U(t)) <=> kind = task[t].level
    BY <1>1, <1>2, Working DEF InQueue, Kinds, Local
  <2>2. \A kind \in Kinds : <<t, kind>> \notin ToSet(session[U(t)])
    BY <1>1, Working DEF InQueue
  <2>3. QED
    BY <1>4, <2>1, <2>2
<1>6. Local(s, ready) /\ (InFull(s) <=> InFull(task[t]))
  BY <1>1, <1>2, Working DEF Local, InFull
<1>7. ~Holding(s)
  BY <1>1, <1>2, Working DEF Holding, Local
<1>8. QED
  BY <1>1, <1>2, <1>3, <1>4, <1>5, <1>6, <1>7, Working, OwnKeeps

\* A coroutine that moves on and keeps its places: to refresh, or from the captcha to the login.
LEMMA MoveKeeps ==
  ASSUME IInv, NEW t \in Tasks, Busy(t), NEW at,
         (task[t].at = "sent" /\ task[t].level = "outer" /\ at = "refresh")
           \/ (task[t].at = "captcha" /\ at = "login"),
         task' = [task EXCEPT ![t].at = at], session' = session, full' = full, ready' = ready, Rest
  PROVE  IInv'
<1> DEFINE s == [task[t] EXCEPT !.at = at]
<1>1. /\ s \in TaskState /\ s.op = task[t].op /\ s.user = U(t) /\ s.at = at /\ s.level = task[t].level
      /\ s.stage = task[t].stage
  BY Working DEF TaskState, Points
<1>2. task' = [task EXCEPT ![t] = s]
  BY Working
<1> HIDE DEF s
<1>3. /\ session' = [session EXCEPT ![U(t)] = session[U(t)]]
      /\ Exchanges(t, session[U(t)], session[U(t)]) /\ Changes(t, full, full)
  BY Working
<1>4. /\ \A kind \in Kinds : <<t, kind>> \in ToSet(session[U(t)]) <=> InQueue(s, kind, U(t))
      /\ t \in ToSet(full) <=> InFull(s)
  BY <1>1, Working DEF InQueue, InFull
<1>5. Local(s, ready)
  BY <1>1, Working DEF Local
<1>6. Holding(s) => Leads(session[U(t)], <<t, HeldKind(s)>>)
  <2>1. Holding(s) => Holding(task[t]) /\ HeldKind(s) = HeldKind(task[t])
    BY <1>1, Working DEF Holding, HeldKind
  <2>2. QED
    BY <2>1, Working
<1>7. QED
  BY <1>1, <1>2, <1>3, <1>4, <1>5, <1>6, OwnKeeps

\* A refresh that failed, before the captcha login.
LEMMA CaptchaKeeps ==
  ASSUME IInv, NEW t \in Tasks, task[t].at = "refresh",
         task' = [task EXCEPT ![t].at = "captcha"], session' = session, full' = Append(full, t), ready' = ready, Rest
  PROVE  IInv'
<1>0. Busy(t)
  BY DEF Busy, At
<1> DEFINE s == [task[t] EXCEPT !.at = "captcha"]
           f == Append(full, t)
<1>1. /\ s \in TaskState /\ s.op = task[t].op /\ s.user = U(t) /\ s.at = "captcha" /\ s.level = task[t].level
      /\ s.stage = task[t].stage
  BY <1>0, Working DEF TaskState, Points
<1>2. task' = [task EXCEPT ![t] = s] /\ full' = f
  BY <1>0, Working
<1> HIDE DEF s
<1>3. /\ session' = [session EXCEPT ![U(t)] = session[U(t)]]
      /\ Exchanges(t, session[U(t)], session[U(t)])
  BY <1>0, Working
<1>4. Changes(t, full, f) /\ t \in ToSet(f)
  <2>1. t \notin ToSet(full)
    BY <1>0, Working DEF InFull, Local
  <2>2. QED
    BY <1>0, <2>1, Working, ChangesJoin
<1> HIDE DEF f
<1>5. \A kind \in Kinds : <<t, kind>> \in ToSet(session[U(t)]) <=> InQueue(s, kind, U(t))
  BY <1>0, <1>1, Working DEF InQueue
<1>6. Local(s, ready) /\ InFull(s)
  BY <1>0, <1>1, Working DEF Local, InFull
<1>7. Holding(s) => Leads(session[U(t)], <<t, HeldKind(s)>>)
  <2>1. Holding(s) => Holding(task[t]) /\ HeldKind(s) = HeldKind(task[t])
    BY <1>0, <1>1, Working DEF Holding, HeldKind, Local
  <2>2. QED
    BY <1>0, <2>1, Working
<1>8. QED
  BY <1>0, <1>1, <1>2, <1>3, <1>4, <1>5, <1>6, <1>7, OwnKeeps

\* A login whose validation fails for good: the entry of the validation goes, and the
\* login refreshes what was stored, or takes the captcha after a refresh.
LEMMA FallBackKeeps ==
  ASSUME IInv, NEW t \in Tasks, CheckSent(t), NEW at, NEW f,
         (task[t].stage = "stored" /\ at = "refresh" /\ f = full)
           \/ (task[t].stage = "refreshed" /\ at = "captcha" /\ f = Append(full, t)),
         task' = [task EXCEPT ![t].at = at, ![t].level = "outer"],
         session' = [session EXCEPT ![U(t)] = Without(@, Me(t))], full' = f, ready' = ready, Rest
  PROVE  IInv'
<1>1. Busy(t) /\ task[t].at = "sent" /\ task[t].level = "check"
  BY DEF CheckSent, At, Busy
<1> DEFINE s == [task[t] EXCEPT !.at = at, !.level = "outer"]
           q == Without(session[U(t)], <<t, "check">>)
<1>2. /\ s \in TaskState /\ s.op = task[t].op /\ s.user = U(t) /\ s.at = at /\ s.level = "outer"
      /\ s.stage = task[t].stage /\ at \in {"refresh", "captcha"}
  BY <1>1, Working DEF TaskState, Points
<1>3. task' = [task EXCEPT ![t] = s] /\ session' = [session EXCEPT ![U(t)] = q]
  BY <1>1, Working DEF Me
<1>4. Exchanges(t, session[U(t)], q) /\ ToSet(q) = ToSet(session[U(t)]) \ {<<t, "check">>}
  <2>1. session[U(t)] \in Seq(Entry) /\ IsInjective(session[U(t)])
    BY <1>1, Working
  <2>2. QED
    BY <2>1, ExchangesWithout
<1> HIDE DEF s, q
<1>5. task[t].op = "login"
  BY <1>1, Working DEF Local
<1>6. \A kind \in Kinds : <<t, kind>> \in ToSet(q) <=> InQueue(s, kind, U(t))
  BY <1>1, <1>2, <1>4, <1>5, Working DEF InQueue, Kinds
<1>7. Changes(t, full, f) /\ (t \in ToSet(f) <=> InFull(s))
  <2>1. t \notin ToSet(full)
    BY <1>1, Working DEF InFull
  <2>2. CASE task[t].stage = "stored" /\ at = "refresh" /\ f = full
    BY <1>1, <1>2, <2>1, <2>2, Working DEF InFull
  <2>3. CASE task[t].stage = "refreshed" /\ at = "captcha" /\ f = Append(full, t)
    <3>1. InFull(s)
      BY <1>2, <2>3 DEF InFull
    <3>2. Changes(t, full, Append(full, t)) /\ t \in ToSet(Append(full, t))
      BY <1>1, <2>1, Working, ChangesJoin
    <3>3. QED
      BY <2>3, <3>1, <3>2
  <2>4. QED
    BY <2>2, <2>3
<1>8. Local(s, ready) /\ ~Holding(s)
  BY <1>1, <1>2, <1>5, Working DEF Local, Holding
<1>9. QED
  BY <1>1, <1>2, <1>3, <1>4, <1>6, <1>7, <1>8, OwnKeeps

\* What begins from rest is well typed.
LEMMA IdleTyped ==
  Idle \in TaskState /\ Idle.level = "outer" /\ Idle.stage = "stored"
BY ConstantsAssumption DEF Idle, TaskState, Points

\* A request of a client that is shared.
LEMMA BeginRequestKeeps ==
  ASSUME IInv, NEW t \in Tasks, NEW u \in Users, BeginRequest(t, u)
  PROVE  IInv'
<1> DEFINE s == [Idle EXCEPT !.op = "request", !.user = u, !.at = "queued"]
           q == Append(session[u], <<t, "outer">>)
<1>1. /\ task[t].op = "none" /\ task[t].at = "idle" /\ Local(task[t], ready) /\ task \in [Tasks -> TaskState] /\ u \in ready
  BY DEF IInv, TypeOK, Local, BeginRequest, Busy, At
<1>2. /\ s \in TaskState /\ s.op = "request" /\ s.user = u /\ s.at = "queued" /\ s.level = "outer" /\ s.stage = "stored"
  <2>1. s \in TaskState
    BY IdleTyped DEF TaskState, Points
  <2>2. QED
    BY <2>1, IdleTyped DEF TaskState
<1>3. task' = [task EXCEPT ![t] = s] /\ session' = [session EXCEPT ![u] = q] /\ full' = full /\ ready' = ready /\ Rest
  BY DEF BeginRequest, Rest, IInv, TypeOK
<1>4. /\ session[u] \in Seq(Entry) /\ IsInjective(session[u]) /\ Changes(t, full, full)
      /\ \A kind \in Kinds : <<t, kind>> \in ToSet(session[u]) <=> InQueue(task[t], kind, u)
      /\ t \in ToSet(full) <=> InFull(task[t])
  BY QueuesOf, ChangesSame
<1>5. \A kind \in Kinds : <<t, kind>> \notin ToSet(session[u])
  BY <1>1, <1>4 DEF InQueue, Local, Kinds
<1>6. Exchanges(t, session[u], q) /\ ToSet(q) = ToSet(session[u]) \cup {<<t, "outer">>}
  BY <1>4, <1>5, ExchangesJoin DEF Kinds
<1> HIDE DEF s, q
<1>7. \A kind \in Kinds : <<t, kind>> \in ToSet(q) <=> InQueue(s, kind, u)
  BY <1>2, <1>5, <1>6 DEF InQueue, Kinds
<1>8. Local(s, ready') /\ ~Holding(s) /\ (t \in ToSet(full) <=> InFull(s))
  BY <1>1, <1>2, <1>3, <1>4 DEF Local, Holding, InFull
<1>9. Turn(t, u, s, q, full)
  BY <1>1, <1>2, <1>3 DEF Turn, Rest
<1>10. QED
  BY <1>4, <1>6, <1>7, <1>8, <1>9, TurnKeeps

\* A login, unless another one of that client is going on.
LEMMA BeginLoginKeeps ==
  ASSUME IInv, NEW t \in Tasks, NEW u \in Users, BeginLogin(t, u)
  PROVE  IInv'
<1>1. /\ task[t].op = "none" /\ task[t].at = "idle" /\ task[t].level = "outer" /\ task[t].stage = "stored"
      /\ Local(task[t], ready) /\ task \in [Tasks -> TaskState] /\ task[t] \in TaskState /\ u \notin ready
  BY DEF IInv, TypeOK, Local, BeginLogin, Busy, At
<1>2. \A x \in Tasks : ~LogsIn(task[x], u)
  BY DEF BeginLogin, LoggingIn, LogsIn, U
<1>3. /\ session[u] \in Seq(Entry) /\ IsInjective(session[u]) /\ full \in Seq(Tasks) /\ IsInjective(full)
      /\ \A kind \in Kinds : <<t, kind>> \in ToSet(session[u]) <=> InQueue(task[t], kind, u)
      /\ t \in ToSet(full) <=> InFull(task[t])
      /\ Exchanges(t, session[u], session[u]) /\ Changes(t, full, full)
  BY QueuesOf, ExchangesSame, ChangesSame
<1>4. t \notin ToSet(full) /\ \A kind \in Kinds : <<t, kind>> \notin ToSet(session[u])
  BY <1>1, <1>3 DEF InQueue, InFull, Kinds
<1>5. Rest /\ session = [session EXCEPT ![u] = session[u]] /\ session \in [Users -> Seq(Entry)]
  BY DEF BeginLogin, Rest, IInv, TypeOK
<1> DEFINE s == [Idle EXCEPT !.op = "login", !.user = u]
           s1 == [s EXCEPT !.at = "queued", !.level = "check"]
           s3 == [s EXCEPT !.at = "captcha"]
           q == Append(session[u], <<t, "check">>)
           f == Append(full, t)
<1>6. /\ s1 \in TaskState /\ s1.op = "login" /\ s1.user = u /\ s1.at = "queued" /\ s1.level = "check" /\ s1.stage = "stored"
      /\ s3 \in TaskState /\ s3.op = "login" /\ s3.user = u /\ s3.at = "captcha" /\ s3.level = "outer" /\ s3.stage = "stored"
  <2>1. s \in TaskState /\ s.op = "login" /\ s.user = u /\ s.level = "outer" /\ s.stage = "stored"
    BY IdleTyped DEF TaskState
  <2> HIDE DEF s
  <2>2. s1 \in TaskState /\ s3 \in TaskState
    BY <2>1 DEF TaskState, Points
  <2>3. QED
    BY <2>1, <2>2 DEF TaskState
<1>7. \/ task' = [task EXCEPT ![t] = s1] /\ session' = [session EXCEPT ![u] = q] /\ full' = full /\ ready' = ready
      \/ ready' = ready \cup {u} /\ task' = task /\ session' = session /\ full' = full
      \/ task' = [task EXCEPT ![t] = s3] /\ full' = f /\ session' = session /\ ready' = ready
  BY <1>5 DEF BeginLogin
<1>8. Exchanges(t, session[u], q) /\ ToSet(q) = ToSet(session[u]) \cup {<<t, "check">>}
  BY <1>3, <1>4, ExchangesJoin DEF Kinds
<1>9. Changes(t, full, f) /\ t \in ToSet(f)
  BY <1>3, <1>4, ChangesJoin
<1> HIDE DEF s1, s3, q, f
<1>10. CASE task' = [task EXCEPT ![t] = s1] /\ session' = [session EXCEPT ![u] = q] /\ full' = full /\ ready' = ready
  <2>1. \A kind \in Kinds : <<t, kind>> \in ToSet(q) <=> InQueue(s1, kind, u)
    BY <1>4, <1>6, <1>8 DEF InQueue, Kinds
  <2>2. Local(s1, ready') /\ ~Holding(s1) /\ ~InFull(s1)
    BY <1>1, <1>6, <1>10 DEF Local, Holding, InFull
  <2>3. Turn(t, u, s1, q, full)
    BY <1>1, <1>2, <1>5, <1>6, <1>10 DEF Turn, Rest
  <2>4. QED
    BY <1>3, <1>4, <1>8, <2>1, <2>2, <2>3, TurnKeeps
<1>11. CASE ready' = ready \cup {u} /\ task' = task /\ session' = session /\ full' = full
  <2>1. Local(task[t], ready') /\ ~Holding(task[t])
    BY <1>1, <1>11 DEF Local, Holding
  <2>2. Turn(t, u, task[t], session[u], full)
    BY <1>1, <1>2, <1>5, <1>11 DEF Turn, Rest
  <2>3. QED
    BY <1>3, <2>1, <2>2, TurnKeeps
<1>12. CASE task' = [task EXCEPT ![t] = s3] /\ full' = f /\ session' = session /\ ready' = ready
  <2>1. \A kind \in Kinds : <<t, kind>> \in ToSet(session[u]) <=> InQueue(s3, kind, u)
    BY <1>4, <1>6 DEF InQueue, Kinds
  <2>2. Local(s3, ready') /\ ~Holding(s3) /\ InFull(s3)
    BY <1>1, <1>6, <1>12 DEF Local, Holding, InFull
  <2>3. Turn(t, u, s3, session[u], f)
    BY <1>1, <1>2, <1>5, <1>6, <1>12 DEF Turn, Rest
  <2>4. QED
    BY <1>3, <1>9, <2>1, <2>2, <2>3, TurnKeeps
<1>13. QED
  BY <1>7, <1>10, <1>11, <1>12

-----------------------------------------------------------------------------
(* Every step keeps the invariant.                                         *)

\* A coroutine that ends and shares nothing.
LEMMA EndsKeeps ==
  ASSUME IInv, NEW t \in Tasks, Busy(t), End(t), UNCHANGED <<ready, expired, cooling, nonLive>>
  PROVE  IInv'
<1>1. Others(t, task) /\ Rest
  BY Working DEF Others, Rest
<1>2. QED
  BY <1>1, EndKeeps DEF End

\* A refresh, a full login or a validation, in whatever way it comes out.
LEMMA RenewalKeeps ==
  ASSUME IInv, NEW t \in Tasks,
         Refresh(t) \/ RefreshBreaks(t) \/ FullLogin(t) \/ LoggedIn(t) \/ LoginFails(t)
           \/ CheckAnswered(t) \/ CheckBreaks(t)
  PROVE  IInv'
<1>0. Busy(t)
  BY DEF Refresh, RefreshBreaks, FullLogin, LoggedIn, LoginFails, CheckAnswered, CheckBreaks, CheckSent, Busy, At
<1>1. /\ Others(t, task) /\ task \in [Tasks -> TaskState]
      /\ expired \subseteq Users /\ cooling \subseteq Users /\ nonLive \in BOOLEAN
  BY <1>0, Working DEF Others
<1>2. CASE Refresh(t)
  <2>1. task[t].at = "refresh" /\ expired' \subseteq Users /\ nonLive' \in BOOLEAN
    BY <1>1, <1>2 DEF Refresh, At
  <2>2. CASE Validate(t, "refreshed", task)
    BY <1>1, <2>1, <2>2, ValidateKeeps
  <2>3. CASE FullLoginOrGiveUp(t)
    <3>1. CASE U(t) \in CaptchaUsers
      BY <1>1, <2>1, <2>3, <3>1, CaptchaKeeps DEF FullLoginOrGiveUp, Rest
    <3>2. CASE U(t) \notin CaptchaUsers
      BY <1>0, <2>1, <2>3, <3>2, GiveUpKeeps DEF FullLoginOrGiveUp
    <3>3. QED
      BY <3>1, <3>2
  <2>4. QED
    BY <1>2, <2>2, <2>3 DEF Refresh
<1>3. CASE RefreshBreaks(t)
  <2>1. CASE End(t)
    BY <1>0, <1>3, <2>1, EndsKeeps DEF RefreshBreaks
  <2>2. CASE task[t].op = "request" /\ RetryLater(t)
    BY <1>1, <1>3, <2>2, RetryKeeps DEF RefreshBreaks, Rest, At
  <2>3. QED
    BY <1>3, <2>1, <2>2 DEF RefreshBreaks
<1>4. CASE FullLogin(t)
  BY <1>0, <1>1, <1>4, MoveKeeps DEF FullLogin, Rest, At
<1>5. CASE LoggedIn(t)
  <2> DEFINE others == [x \in Tasks |->
               IF x # t /\ U(x) = U(t) /\ At(x, "queued") THEN [task[x] EXCEPT !.stale = TRUE] ELSE task[x]]
  <2>1. Others(t, others)
    <3>1. ASSUME NEW x \in Tasks PROVE others[x] \in TaskState
      BY <1>1 DEF TaskState
    <3>2. QED
      BY <3>1 DEF Others
  <2>2. /\ Validate(t, "full", others) /\ task[t].at = "login"
        /\ expired' \subseteq Users /\ nonLive' \in BOOLEAN
    BY <1>1, <1>5 DEF LoggedIn, At
  <2> HIDE DEF others
  <2>3. QED
    BY <2>1, <2>2, ValidateKeeps
<1>6. CASE LoginFails(t)
  BY <1>0, <1>1, <1>6, GiveUpKeeps DEF LoginFails
<1>7. CASE CheckAnswered(t)
  BY <1>0, <1>1, <1>7, ValidatedKeeps DEF CheckAnswered
<1>8. CASE CheckBreaks(t)
  <2>0. CheckSent(t) /\ task[t].at = "sent" /\ expired' \subseteq Users /\ nonLive' \in BOOLEAN
    BY <1>1, <1>8 DEF CheckBreaks, CheckSent, At
  <2>1. CASE RetryLater(t) /\ UNCHANGED <<ready, cooling>>
    BY <1>1, <2>0, <2>1, RetryKeeps DEF Rest
  <2>2. CASE GiveUp(t)
    BY <1>0, <2>0, <2>2, GiveUpKeeps
  <2>3. CASE ~(RetryLater(t) /\ UNCHANGED <<ready, cooling>>) /\ ~GiveUp(t)
    <3>1. CASE task[t].stage = "stored"
      BY <1>1, <1>8, <2>0, <2>3, <3>1, FallBackKeeps DEF CheckBreaks, Rest
    <3>2. CASE task[t].stage # "stored"
      BY <1>1, <1>8, <2>0, <2>3, <3>2, FallBackKeeps DEF CheckBreaks, Rest
    <3>3. QED
      BY <3>1, <3>2
  <2>4. QED
    BY <2>1, <2>2, <2>3
<1>9. QED
  BY <1>2, <1>3, <1>4, <1>5, <1>6, <1>7, <1>8

\* The cool-down, the broker and the clock touch neither coroutines nor queues.
LEMMA OutsideKeeps ==
  ASSUME IInv, UNCHANGED <<task, session, full, ready>>, Rest
  PROVE  IInv'
BY DEF IInv, TypeOK, Rest, Distinct, Standing, InFront, LoginAlone, U

\* The invariant is inductive.
LEMMA InductiveStep == IInv /\ [Next]_vars => IInv'
<1> SUFFICES ASSUME IInv, [Next]_vars PROVE IInv'
  OBVIOUS
<1>0. expired \subseteq Users /\ cooling \subseteq Users /\ nonLive \in BOOLEAN
  BY DEF IInv, TypeOK
<1>1. CASE UNCHANGED vars
  BY <1>0, <1>1, OutsideKeeps DEF vars, Rest
<1>2. ASSUME NEW u \in Users, CooldownEnds(u) PROVE IInv'
  BY <1>0, <1>2, OutsideKeeps DEF CooldownEnds, Rest
<1>3. ASSUME NEW u \in Users, TokenExpires(u) PROVE IInv'
  BY <1>0, <1>3, OutsideKeeps DEF TokenExpires, Rest
<1>4. CASE MarketOpensOrCloses
  BY <1>0, <1>4, OutsideKeeps DEF MarketOpensOrCloses, Rest
<1>5. ASSUME NEW t \in Tasks, NEW u \in Users, BeginLogin(t, u) \/ BeginRequest(t, u) PROVE IInv'
  BY <1>5, BeginLoginKeeps, BeginRequestKeeps
<1>6. ASSUME NEW t \in Tasks, Cancel(t) PROVE IInv'
  BY <1>6, EndsKeeps DEF Cancel
<1>7. ASSUME NEW t \in Tasks, TaskStep(t) PROVE IInv'
  <2>1. CASE Send(t) \/ Recreate(t) \/ Rested(t)
    BY <2>1, SendKeeps, RecreateKeeps, RestedKeeps
  <2>2. CASE Answered(t)
    BY <2>2, EndsKeeps DEF Answered, OuterSent, At, Busy
  <2>3. CASE RequestBreaks(t)
    <3>1. CASE End(t)
      BY <2>3, <3>1, EndsKeeps DEF RequestBreaks, OuterSent, At, Busy
    <3>2. CASE RetryLater(t)
      BY <1>0, <2>3, <3>2, RetryKeeps DEF RequestBreaks, OuterSent, At, Rest
    <3>3. QED
      BY <2>3, <3>1, <3>2 DEF RequestBreaks
  <2>4. CASE Unauthorized(t)
    <3>1. CASE End(t)
      BY <2>4, <3>1, EndsKeeps DEF Unauthorized, OuterSent, At, Busy
    <3>2. CASE ~End(t)
      BY <1>0, <2>4, <3>2, MoveKeeps DEF Unauthorized, OuterSent, At, Busy, Rest
    <3>3. QED
      BY <3>1, <3>2
  <2>5. CASE Refresh(t) \/ RefreshBreaks(t) \/ FullLogin(t) \/ LoggedIn(t) \/ LoginFails(t)
               \/ CheckAnswered(t) \/ CheckBreaks(t)
    BY <2>5, RenewalKeeps
  <2>6. QED
    BY <1>7, <2>1, <2>2, <2>3, <2>4, <2>5 DEF TaskStep
<1>8. QED
  BY <1>1, <1>2, <1>3, <1>4, <1>5, <1>6, <1>7 DEF Next

-----------------------------------------------------------------------------
(* Theorems.                                                               *)

\* The entries and the holders are those the invariant names.
LEMMA InductiveLocks == IInv => LocksFollowTasks
<1> SUFFICES ASSUME IInv PROVE LocksFollowTasks
  OBVIOUS
<1>1. ASSUME NEW u \in Users, NEW e \in ToSet(session[u]) PROVE Busy(e[1]) /\ U(e[1]) = u
  <2>1. session[u] \in Seq(Entry)
    BY DEF IInv, TypeOK
  <2>2. e \in Entry
    BY <2>1 DEF ToSet
  <2>3. PICK t \in Tasks, kind \in Kinds : e = <<t, kind>>
    BY <2>2 DEF Entry, Kinds
  <2>4. InQueue(task[t], kind, u) /\ Local(task[t], ready) /\ e[1] = t
    BY <2>3 DEF IInv, Standing
  <2>5. QED
    BY <2>3, <2>4 DEF InQueue, Local, Busy, At, U
<1>2. ASSUME NEW t \in Tasks, Holding(task[t]) PROVE Holds(t, U(t))
  BY <1>2 DEF IInv, InFront, Leads, Holds
<1>3. QED
  BY <1>1, <1>2 DEF IInv, Distinct, Standing, Holding, InFull, LocksFollowTasks, At

\* The locks, of any number of coroutines and clients, are left on every path: an entry
\* belongs to a coroutine at work on that client, and who renews a token holds its lock.
THEOREM LocksFollowEver == Spec => []LocksFollowTasks
<1>1. QED
  BY InductiveInit, InductiveStep, InductiveLocks, PTL DEF Spec

\* Two coroutines at the broker for one client are never both there: the one that is a
\* request, or the only login, holds the lock.
LEMMA InductiveWire == IInv => OneOnTheWire
<1> SUFFICES ASSUME IInv, NEW t1 \in Tasks, NEW t2 \in Tasks, t1 # t2, U(t1) = U(t2),
                    task[t1].at \in {"sent", "refresh", "captcha", "login"},
                    task[t2].at \in {"sent", "refresh", "captcha", "login"}
             PROVE  FALSE
  BY DEF OneOnTheWire
<1>1. \A t \in {t1, t2} : /\ Local(task[t], ready) /\ task[t].op \in {"request", "login"}
                          /\ task[t].user = U(t1) /\ U(t1) \in Users
  BY DEF IInv, TypeOK, TaskState, Local, U
<1>2. CASE task[t1].op = "login" /\ task[t2].op = "login"
  BY <1>1, <1>2 DEF IInv, LoginAlone, LogsIn
<1>3. CASE task[t1].op # task[t2].op
  BY <1>1, <1>3 DEF Local
<1>4. CASE task[t1].op = "request" /\ task[t2].op = "request"
  <2>1. Holding(task[t1]) /\ Holding(task[t2]) /\ HeldKind(task[t1]) = "outer" /\ HeldKind(task[t2]) = "outer"
    BY <1>4 DEF Holding, HeldKind
  <2>2. Leads(session[U(t1)], <<t1, "outer">>) /\ Leads(session[U(t1)], <<t2, "outer">>)
    BY <2>1 DEF IInv, InFront
  <2>3. QED
    BY <2>2 DEF Leads
<1>5. QED
  BY <1>1, <1>2, <1>3, <1>4

\* While the token of a client is renewed nobody else has a request of it on the wire, for
\* any number of coroutines, clients and attempts.
THEOREM OneOnTheWireEver == Spec => []OneOnTheWire
<1>1. QED
  BY InductiveInit, InductiveStep, InductiveWire, PTL DEF Spec

\* Type correctness.
THEOREM TypeCorrect == Spec => []TypeOK
<1>1. IInv => TypeOK
  BY DEF IInv
<1>2. QED
  BY <1>1, InductiveInit, InductiveStep, PTL DEF Spec
=============================================================================
