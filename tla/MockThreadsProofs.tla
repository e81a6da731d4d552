-------------------------- MODULE MockThreadsProofs --------------------------
(***************************************************************************)
(* Concurrent and reentrant calls, proved for every number of threads,     *)
(* mocks and expectations and every nesting of calls: who holds which lock *)
(* and which pointers, that some call goes on, that matches do not become  *)
(* stale, and that a call is one step of Expectations.                     *)
(***************************************************************************)
EXTENDS MockThreads, ExpectationsProofs, SequenceTheorems,
        WellFoundedInduction

\* handle_call has taken the mutex of its collection.
Holds(f) == f.phase # "lock"

LocksTyped ==
    /\ mutex \in [Mocks -> Threads \cup {Free}]
    /\ stack \in [Threads -> Seq(Frames)]
    /\ calls \in Nat

\* A call that got past its lock owns the mutex; only the innermost call of a
\* thread waits for one.
CallsOwnTheirLocks ==
    \A t \in Threads : \A i \in DOMAIN stack[t] :
        /\ Holds(stack[t][i]) => mutex[stack[t][i].mock] = t
        /\ i > 1 => Holds(stack[t][i])

\* The mutex is not recursive: no two calls of a thread hold the same one.
LocksAreDistinct ==
    \A t \in Threads : \A i, j \in DOMAIN stack[t] :
        /\ Holds(stack[t][i]) /\ Holds(stack[t][j])
        /\ stack[t][i].mock = stack[t][j].mock
        => i = j

\* Only the outermost call of a thread was not made by a callback.
OutermostFromThread ==
    \A t \in Threads : \A i \in DOMAIN stack[t] :
        stack[t][i].from = "thread" <=> i = Len(stack[t])

\* A taken mutex is the one of an unfinished call of its owner.
LocksAreOfCalls ==
    \A m \in Mocks : mutex[m] # Free =>
        \E i \in DOMAIN stack[mutex[m]] :
            /\ Holds(stack[mutex[m]][i])
            /\ stack[mutex[m]][i].mock = m

LockInv ==
    /\ LocksTyped
    /\ CallsOwnTheirLocks
    /\ LocksAreDistinct
    /\ OutermostFromThread
    /\ LocksAreOfCalls

-----------------------------------------------------------------------------
\* What the updates of a stack of calls do.
LEMMA ReplaceHead ==
    ASSUME NEW S, NEW s \in Seq(S), Len(s) > 0, NEW f \in S
    PROVE  /\ <<f>> \o Tail(s) \in Seq(S)
           /\ Len(<<f>> \o Tail(s)) = Len(s)
           /\ (<<f>> \o Tail(s))[1] = f
           /\ \A i \in 2 .. Len(s) : (<<f>> \o Tail(s))[i] = s[i]
OBVIOUS

LEMMA PushHead ==
    ASSUME NEW S, NEW s \in Seq(S), Len(s) > 0, NEW f \in S, NEW g \in S
    PROVE  /\ <<g, f>> \o Tail(s) \in Seq(S)
           /\ Len(<<g, f>> \o Tail(s)) = Len(s) + 1
           /\ (<<g, f>> \o Tail(s))[1] = g
           /\ (<<g, f>> \o Tail(s))[2] = f
           /\ \A i \in 3 .. (Len(s) + 1) : (<<g, f>> \o Tail(s))[i] = s[i - 1]
OBVIOUS

LEMMA PopHead ==
    ASSUME NEW S, NEW s \in Seq(S), Len(s) > 0
    PROVE  /\ Tail(s) \in Seq(S)
           /\ Len(Tail(s)) = Len(s) - 1
           /\ \A i \in 1 .. (Len(s) - 1) : Tail(s)[i] = s[i + 1]
OBVIOUS

LEMMA PopHeadReplaceNext ==
    ASSUME NEW S, NEW s \in Seq(S), Len(s) > 1, NEW f \in S
    PROVE  /\ <<f>> \o Tail(Tail(s)) \in Seq(S)
           /\ Len(<<f>> \o Tail(Tail(s))) = Len(s) - 1
           /\ (<<f>> \o Tail(Tail(s)))[1] = f
           /\ \A i \in 2 .. (Len(s) - 1) :
                 (<<f>> \o Tail(Tail(s)))[i] = s[i + 1]
<1> DEFINE r == Tail(s)
           q == <<f>> \o Tail(r)
<1>1. Len(s) > 0 /\ Len(s) \in Nat
  OBVIOUS
<1>2. /\ r \in Seq(S) /\ Len(r) = Len(s) - 1
      /\ \A i \in 1 .. (Len(s) - 1) : r[i] = s[i + 1]
  BY <1>1, PopHead
<1>3. Len(r) > 0
  BY <1>1, <1>2
<1> HIDE DEF r
<1>4. /\ q \in Seq(S) /\ Len(q) = Len(r) /\ q[1] = f
      /\ \A i \in 2 .. Len(r) : q[i] = r[i]
  BY <1>2, <1>3, ReplaceHead
<1> HIDE DEF q
<1>5. /\ q \in Seq(S) /\ Len(q) = Len(s) - 1 /\ q[1] = f
      /\ \A i \in 2 .. (Len(s) - 1) : q[i] = s[i + 1]
  BY <1>1, <1>2, <1>4
<1> QED BY <1>5, Zenon DEF q, r

\* The newest of some expectations is one of them, and no other is newer.
LEMMA NewestExists ==
    ASSUME NEW n \in Nat, NEW S \in SUBSET (1 .. n), S # {}
    PROVE  Max(S) \in S /\ \A e \in S : e <= Max(S)
<1> DEFINE T == {n - e : e \in S}
<1>1. T \subseteq Nat /\ T # {}
  OBVIOUS
<1>2. PICK x \in T : \A y \in T : ~(<<y, x>> \in OpToRel(<, Nat))
  BY <1>1, NatLessThanWellFounded, WFMin
<1>3. PICK newest \in S : x = n - newest
  OBVIOUS
<1>4. \A e \in S : newest >= e
  <2> SUFFICES ASSUME NEW e \in S, ~(newest >= e) PROVE FALSE
    OBVIOUS
  <2>1. n - e \in T /\ n - e < x /\ x \in Nat /\ n - e \in Nat
    BY <1>3
  <2>2. <<n - e, x>> \in OpToRel(<, Nat)
    BY <2>1 DEF OpToRel
  <2> QED BY <1>2, <2>1, <2>2
<1>5. \E m \in S : \A e \in S : m >= e
  BY <1>4
<1> QED BY <1>5 DEF Max

-----------------------------------------------------------------------------
\* The innermost call of a thread that has begun one.
LEMMA TopFacts ==
    ASSUME LocksTyped, NEW t \in Threads
    PROVE  /\ stack[t] \in Seq(Frames)
           /\ Len(stack[t]) \in Nat
           /\ DOMAIN stack[t] = 1 .. Len(stack[t])
           /\ \A i \in DOMAIN stack[t] : stack[t][i] \in Frames
           /\ Busy(t) => /\ Len(stack[t]) > 0
                         /\ 1 \in DOMAIN stack[t]
                         /\ Top(t) = stack[t][1]
                         /\ Top(t) \in Frames
<1>1. stack[t] \in Seq(Frames)
  BY DEF LocksTyped
<1> QED BY <1>1 DEF Busy, Top

\* The innermost call goes on, without letting go of its lock.
LEMMA GoOnResult ==
    ASSUME LocksTyped, NEW t \in Threads, Busy(t), NEW f \in Frames, GoOn(t, f)
    PROVE  /\ stack' \in [Threads -> Seq(Frames)]
           /\ \A u \in Threads : u # t => stack'[u] = stack[u]
           /\ Len(stack'[t]) = Len(stack[t])
           /\ DOMAIN stack'[t] = 1 .. Len(stack[t])
           /\ stack'[t][1] = f
           /\ \A i \in 2 .. Len(stack[t]) : stack'[t][i] = stack[t][i]
<1> DEFINE r == <<f>> \o Tail(stack[t])
<1>1. stack[t] \in Seq(Frames) /\ Len(stack[t]) > 0 /\ Len(stack[t]) \in Nat
  BY TopFacts
<1>2. /\ r \in Seq(Frames) /\ Len(r) = Len(stack[t]) /\ r[1] = f
      /\ \A i \in 2 .. Len(stack[t]) : r[i] = stack[t][i]
  BY <1>1, ReplaceHead
<1>3. stack' = [stack EXCEPT ![t] = r] /\ stack \in [Threads -> Seq(Frames)]
  BY DEF GoOn, LocksTyped
<1> HIDE DEF r
<1>4. stack' \in [Threads -> Seq(Frames)] /\ stack'[t] = r
  BY <1>2, <1>3
<1>5. \A u \in Threads : u # t => stack'[u] = stack[u]
  BY <1>3
<1> QED BY <1>2, <1>4, <1>5

\* The locks, action by action.
LEMMA GoOnKeepsLocks ==
    ASSUME LockInv, NEW t \in Threads, Busy(t), Holds(Top(t)),
           NEW f \in Frames, Holds(f),
           f.mock = Top(t).mock, f.from = Top(t).from,
           GoOn(t, f), UNCHANGED <<mutex, calls>>
    PROVE  LockInv'
<1>1. LocksTyped
  BY DEF LockInv
<1>2. /\ Len(stack[t]) > 0 /\ Len(stack[t]) \in Nat
      /\ DOMAIN stack[t] = 1 .. Len(stack[t]) /\ Top(t) = stack[t][1]
  BY <1>1, TopFacts
<1>3. /\ stack' \in [Threads -> Seq(Frames)]
      /\ \A u \in Threads : u # t => stack'[u] = stack[u]
      /\ Len(stack'[t]) = Len(stack[t])
      /\ DOMAIN stack'[t] = DOMAIN stack[t]
      /\ stack'[t][1] = f
      /\ \A i \in DOMAIN stack[t] : i # 1 => stack'[t][i] = stack[t][i]
  BY <1>1, <1>2, GoOnResult
<1>4. \A u \in Threads :
         /\ DOMAIN stack'[u] = DOMAIN stack[u]
         /\ Len(stack'[u]) = Len(stack[u])
         /\ \A i \in DOMAIN stack[u] :
               /\ Holds(stack'[u][i]) <=> Holds(stack[u][i])
               /\ stack'[u][i].mock = stack[u][i].mock
               /\ stack'[u][i].from = stack[u][i].from
  <2>1. \A i \in DOMAIN stack[t] :
           /\ Holds(stack'[t][i]) <=> Holds(stack[t][i])
           /\ stack'[t][i].mock = stack[t][i].mock
           /\ stack'[t][i].from = stack[t][i].from
    BY <1>2, <1>3
  <2> QED BY <1>3, <2>1
<1>5. LocksTyped'
  BY <1>1, <1>3 DEF LocksTyped
<1>6. CallsOwnTheirLocks'
  BY <1>4 DEF LockInv, CallsOwnTheirLocks
<1>7. LocksAreDistinct'
  BY <1>4 DEF LockInv, LocksAreDistinct
<1>8. OutermostFromThread'
  BY <1>4 DEF LockInv, OutermostFromThread
<1>9. LocksAreOfCalls'
  <2> SUFFICES ASSUME NEW m \in Mocks, mutex[m] # Free
               PROVE  \E i \in DOMAIN stack'[mutex[m]] :
                         /\ Holds(stack'[mutex[m]][i])
                         /\ stack'[mutex[m]][i].mock = m
    BY DEF LocksAreOfCalls
  <2>1. mutex[m] \in Threads
    BY <1>1 DEF LocksTyped
  <2>2. PICK i \in DOMAIN stack[mutex[m]] :
            Holds(stack[mutex[m]][i]) /\ stack[mutex[m]][i].mock = m
    BY DEF LockInv, LocksAreOfCalls
  <2> QED BY <1>4, <2>1, <2>2
<1> QED BY <1>5, <1>6, <1>7, <1>8, <1>9 DEF LockInv

\* The innermost call takes its lock.
LEMMA LockKeepsLocks ==
    ASSUME LockInv, DOMAIN exps \subseteq Nat, NEW t \in Threads, Lock(t)
    PROVE  LockInv'
<1> DEFINE f == [Top(t) EXCEPT !.phase = "evaluate", !.todo = Live(Top(t).mock)]
           m == Top(t).mock
<1>1. LocksTyped /\ Busy(t) /\ Top(t).phase = "lock" /\ mutex[m] = Free
  BY DEF LockInv, Lock
<1>2. /\ Len(stack[t]) > 0 /\ Len(stack[t]) \in Nat
      /\ DOMAIN stack[t] = 1 .. Len(stack[t]) /\ Top(t) = stack[t][1]
      /\ Top(t) \in Frames /\ m \in Mocks
  BY <1>1, TopFacts DEF Frames
<1>3. /\ f \in Frames /\ f.mock = m /\ f.from = Top(t).from /\ Holds(f)
  <2>1. Live(m) \in SUBSET Nat
    BY DEF Live
  <2> QED BY <1>2, <2>1 DEF Frames, Phases, Holds
<1>4. /\ stack' \in [Threads -> Seq(Frames)]
      /\ \A u \in Threads : u # t => stack'[u] = stack[u]
      /\ Len(stack'[t]) = Len(stack[t])
      /\ DOMAIN stack'[t] = DOMAIN stack[t]
      /\ stack'[t][1] = f
      /\ \A i \in DOMAIN stack[t] : i # 1 => stack'[t][i] = stack[t][i]
  <2>1. GoOn(t, f)
    BY DEF Lock
  <2> HIDE DEF f
  <2> QED BY <1>1, <1>2, <1>3, <2>1, GoOnResult
<1> HIDE DEF f
<1>5. mutex' = [mutex EXCEPT ![m] = t] /\ calls' = calls
  BY DEF Lock
<1>6. \A n \in Mocks : /\ n = m => mutex'[n] = t
                       /\ n # m => mutex'[n] = mutex[n]
  BY <1>1, <1>5 DEF LocksTyped
<1>7. LocksTyped'
  BY <1>1, <1>2, <1>4, <1>5 DEF LocksTyped
\* Nobody held m so far.
<1>8. \A u \in Threads : \A i \in DOMAIN stack[u] :
         Holds(stack[u][i]) => stack[u][i].mock # m
  BY <1>1, ThreadsAssumption DEF LockInv, CallsOwnTheirLocks
<1>9. \A u \in Threads : \A i \in DOMAIN stack[u] : stack[u][i].mock \in Mocks
  BY <1>1, TopFacts DEF Frames
<1>10. CallsOwnTheirLocks'
  <2> SUFFICES ASSUME NEW u \in Threads, NEW i \in DOMAIN stack'[u]
               PROVE  /\ Holds(stack'[u][i]) => mutex'[stack'[u][i].mock] = u
                      /\ i > 1 => Holds(stack'[u][i])
    BY DEF CallsOwnTheirLocks
  <2>1. CASE u = t /\ i = 1
    BY <1>2, <1>3, <1>4, <1>6, <2>1
  <2>2. CASE u # t \/ i # 1
    <3>1. stack'[u][i] = stack[u][i] /\ i \in DOMAIN stack[u]
      BY <1>4, <2>2
    <3>2. /\ Holds(stack[u][i]) => mutex[stack[u][i].mock] = u
          /\ i > 1 => Holds(stack[u][i])
      BY <3>1 DEF LockInv, CallsOwnTheirLocks
    <3> QED BY <1>6, <1>8, <1>9, <3>1, <3>2
  <2> QED BY <2>1, <2>2
<1>11. LocksAreDistinct'
  <2> SUFFICES ASSUME NEW u \in Threads,
                      NEW i \in DOMAIN stack'[u], NEW j \in DOMAIN stack'[u],
                      Holds(stack'[u][i]), Holds(stack'[u][j]),
                      stack'[u][i].mock = stack'[u][j].mock
               PROVE  i = j
    BY DEF LocksAreDistinct
  <2>1. CASE u # t
    BY <1>4, <2>1 DEF LockInv, LocksAreDistinct
  <2>2. CASE u = t /\ i # 1 /\ j # 1
    BY <1>4, <2>2 DEF LockInv, LocksAreDistinct
  <2>3. CASE u = t /\ (i = 1 \/ j = 1)
    BY <1>3, <1>4, <1>8, <2>3
  <2> QED BY <2>1, <2>2, <2>3
<1>12. OutermostFromThread'
  <2> SUFFICES ASSUME NEW u \in Threads, NEW i \in DOMAIN stack'[u]
               PROVE  stack'[u][i].from = "thread" <=> i = Len(stack'[u])
    BY DEF OutermostFromThread
  <2>1. /\ stack'[u][i].from = stack[u][i].from /\ i \in DOMAIN stack[u]
        /\ Len(stack'[u]) = Len(stack[u])
    BY <1>2, <1>3, <1>4
  <2> QED BY <2>1 DEF LockInv, OutermostFromThread
<1>13. LocksAreOfCalls'
  <2> SUFFICES ASSUME NEW n \in Mocks, mutex'[n] # Free
               PROVE  \E i \in DOMAIN stack'[mutex'[n]] :
                         /\ Holds(stack'[mutex'[n]][i])
                         /\ stack'[mutex'[n]][i].mock = n
    BY DEF LocksAreOfCalls
  <2>1. CASE n = m
    BY <1>2, <1>3, <1>4, <1>6, <2>1
  <2>2. CASE n # m
    <3>1. mutex'[n] = mutex[n] /\ mutex[n] \in Threads
      BY <1>1, <1>6, <2>2 DEF LocksTyped
    <3>2. PICK i \in DOMAIN stack[mutex[n]] :
              Holds(stack[mutex[n]][i]) /\ stack[mutex[n]][i].mock = n
      BY <3>1 DEF LockInv, LocksAreOfCalls
    <3>3. stack'[mutex[n]][i] = stack[mutex[n]][i]
      BY <1>1, <1>2, <1>4, <2>2, <3>1, <3>2 DEF Holds
    <3> QED BY <1>4, <3>1, <3>2, <3>3
  <2> QED BY <2>1, <2>2
<1> QED BY <1>7, <1>10, <1>11, <1>12, <1>13 DEF LockInv

\* A callback makes a call: a new frame on top, which waits for its lock.
LEMMA CallBackResult ==
    ASSUME LocksTyped, DOMAIN exps \subseteq Nat, NEW t \in Threads,
           NEW place \in Places, NEW m \in Mocks, NEW a \in Args,
           CallBack(t, place, m, a)
    PROVE  /\ Frame(m, a, place) \in Frames
           /\ LET g == Interrupted(Top(t), place)
              IN  /\ g \in Frames /\ Holds(g) /\ Holds(Top(t))
                  /\ g.mock = Top(t).mock /\ g.from = Top(t).from
                  /\ stack' \in [Threads -> Seq(Frames)]
                  /\ \A u \in Threads : u # t => stack'[u] = stack[u]
                  /\ Len(stack'[t]) = Len(stack[t]) + 1
                  /\ stack'[t][1] = Frame(m, a, place)
                  /\ stack'[t][2] = g
                  /\ \A i \in 3 .. (Len(stack[t]) + 1) :
                        stack'[t][i] = stack[t][i - 1]
<1> DEFINE g == Interrupted(Top(t), place)
           c == Frame(m, a, place)
           r == <<c, g>> \o Tail(stack[t])
<1>1. /\ stack[t] \in Seq(Frames) /\ Len(stack[t]) > 0 /\ Len(stack[t]) \in Nat
      /\ Top(t) = stack[t][1] /\ Top(t) \in Frames /\ AtPlace(Top(t), place)
  BY TopFacts DEF CallBack
<1>2. c \in Frames
  BY DEF Frame, Frames, Places, Phases
<1>3. /\ g \in Frames /\ Holds(g) /\ Holds(Top(t))
      /\ g.mock = Top(t).mock /\ g.from = Top(t).from
  <2> DEFINE f == Top(t)
  <2>1. f \in Frames /\ AtPlace(f, place)
    BY <1>1
  <2> HIDE DEF f
  <2>2. CASE place = "matcher"
    BY <2>1, <2>2 DEF Interrupted, AtPlace, CallFromMatcher, Frames, Phases, Holds, f
  <2>3. CASE place = "side_effect"
    BY <2>1, <2>3 DEF Interrupted, AtPlace, Frames, Phases, Holds, f
  <2>4. CASE place = "finalizer"
    BY <2>1, <2>4 DEF Interrupted, AtPlace, Frames, Phases, Holds, f
  <2> QED BY <2>2, <2>3, <2>4 DEF Places
<1>4. stack' = [stack EXCEPT ![t] = r] /\ stack \in [Threads -> Seq(Frames)]
  BY DEF CallBack, LocksTyped
<1> HIDE DEF g, c
<1>5. /\ r \in Seq(Frames) /\ Len(r) = Len(stack[t]) + 1
      /\ r[1] = c /\ r[2] = g
      /\ \A i \in 3 .. (Len(stack[t]) + 1) : r[i] = stack[t][i - 1]
  BY <1>1, <1>2, <1>3, PushHead
<1> HIDE DEF r
<1>6. /\ stack' \in [Threads -> Seq(Frames)] /\ stack'[t] = r
      /\ \A u \in Threads : u # t => stack'[u] = stack[u]
  BY <1>4, <1>5
<1> QED BY <1>2, <1>3, <1>5, <1>6 DEF g, c

LEMMA CallBackKeepsLocks ==
    ASSUME LockInv, DOMAIN exps \subseteq Nat, NEW t \in Threads,
           NEW place \in Places, NEW m \in Mocks, NEW a \in Args,
           CallBack(t, place, m, a)
    PROVE  LockInv'
<1> DEFINE n == Len(stack[t])
<1>1. LocksTyped /\ Busy(t) /\ mutex' = mutex /\ calls' = calls
  BY DEF LockInv, CallBack
<1>2. n > 0 /\ n \in Nat /\ DOMAIN stack[t] = 1 .. n /\ Top(t) = stack[t][1]
  BY <1>1, TopFacts
<1>3. /\ stack' \in [Threads -> Seq(Frames)]
      /\ \A u \in Threads : u # t => stack'[u] = stack[u]
      /\ Len(stack'[t]) = n + 1
  BY <1>1, CallBackResult
<1>4. DOMAIN stack'[t] = 1 .. (n + 1)
  BY <1>2, <1>3
\* Every call but the new one is as it was, one place further down.
<1>5. \A i \in 2 .. (n + 1) :
         /\ i - 1 \in DOMAIN stack[t]
         /\ Holds(stack'[t][i]) <=> Holds(stack[t][i - 1])
         /\ stack'[t][i].mock = stack[t][i - 1].mock
         /\ stack'[t][i].from = stack[t][i - 1].from
  <2> SUFFICES ASSUME NEW i \in 2 .. (n + 1)
               PROVE  /\ i - 1 \in DOMAIN stack[t]
                      /\ Holds(stack'[t][i]) <=> Holds(stack[t][i - 1])
                      /\ stack'[t][i].mock = stack[t][i - 1].mock
                      /\ stack'[t][i].from = stack[t][i - 1].from
    OBVIOUS
  <2>1. CASE i = 2
    BY <1>1, <1>2, <2>1, CallBackResult
  <2>2. CASE i # 2
    BY <1>1, <1>2, <2>2, CallBackResult
  <2> QED BY <2>1, <2>2
<1>6. /\ ~Holds(stack'[t][1]) /\ stack'[t][1].from # "thread"
      /\ Holds(stack'[t][2])
  <2>1. stack'[t][1] = Frame(m, a, place) /\ Holds(stack'[t][2])
    BY <1>1, CallBackResult
  <2> QED BY <2>1 DEF Frame, Holds, Places
<1>7. LocksTyped'
  BY <1>1, <1>3 DEF LocksTyped
<1>8. CallsOwnTheirLocks'
  <2> SUFFICES ASSUME NEW u \in Threads, NEW i \in DOMAIN stack'[u]
               PROVE  /\ Holds(stack'[u][i]) => mutex[stack'[u][i].mock] = u
                      /\ i > 1 => Holds(stack'[u][i])
    BY <1>1 DEF CallsOwnTheirLocks
  <2>1. CASE u # t
    BY <1>3, <2>1 DEF LockInv, CallsOwnTheirLocks
  <2>2. CASE u = t /\ i = 1
    BY <1>6, <2>2
  <2>3. CASE u = t /\ i # 1
    <3>1. i \in 2 .. (n + 1)
      BY <1>2, <1>4, <2>3
    <3>2. Holds(stack[t][i - 1]) => mutex[stack[t][i - 1].mock] = t
      BY <1>5, <3>1 DEF LockInv, CallsOwnTheirLocks
    <3>3. Holds(stack'[t][i])
      <4>1. CASE i = 2
        BY <1>6, <4>1
      <4>2. CASE i # 2
        BY <1>5, <3>1, <4>2 DEF LockInv, CallsOwnTheirLocks
      <4> QED BY <4>1, <4>2
    <3> QED BY <1>5, <2>3, <3>1, <3>2, <3>3
  <2> QED BY <2>1, <2>2, <2>3
<1>9. LocksAreDistinct'
  <2> SUFFICES ASSUME NEW u \in Threads,
                      NEW i \in DOMAIN stack'[u], NEW j \in DOMAIN stack'[u],
                      Holds(stack'[u][i]), Holds(stack'[u][j]),
                      stack'[u][i].mock = stack'[u][j].mock
               PROVE  i = j
    BY DEF LocksAreDistinct
  <2>1. CASE u # t
    BY <1>3, <2>1 DEF LockInv, LocksAreDistinct
  <2>2. CASE u = t
    <3>1. i \in 2 .. (n + 1) /\ j \in 2 .. (n + 1)
      BY <1>2, <1>4, <1>6, <2>2
    <3>2. i - 1 = j - 1
      BY <1>5, <2>2, <3>1 DEF LockInv, LocksAreDistinct
    <3> QED BY <3>1, <3>2
  <2> QED BY <2>1, <2>2
<1>10. OutermostFromThread'
  <2> SUFFICES ASSUME NEW u \in Threads, NEW i \in DOMAIN stack'[u]
               PROVE  stack'[u][i].from = "thread" <=> i = Len(stack'[u])
    BY DEF OutermostFromThread
  <2>1. CASE u # t
    BY <1>3, <2>1 DEF LockInv, OutermostFromThread
  <2>2. CASE u = t /\ i = 1
    BY <1>2, <1>3, <1>6, <2>2
  <2>3. CASE u = t /\ i # 1
    <3>1. i \in 2 .. (n + 1)
      BY <1>2, <1>4, <2>3
    <3>2. stack[t][i - 1].from = "thread" <=> i - 1 = n
      BY <1>5, <3>1 DEF LockInv, OutermostFromThread
    <3> QED BY <1>2, <1>3, <1>5, <2>3, <3>1, <3>2
  <2> QED BY <2>1, <2>2, <2>3
<1>11. LocksAreOfCalls'
  <2> SUFFICES ASSUME NEW k \in Mocks, mutex[k] # Free
               PROVE  \E i \in DOMAIN stack'[mutex[k]] :
                         /\ Holds(stack'[mutex[k]][i])
                         /\ stack'[mutex[k]][i].mock = k
    BY <1>1 DEF LocksAreOfCalls
  <2>1. mutex[k] \in Threads
    BY <1>1 DEF LocksTyped
  <2>2. PICK i \in DOMAIN stack[mutex[k]] :
            Holds(stack[mutex[k]][i]) /\ stack[mutex[k]][i].mock = k
    BY DEF LockInv, LocksAreOfCalls
  <2>3. CASE mutex[k] # t
    BY <1>3, <2>1, <2>2, <2>3
  <2>4. CASE mutex[k] = t
    <3>1. i + 1 \in 2 .. (n + 1) /\ (i + 1) - 1 = i
      BY <1>2, <2>2, <2>4
    <3>2. Holds(stack'[t][i + 1]) /\ stack'[t][i + 1].mock = k
      BY <1>5, <2>2, <2>4, <3>1
    <3> QED BY <1>4, <2>4, <3>1, <3>2
  <2> QED BY <2>3, <2>4
<1> QED BY <1>7, <1>8, <1>9, <1>10, <1>11 DEF LockInv

\* The innermost call ends: its lock is released, and every other call is in
\* the same place of the call chain, with the lock it had.
PoppedFrom(t) ==
    /\ stack' \in [Threads -> Seq(Frames)]
    /\ \A u \in Threads : u # t => stack'[u] = stack[u]
    /\ Len(stack'[t]) = Len(stack[t]) - 1
    /\ \A i \in 1 .. (Len(stack[t]) - 1) :
          /\ Holds(stack'[t][i])
          /\ stack'[t][i].mock = stack[t][i + 1].mock
          /\ stack'[t][i].from = stack[t][i + 1].from

LEMMA PopKeepsLocks ==
    ASSUME LockInv, NEW t \in Threads, Busy(t), Holds(Top(t)),
           PoppedFrom(t), Unlock(Top(t).mock), UNCHANGED calls
    PROVE  LockInv'
<1> DEFINE n == Len(stack[t])
           m == Top(t).mock
<1>1. LocksTyped
  BY DEF LockInv
<1>2. /\ n > 0 /\ n \in Nat /\ DOMAIN stack[t] = 1 .. n
      /\ Top(t) = stack[t][1] /\ m \in Mocks
  BY <1>1, TopFacts DEF Frames
<1>3. /\ stack' \in [Threads -> Seq(Frames)]
      /\ \A u \in Threads : u # t => stack'[u] = stack[u]
      /\ Len(stack'[t]) = n - 1
      /\ DOMAIN stack'[t] = 1 .. (n - 1)
  BY <1>2 DEF PoppedFrom
<1>4. \A i \in 1 .. (n - 1) :
         /\ i + 1 \in DOMAIN stack[t]
         /\ Holds(stack'[t][i]) /\ Holds(stack[t][i + 1])
         /\ stack'[t][i].mock = stack[t][i + 1].mock
         /\ stack'[t][i].from = stack[t][i + 1].from
  BY <1>2 DEF PoppedFrom, LockInv, CallsOwnTheirLocks
<1>5. mutex' = [mutex EXCEPT ![m] = Free] /\ calls' = calls
  BY DEF Unlock
<1> HIDE DEF m
<1>6. \A k \in Mocks : /\ k = m => mutex'[k] = Free
                       /\ k # m => mutex'[k] = mutex[k]
  BY <1>1, <1>5 DEF LocksTyped
<1>7. LocksTyped'
  BY <1>1, <1>3, <1>5 DEF LocksTyped
<1>8. mutex[m] = t
  BY <1>2 DEF LockInv, CallsOwnTheirLocks, m
<1>9. \A u \in Threads : \A i \in DOMAIN stack[u] : stack[u][i].mock \in Mocks
  BY <1>1, TopFacts DEF Frames
<1>10. CallsOwnTheirLocks'
  <2> SUFFICES ASSUME NEW u \in Threads, NEW i \in DOMAIN stack'[u]
               PROVE  /\ Holds(stack'[u][i]) => mutex'[stack'[u][i].mock] = u
                      /\ i > 1 => Holds(stack'[u][i])
    BY DEF CallsOwnTheirLocks
  <2>1. CASE u # t
    BY <1>3, <1>6, <1>8, <1>9, <2>1 DEF LockInv, CallsOwnTheirLocks
  <2>2. CASE u = t
    <3>1. i \in 1 .. (n - 1)
      BY <1>3, <2>2
    <3>2. mutex[stack[t][i + 1].mock] = t
      BY <1>4, <3>1 DEF LockInv, CallsOwnTheirLocks
    <3>3. stack[t][i + 1].mock # m
      <4>1. i + 1 # 1 /\ i + 1 \in DOMAIN stack[t] /\ 1 \in DOMAIN stack[t]
        BY <1>2, <3>1
      <4> QED BY <1>2, <1>4, <3>1, <4>1 DEF LockInv, LocksAreDistinct, m
    <3> QED BY <1>4, <1>6, <1>9, <2>2, <3>1, <3>2, <3>3
  <2> QED BY <2>1, <2>2
<1>11. LocksAreDistinct'
  <2> SUFFICES ASSUME NEW u \in Threads,
                      NEW i \in DOMAIN stack'[u], NEW j \in DOMAIN stack'[u],
                      Holds(stack'[u][i]), Holds(stack'[u][j]),
                      stack'[u][i].mock = stack'[u][j].mock
               PROVE  i = j
    BY DEF LocksAreDistinct
  <2>1. CASE u # t
    BY <1>3, <2>1 DEF LockInv, LocksAreDistinct
  <2>2. CASE u = t
    <3>1. i \in 1 .. (n - 1) /\ j \in 1 .. (n - 1)
      BY <1>3, <2>2
    <3>2. i + 1 = j + 1
      BY <1>4, <2>2, <3>1 DEF LockInv, LocksAreDistinct
    <3> QED BY <3>1, <3>2
  <2> QED BY <2>1, <2>2
<1>12. OutermostFromThread'
  <2> SUFFICES ASSUME NEW u \in Threads, NEW i \in DOMAIN stack'[u]
               PROVE  stack'[u][i].from = "thread" <=> i = Len(stack'[u])
    BY DEF OutermostFromThread
  <2>1. CASE u # t
    BY <1>3, <2>1 DEF LockInv, OutermostFromThread
  <2>2. CASE u = t
    <3>1. i \in 1 .. (n - 1)
      BY <1>3, <2>2
    <3>2. stack[t][i + 1].from = "thread" <=> i + 1 = n
      BY <1>4, <3>1 DEF LockInv, OutermostFromThread
    <3> QED BY <1>2, <1>3, <1>4, <2>2, <3>1, <3>2
  <2> QED BY <2>1, <2>2
<1>13. LocksAreOfCalls'
  <2> SUFFICES ASSUME NEW k \in Mocks, mutex'[k] # Free
               PROVE  \E i \in DOMAIN stack'[mutex'[k]] :
                         /\ Holds(stack'[mutex'[k]][i])
                         /\ stack'[mutex'[k]][i].mock = k
    BY DEF LocksAreOfCalls
  <2>1. k # m /\ mutex'[k] = mutex[k] /\ mutex[k] # Free /\ mutex[k] \in Threads
    BY <1>1, <1>6 DEF LocksTyped
  <2>2. PICK i \in DOMAIN stack[mutex[k]] :
            Holds(stack[mutex[k]][i]) /\ stack[mutex[k]][i].mock = k
    BY <2>1 DEF LockInv, LocksAreOfCalls
  <2>3. CASE mutex[k] # t
    BY <1>3, <2>1, <2>2, <2>3
  <2>4. CASE mutex[k] = t
    <3>1. i # 1
      BY <1>2, <2>1, <2>2, <2>4 DEF m
    <3>2. i - 1 \in 1 .. (n - 1) /\ (i - 1) + 1 = i
      BY <1>2, <2>2, <2>4, <3>1
    <3> QED BY <1>3, <1>4, <2>1, <2>2, <2>4, <3>2
  <2> QED BY <2>3, <2>4
<1> QED BY <1>7, <1>10, <1>11, <1>12, <1>13 DEF LockInv

\* What becomes of the call below one that an exception left.
LEMMA UnwoundFrame ==
    ASSUME NEW f \in Frames, Holds(f), NEW place \in {"matcher", "finalizer"}
    PROVE  /\ Unwound(f, place) \in Frames
           /\ Holds(Unwound(f, place))
           /\ Unwound(f, place).mock = f.mock
           /\ Unwound(f, place).from = f.from
<1>1. CASE place = "matcher"
  BY <1>1 DEF Unwound, Frames, Phases, Holds
<1>2. CASE place = "finalizer"
  BY <1>2 DEF Unwound, Frames, Phases, Holds
<1> QED BY <1>1, <1>2

\* How a call ends: its frame is popped, normally or by an exception.
LEMMA ReturnResult ==
    ASSUME LockInv, NEW t \in Threads, Return(t)
    PROVE  /\ PoppedFrom(t) /\ Holds(Top(t))
           /\ \A i \in 1 .. (Len(stack[t]) - 1) :
                 stack'[t][i] = stack[t][i + 1]
<1> DEFINE r == Tail(stack[t])
<1>1. LocksTyped /\ Busy(t) /\ Top(t).phase = "return"
  BY DEF LockInv, Return
<1>2. /\ stack[t] \in Seq(Frames) /\ Len(stack[t]) > 0 /\ Len(stack[t]) \in Nat
      /\ DOMAIN stack[t] = 1 .. Len(stack[t])
  BY <1>1, TopFacts
<1>3. stack' = [stack EXCEPT ![t] = r] /\ stack \in [Threads -> Seq(Frames)]
  BY <1>1 DEF Return, LocksTyped
<1>4. /\ r \in Seq(Frames) /\ Len(r) = Len(stack[t]) - 1
      /\ \A i \in 1 .. (Len(stack[t]) - 1) : r[i] = stack[t][i + 1]
  BY <1>2, PopHead
<1> HIDE DEF r
<1>5. /\ stack' \in [Threads -> Seq(Frames)] /\ stack'[t] = r
      /\ \A u \in Threads : u # t => stack'[u] = stack[u]
  BY <1>3, <1>4
<1>6. \A i \in 1 .. (Len(stack[t]) - 1) :
         /\ Holds(stack'[t][i])
         /\ stack'[t][i] = stack[t][i + 1]
  BY <1>2, <1>4, <1>5 DEF LockInv, CallsOwnTheirLocks
<1> QED BY <1>1, <1>4, <1>5, <1>6 DEF PoppedFrom, Holds

LEMMA UnwindResult ==
    ASSUME LockInv, NEW t \in Threads, Unwind(t)
    PROVE  /\ PoppedFrom(t) /\ Holds(Top(t))
           /\ Len(stack[t]) > 1 =>
                 /\ Top(t).from \in {"matcher", "finalizer"}
                 /\ stack'[t][1] = Unwound(stack[t][2], Top(t).from)
                 /\ \A i \in 2 .. (Len(stack[t]) - 1) :
                       stack'[t][i] = stack[t][i + 1]
<1>0. PICK n \in Nat : n = Len(stack[t])
  BY TopFacts DEF LockInv
<1>1. /\ LocksTyped /\ Busy(t)
      /\ Top(t).phase = "unwind" /\ Top(t).from # "side_effect"
  BY DEF LockInv, Unwind
<1>2. /\ stack[t] \in Seq(Frames) /\ n = Len(stack[t]) /\ n > 0
      /\ DOMAIN stack[t] = 1 .. n
      /\ Top(t) = stack[t][1] /\ Top(t) \in Frames
  BY <1>0, <1>1, TopFacts
<1>8. n > 0
  BY <1>2
<1>3. stack \in [Threads -> Seq(Frames)]
  BY <1>1 DEF LocksTyped
<1>4. Top(t).from = "thread" <=> n = 1
  <2>1. 1 \in DOMAIN stack[t]
    BY <1>2
  <2>2. stack[t][1].from = "thread" <=> 1 = n
    BY <1>2, <2>1 DEF LockInv, OutermostFromThread
  <2> QED BY <1>2, <2>2
<1>5. CASE n = 1
  <2>1. stack' = [stack EXCEPT ![t] = <<>>]
    BY <1>4, <1>5 DEF Unwind
  <2>2. <<>> \in Seq(Frames) /\ Len(<<>>) = 0
    OBVIOUS
  <2>3. /\ stack' \in [Threads -> Seq(Frames)] /\ stack'[t] = <<>>
        /\ \A u \in Threads : u # t => stack'[u] = stack[u]
    BY <1>3, <2>1, <2>2
  <2> QED BY <1>1, <1>2, <1>5, <2>2, <2>3 DEF PoppedFrom, Holds
<1>6. CASE n > 1
  <2> DEFINE g == Unwound(stack[t][2], Top(t).from)
             r == <<g>> \o Tail(Tail(stack[t]))
  <2>1. Top(t).from \in {"matcher", "finalizer"}
    <3>1. Top(t).from \in Places \cup {"thread"}
      BY <1>2 DEF Frames
    <3>2. Top(t).from # "thread"
      BY <1>4, <1>6
    <3> QED BY <1>1, <3>1, <3>2 DEF Places
  <2>2. 2 \in DOMAIN stack[t] /\ stack[t][2] \in Frames /\ Holds(stack[t][2])
    BY <1>2, <1>6 DEF LockInv, CallsOwnTheirLocks
  <2>3. /\ g \in Frames /\ Holds(g)
        /\ g.mock = stack[t][2].mock /\ g.from = stack[t][2].from
    BY <2>1, <2>2, UnwoundFrame
  <2>4. stack' = [stack EXCEPT ![t] = r]
    <3>1. Top(t).from # "thread"
      BY <1>4, <1>6
    <3> QED BY <3>1 DEF Unwind
  <2> HIDE DEF g
  <2>5. /\ r \in Seq(Frames) /\ Len(r) = n - 1 /\ r[1] = g
        /\ \A i \in 2 .. (n - 1) : r[i] = stack[t][i + 1]
    BY <1>2, <1>6, <2>3, PopHeadReplaceNext
  <2> HIDE DEF r
  <2>6. /\ stack' \in [Threads -> Seq(Frames)] /\ stack'[t] = r
        /\ \A u \in Threads : u # t => stack'[u] = stack[u]
    BY <1>3, <2>4, <2>5
  <2>7. \A i \in 1 .. (n - 1) :
           /\ Holds(stack'[t][i])
           /\ stack'[t][i].mock = stack[t][i + 1].mock
           /\ stack'[t][i].from = stack[t][i + 1].from
    <3> SUFFICES ASSUME NEW i \in 1 .. (n - 1)
                 PROVE  /\ Holds(stack'[t][i])
                        /\ stack'[t][i].mock = stack[t][i + 1].mock
                        /\ stack'[t][i].from = stack[t][i + 1].from
      OBVIOUS
    <3>1. CASE i = 1
      BY <2>3, <2>5, <2>6, <3>1
    <3>2. CASE i # 1
      BY <1>2, <2>5, <2>6, <3>2 DEF LockInv, CallsOwnTheirLocks
    <3> QED BY <3>1, <3>2
  <2> QED BY <1>1, <1>2, <1>6, <2>1, <2>5, <2>6, <2>7 DEF PoppedFrom, Holds, g
<1>7. n = 1 \/ n > 1
  BY <1>8
<1> QED BY <1>5, <1>6, <1>7, Zenon

-----------------------------------------------------------------------------
\* What the expectations are without any promise about their counts: a match
\* that became stale may be consumed once too often.
LooseRecords ==
    [mock : Mocks, verdict : [Args -> VerdictValues], min : Ints, max : Ints,
     count : Nat, at : [Seqs -> Nat], live : BOOLEAN]

ExpsShape ==
    /\ exps \in Seq(LooseRecords)
    /\ seqs \in [Seqs -> BasicSequences]

\* What the shape of the expectations says of its parts.
LEMMA ShapeFacts ==
    ASSUME ExpsShape
    PROVE  /\ Len(exps) \in Nat
           /\ DOMAIN exps = 1 .. Len(exps)
           /\ DOMAIN exps \subseteq Nat
           /\ \A e \in DOMAIN exps : exps[e] \in LooseRecords
           /\ \A m : Live(m) \subseteq DOMAIN exps
BY DEF ExpsShape, Live

\* Counting a use changes the count only.
LEMMA CountedLoosely ==
    ASSUME NEW r \in LooseRecords
    PROVE  LET x == [r EXCEPT !.count = @ + 1]
           IN  /\ x \in LooseRecords
               /\ x.mock = r.mock /\ x.verdict = r.verdict /\ x.live = r.live
               /\ x.at = r.at /\ x.min = r.min /\ x.max = r.max
               /\ x.count = r.count + 1
BY DEF LooseRecords

\* Sequences keep their shape, whatever is consumed.
LEMMA SequenceShape ==
    ASSUME NEW q \in BasicSequences, NEW pos \in Nat \ {0}, NEW x, NEW s
    PROVE  /\ Consume(q, pos) \in BasicSequences
           /\ x.at[s] = pos => UpdateSequenceState(q, x, s) \in BasicSequences
<1>1. q.entries \in Seq(EntryStates) /\ q.cursor \in Nat \ {0}
  BY DEF BasicSequences
<1>2. Consume(q, pos) \in BasicSequences
  BY <1>1 DEF BasicSequences, Consume
<1>3. ASSUME NEW state \in EntryStates
      PROVE  [q EXCEPT !.entries[pos] = state] \in BasicSequences
  <2>1. [q.entries EXCEPT ![pos] = state] \in Seq(EntryStates)
    <3> DEFINE r == [q.entries EXCEPT ![pos] = state]
    <3>1. /\ DOMAIN r = 1 .. Len(q.entries) /\ Len(q.entries) \in Nat
          /\ \A i \in 1 .. Len(q.entries) : r[i] \in EntryStates
      BY <1>1
    <3>2. r \in [1 .. Len(q.entries) -> EntryStates]
      BY <3>1
    <3> HIDE DEF r
    <3>3. r \in Seq(EntryStates)
      BY <3>1, <3>2, SeqDef
    <3> QED BY <3>3 DEF r
  <2> QED BY <1>1, <2>1 DEF BasicSequences
<1>4. SetSatisfied(q, pos) \in BasicSequences
  BY <1>3 DEF SetSatisfied, EntryStates
<1>5. SetSaturated(q, pos) \in BasicSequences
  BY <1>3 DEF SetSaturated, EntryStates
<1> QED BY <1>2, <1>4, <1>5 DEF UpdateSequenceState

\* A use of an expectation changes its count and states of its sequences.
LEMMA ConsumeShape ==
    ASSUME ExpsShape, NEW e \in DOMAIN exps, NEW effect,
           ConsumeExpectation(e, effect)
    PROVE  /\ ExpsShape'
           /\ DOMAIN exps' = DOMAIN exps
           /\ \A f \in DOMAIN exps :
                 /\ exps'[f].mock = exps[f].mock
                 /\ exps'[f].live = exps[f].live
                 /\ exps'[f].verdict = exps[f].verdict
                 /\ exps'[f].at = exps[f].at
                 /\ exps'[f].max = exps[f].max
                 /\ f # e => exps'[f] = exps[f]
           /\ \A m : Live(m)' = Live(m)
<1> DEFINE x == [exps[e] EXCEPT !.count = @ + 1]
<1>1. exps \in Seq(LooseRecords) /\ seqs \in [Seqs -> BasicSequences]
  BY DEF ExpsShape
<1>2. /\ x \in LooseRecords
      /\ x.mock = exps[e].mock /\ x.verdict = exps[e].verdict
      /\ x.live = exps[e].live /\ x.at = exps[e].at /\ x.max = exps[e].max
  BY <1>1, CountedLoosely
<1>3. /\ exps' = [exps EXCEPT ![e] = x]
      /\ seqs' = [s \in Seqs |-> IF s \in SequencesOf(x)
                                 THEN ConsumedSequence(x, s) ELSE seqs[s]]
  BY DEF ConsumeExpectation
<1> HIDE DEF x
<1>4. exps' \in Seq(LooseRecords) /\ DOMAIN exps' = DOMAIN exps
  BY <1>1, <1>2, <1>3
<1>5. ASSUME NEW s \in Seqs, s \in SequencesOf(x)
      PROVE  ConsumedSequence(x, s) \in BasicSequences
  <2>1. x.at[s] \in Nat \ {0}
    BY <1>2, <1>5 DEF LooseRecords, SequencesOf, NotAttached
  <2>2. seqs[s] \in BasicSequences
    BY <1>1
  <2>3. Consume(seqs[s], x.at[s]) \in BasicSequences
    BY <2>1, <2>2, SequenceShape
  <2> QED BY <2>1, <2>3, SequenceShape DEF ConsumedSequence
<1>6. seqs' \in [Seqs -> BasicSequences]
  BY <1>1, <1>3, <1>5
<1>7. \A f \in DOMAIN exps :
         /\ exps'[f].mock = exps[f].mock
         /\ exps'[f].live = exps[f].live
         /\ exps'[f].verdict = exps[f].verdict
         /\ exps'[f].at = exps[f].at
         /\ exps'[f].max = exps[f].max
         /\ f # e => exps'[f] = exps[f]
  BY <1>2, <1>3
<1>8. \A m : Live(m)' = Live(m)
  BY <1>4, <1>7 DEF Live
<1> QED BY <1>4, <1>6, <1>7, <1>8 DEF ExpsShape

\* A new expectation is one more of its mock.
LEMMA CreateShape ==
    ASSUME ExpsShape, NEW m \in Mocks, NEW S \in Attachments,
           NEW limits \in Limits, NEW verdict \in Verdicts,
           Create(m, S, limits, verdict)
    PROVE  /\ ExpsShape'
           /\ DOMAIN exps' = DOMAIN exps \cup {Len(exps) + 1}
           /\ \A e \in DOMAIN exps : exps'[e] = exps[e]
           /\ exps'[Len(exps) + 1] = NewExpectation(m, S, limits, verdict)
           /\ \A k : Live(k) \subseteq Live(k)'
           /\ \A k : k # m => Live(k)' = Live(k)
<1> DEFINE x == NewExpectation(m, S, limits, verdict)
<1>1. exps \in Seq(LooseRecords) /\ seqs \in [Seqs -> BasicSequences]
  BY DEF ExpsShape
<1>2. /\ exps' = Append(exps, x)
      /\ seqs' = [s \in Seqs |-> IF s \in S
                                 THEN UpdateSequenceState(Add(seqs[s]), x, s)
                                 ELSE seqs[s]]
  BY DEF Create
<1>3. \A s \in Seqs : /\ seqs[s].entries \in Seq(EntryStates)
                      /\ Len(seqs[s].entries) + 1 \in Nat \ {0}
                      /\ seqs[s].cursor \in Nat \ {0}
  BY <1>1 DEF BasicSequences
<1>4. /\ x \in LooseRecords
      /\ x.mock = m /\ x.live = TRUE
      /\ \A s \in S : x.at[s] \in Nat \ {0}
  <2>1. limits[1] \in Ints /\ limits[2] \in Ints
    BY LimitsAssumption DEF TimesConfigs
  <2>2. verdict \in [Args -> VerdictValues] /\ S \subseteq Seqs
    BY VerdictsAssumption, AttachmentsAssumption
  <2>3. [s \in Seqs |-> IF s \in S THEN Len(seqs[s].entries) + 1
                                   ELSE NotAttached] \in [Seqs -> Nat]
    BY <1>3 DEF NotAttached
  <2> QED BY <1>3, <2>1, <2>2, <2>3 DEF NewExpectation, LooseRecords
<1> HIDE DEF x
<1>5. /\ exps' \in Seq(LooseRecords)
      /\ DOMAIN exps' = DOMAIN exps \cup {Len(exps) + 1}
      /\ \A e \in DOMAIN exps : exps'[e] = exps[e]
      /\ exps'[Len(exps) + 1] = x
  BY <1>1, <1>2, <1>4
<1>6. ASSUME NEW s \in Seqs, s \in S
      PROVE  UpdateSequenceState(Add(seqs[s]), x, s) \in BasicSequences
  <2>1. Add(seqs[s]) \in BasicSequences
    <3>1. Append(seqs[s].entries, "unsatisfied") \in Seq(EntryStates)
      BY <1>3 DEF EntryStates
    <3> QED BY <1>1, <3>1 DEF Add, BasicSequences
  <2> QED BY <1>4, <1>6, <2>1, SequenceShape
<1>7. seqs' \in [Seqs -> BasicSequences]
  BY <1>1, <1>2, <1>6
<1>8. (Len(exps) + 1) \notin DOMAIN exps
  BY <1>1
<1>9. \A k : Live(k) \subseteq Live(k)'
  BY <1>5 DEF Live
<1>10. \A k : k # m => Live(k)' = Live(k)
  BY <1>4, <1>5 DEF Live
<1> QED BY <1>5, <1>7, <1>9, <1>10 DEF ExpsShape, x

\* A removed expectation is one less of its mock.
LEMMA RemoveShape ==
    ASSUME ExpsShape, NEW e \in DOMAIN exps, Remove(e)
    PROVE  /\ ExpsShape'
           /\ DOMAIN exps' = DOMAIN exps
           /\ \A f \in DOMAIN exps :
                 /\ exps'[f].mock = exps[f].mock
                 /\ f # e => exps'[f] = exps[f]
           /\ \A k : k # exps[e].mock => Live(k)' = Live(k)
<1> DEFINE x == [exps[e] EXCEPT !.live = FALSE]
<1>1. exps \in Seq(LooseRecords) /\ exps[e] \in LooseRecords
  BY DEF ExpsShape
<1>2. x \in LooseRecords /\ x.mock = exps[e].mock
  BY <1>1 DEF LooseRecords
<1>3. exps' = [exps EXCEPT ![e] = x] /\ seqs' = seqs
  BY DEF Remove
<1> HIDE DEF x
<1>4. /\ exps' \in Seq(LooseRecords) /\ DOMAIN exps' = DOMAIN exps
      /\ \A f \in DOMAIN exps : f # e => exps'[f] = exps[f]
      /\ exps'[e] = x
  BY <1>1, <1>2, <1>3
<1>5. \A k : k # exps[e].mock => Live(k)' = Live(k)
  BY <1>2, <1>4 DEF Live
<1> QED BY <1>2, <1>3, <1>4, <1>5 DEF ExpsShape

-----------------------------------------------------------------------------
\* The raw pointers of a call.
Pointers(f) ==
    f.todo \cup f.matches \cup f.inapplicable \cup ({f.chosen} \ {0})

\* A call that holds its lock points to live expectations of its mock, and a
\* call that waits to none.
PointersLive ==
    \A t \in Threads : \A i \in DOMAIN stack[t] :
        LET f == stack[t][i]
        IN  /\ Holds(f) => Pointers(f) \subseteq Live(f.mock)
            /\ ~Holds(f) => Pointers(f) = {}

SafetyInv ==
    /\ LockInv
    /\ ExpsShape
    /\ PointersLive

\* The pointers, update by update and then action by action.
LEMMA GoOnKeepsPointers ==
    ASSUME LockInv, PointersLive, NEW t \in Threads, Busy(t),
           NEW f \in Frames, Holds(f), GoOn(t, f),
           Pointers(f) \subseteq Live(f.mock), \A m : Live(m)' = Live(m)
    PROVE  PointersLive'
<1>1. LocksTyped
  BY DEF LockInv
<1>2. /\ DOMAIN stack[t] = 1 .. Len(stack[t]) /\ Len(stack[t]) \in Nat
  BY <1>1, TopFacts
<1>3. /\ \A u \in Threads : u # t => stack'[u] = stack[u]
      /\ DOMAIN stack'[t] = DOMAIN stack[t]
      /\ stack'[t][1] = f
      /\ \A i \in DOMAIN stack[t] : i # 1 => stack'[t][i] = stack[t][i]
  BY <1>1, <1>2, GoOnResult
<1> SUFFICES ASSUME NEW u \in Threads, NEW i \in DOMAIN stack'[u]
             PROVE  LET g == stack'[u][i]
                    IN  /\ Holds(g) => Pointers(g) \subseteq Live(g.mock)
                        /\ ~Holds(g) => Pointers(g) = {}
  BY DEF PointersLive
<1>4. CASE u = t /\ i = 1
  BY <1>3, <1>4
<1>5. CASE u # t \/ i # 1
  <2>1. stack'[u][i] = stack[u][i] /\ i \in DOMAIN stack[u]
    BY <1>3, <1>5
  <2> QED BY <2>1 DEF PointersLive
<1> QED BY <1>4, <1>5

LEMMA PopKeepsPointers ==
    ASSUME LockInv, PointersLive, NEW t \in Threads, PoppedFrom(t),
           \A i \in 1 .. (Len(stack[t]) - 1) :
               Pointers(stack'[t][i]) \subseteq Pointers(stack[t][i + 1]),
           \A m : Live(m)' = Live(m)
    PROVE  PointersLive'
<1> DEFINE n == Len(stack[t])
<1>1. n \in Nat /\ DOMAIN stack[t] = 1 .. n
  BY TopFacts DEF LockInv
<1>2. /\ stack'[t] \in Seq(Frames)
      /\ \A u \in Threads : u # t => stack'[u] = stack[u]
      /\ Len(stack'[t]) = n - 1
  BY DEF PoppedFrom
<1>3. DOMAIN stack'[t] = 1 .. (n - 1)
  BY <1>2
<1> SUFFICES ASSUME NEW u \in Threads, NEW i \in DOMAIN stack'[u]
             PROVE  LET g == stack'[u][i]
                    IN  /\ Holds(g) => Pointers(g) \subseteq Live(g.mock)
                        /\ ~Holds(g) => Pointers(g) = {}
  BY DEF PointersLive
<1>4. CASE u = t
  <2>1. i \in 1 .. (n - 1) /\ i + 1 \in DOMAIN stack[t] /\ i + 1 > 1
    BY <1>1, <1>3, <1>4
  <2>2. Holds(stack[t][i + 1])
    BY <2>1 DEF LockInv, CallsOwnTheirLocks
  <2>3. Pointers(stack[t][i + 1]) \subseteq Live(stack[t][i + 1].mock)
    BY <2>1, <2>2 DEF PointersLive
  <2>4. Holds(stack'[t][i]) /\ stack'[t][i].mock = stack[t][i + 1].mock
    BY <2>1 DEF PoppedFrom
  <2> QED BY <1>4, <2>1, <2>3, <2>4
<1>5. CASE u # t
  BY <1>2, <1>5 DEF PointersLive
<1> QED BY <1>4, <1>5

LEMMA CallBackKeepsPointers ==
    ASSUME LockInv, PointersLive, DOMAIN exps \subseteq Nat, NEW t \in Threads,
           NEW place \in Places, NEW m \in Mocks, NEW a \in Args,
           CallBack(t, place, m, a)
    PROVE  PointersLive'
<1> DEFINE n == Len(stack[t])
           g == Interrupted(Top(t), place)
<1>1. LocksTyped /\ Busy(t) /\ exps' = exps
  BY DEF LockInv, CallBack, vars
<1>2. /\ n \in Nat /\ n > 0 /\ DOMAIN stack[t] = 1 .. n
      /\ Top(t) = stack[t][1] /\ Top(t) \in Frames
  BY <1>1, TopFacts
<1>3. /\ \A u \in Threads : u # t => stack'[u] = stack[u]
      /\ stack'[t] \in Seq(Frames) /\ Len(stack'[t]) = n + 1
      /\ stack'[t][1] = Frame(m, a, place)
      /\ stack'[t][2] = g
      /\ \A i \in 3 .. (n + 1) : stack'[t][i] = stack[t][i - 1]
      /\ Holds(g) /\ Holds(Top(t)) /\ g.mock = Top(t).mock
  BY <1>1, CallBackResult
<1>4. DOMAIN stack'[t] = 1 .. (n + 1)
  BY <1>3
<1>5. Pointers(g) = Pointers(Top(t))
  <2> DEFINE f == Top(t)
  <2>1. f \in Frames
    BY <1>2
  <2> HIDE DEF f
  <2>2. ASSUME NEW h, h = Interrupted(f, place)
        PROVE  /\ h.todo = f.todo /\ h.matches = f.matches
               /\ h.inapplicable = f.inapplicable /\ h.chosen = f.chosen
    BY <2>1, <2>2 DEF Interrupted, Frames, Places
  <2> QED BY <2>2 DEF Pointers, f
<1>6. \A k : Live(k)' = Live(k)
  BY <1>1 DEF Live
<1> HIDE DEF g
<1> SUFFICES ASSUME NEW u \in Threads, NEW i \in DOMAIN stack'[u]
             PROVE  LET h == stack'[u][i]
                    IN  /\ Holds(h) => Pointers(h) \subseteq Live(h.mock)
                        /\ ~Holds(h) => Pointers(h) = {}
  BY <1>6 DEF PointersLive
<1>7. CASE u # t
  BY <1>3, <1>7 DEF PointersLive
<1>8. CASE u = t /\ i = 1
  <2>1. Pointers(Frame(m, a, place)) = {} /\ ~Holds(Frame(m, a, place))
    BY DEF Pointers, Frame, Holds
  <2> QED BY <1>3, <1>8, <2>1
<1>9. CASE u = t /\ i = 2
  <2>1. 1 \in DOMAIN stack[t] /\ Holds(stack[t][1])
    BY <1>2, <1>3
  <2>2. Pointers(Top(t)) \subseteq Live(Top(t).mock)
    BY <1>2, <2>1 DEF PointersLive
  <2> QED BY <1>3, <1>5, <1>9, <2>2
<1>10. CASE u = t /\ i \in 3 .. (n + 1)
  <2>1. i - 1 \in DOMAIN stack[t] /\ stack'[t][i] = stack[t][i - 1]
    BY <1>2, <1>3, <1>10
  <2> QED BY <1>10, <2>1 DEF PointersLive
<1> QED BY <1>2, <1>4, <1>7, <1>8, <1>9, <1>10

\* Visiting an expectation moves its pointer or drops it.
LEMMA EvaluatedFrame ==
    ASSUME NEW f \in Frames, NEW e \in f.todo
    PROVE  LET g == Evaluated(f, e)
           IN  /\ g \in Frames
               /\ g.mock = f.mock /\ g.from = f.from /\ g.phase = f.phase
               /\ g.arg = f.arg /\ g.reentered = f.reentered
               /\ g.chosen = f.chosen /\ g.todo = f.todo \ {e}
               /\ g.matches = IF /\ exps[e].verdict[f.arg] = "match"
                                 /\ IsApplicable(exps[e])
                              THEN f.matches \cup {e} ELSE f.matches
               /\ g.inapplicable = IF /\ exps[e].verdict[f.arg] = "match"
                                      /\ ~IsApplicable(exps[e])
                                   THEN f.inapplicable \cup {e}
                                   ELSE f.inapplicable
               /\ Pointers(g) \subseteq Pointers(f)
<1>0. e \in Nat
  BY DEF Frames
<1>1. CASE exps[e].verdict[f.arg] # "match"
  BY <1>1 DEF Evaluated, Frames, Pointers
<1>2. CASE exps[e].verdict[f.arg] = "match" /\ IsApplicable(exps[e])
  BY <1>0, <1>2 DEF Evaluated, Frames, Pointers
<1>3. CASE exps[e].verdict[f.arg] = "match" /\ ~IsApplicable(exps[e])
  BY <1>0, <1>3 DEF Evaluated, Frames, Pointers
<1> QED BY <1>1, <1>2, <1>3

\* The innermost call, when it holds its lock.
LEMMA TopPointers ==
    ASSUME SafetyInv, NEW t \in Threads, Busy(t), Holds(Top(t))
    PROVE  /\ LocksTyped /\ Top(t) \in Frames
           /\ Pointers(Top(t)) \subseteq Live(Top(t).mock)
           /\ Pointers(Top(t)) \subseteq DOMAIN exps
           /\ mutex[Top(t).mock] = t
<1>1. LocksTyped
  BY DEF SafetyInv, LockInv
<1>2. 1 \in DOMAIN stack[t] /\ Top(t) = stack[t][1] /\ Top(t) \in Frames
  BY <1>1, TopFacts
<1>3. Pointers(Top(t)) \subseteq Live(Top(t).mock)
  BY <1>2 DEF SafetyInv, PointersLive
<1>4. mutex[Top(t).mock] = t
  BY <1>2 DEF SafetyInv, LockInv, CallsOwnTheirLocks
<1> QED BY <1>1, <1>2, <1>3, <1>4 DEF Live

\* A call that goes on with its lock and without new pointers.
LEMMA GoOnKeepsSafety ==
    ASSUME SafetyInv, NEW t \in Threads, Busy(t), Holds(Top(t)),
           NEW f \in Frames, Holds(f), f.mock = Top(t).mock,
           f.from = Top(t).from, GoOn(t, f), UNCHANGED <<mutex, calls>>,
           Pointers(f) \subseteq Live(f.mock), \A m : Live(m)' = Live(m),
           ExpsShape'
    PROVE  SafetyInv'
BY GoOnKeepsLocks, GoOnKeepsPointers DEF SafetyInv

\* The frame a step of handle_call leaves.
LEMMA PhaseFrame ==
    ASSUME NEW f \in Frames, NEW phase \in Phases
    PROVE  LET g == [f EXCEPT !.phase = phase]
           IN  /\ g \in Frames /\ g.mock = f.mock /\ g.from = f.from
               /\ g.phase = phase /\ g.reentered = f.reentered /\ g.arg = f.arg
               /\ Pointers(g) = Pointers(f)
BY DEF Frames, Pointers

\* Steps in which the innermost call only enters its next phase.
LEMMA PhaseKeepsSafety ==
    ASSUME SafetyInv, NEW t \in Threads, Busy(t), Holds(Top(t)),
           NEW phase \in Phases \ {"lock"},
           GoOn(t, [Top(t) EXCEPT !.phase = phase]),
           UNCHANGED <<seqs, exps, mutex, calls>>
    PROVE  SafetyInv'
<1> DEFINE g == [Top(t) EXCEPT !.phase = phase]
<1>1. Top(t) \in Frames /\ Pointers(Top(t)) \subseteq Live(Top(t).mock)
  BY TopPointers
<1>2. /\ g \in Frames /\ g.mock = Top(t).mock /\ g.from = Top(t).from
      /\ Holds(g) /\ Pointers(g) \subseteq Live(g.mock)
  BY <1>1, PhaseFrame DEF Holds
<1>3. ExpsShape' /\ \A m : Live(m)' = Live(m)
  BY DEF SafetyInv, ExpsShape, Live
<1> HIDE DEF g
<1>4. GoOn(t, g)
  BY DEF g
<1> QED BY <1>2, <1>3, <1>4, GoOnKeepsSafety

LEMMA EvaluateKeepsSafety ==
    ASSUME SafetyInv, NEW t \in Threads, Evaluate(t)
    PROVE  SafetyInv'
<1> DEFINE e == Max(Top(t).todo)
           g == Evaluated(Top(t), e)
<1>1. /\ Busy(t) /\ Top(t).phase = "evaluate" /\ Top(t).todo # {} /\ GoOn(t, g)
      /\ UNCHANGED <<seqs, exps, mutex, calls>>
  BY DEF Evaluate, vars
<1>2. /\ Holds(Top(t)) /\ Top(t) \in Frames
      /\ Pointers(Top(t)) \subseteq Live(Top(t).mock)
      /\ Pointers(Top(t)) \subseteq DOMAIN exps
  BY <1>1, TopPointers DEF Holds
<1>3. e \in Top(t).todo
  <2>1. Top(t).todo \in SUBSET (1 .. Len(exps)) /\ Len(exps) \in Nat
    BY <1>2, ShapeFacts DEF SafetyInv, Pointers
  <2> QED BY <1>1, <2>1, NewestExists
<1>4. /\ g \in Frames /\ g.mock = Top(t).mock /\ g.from = Top(t).from
      /\ Holds(g) /\ Pointers(g) \subseteq Live(g.mock)
  BY <1>1, <1>2, <1>3, EvaluatedFrame DEF Holds
<1>5. ExpsShape' /\ \A m : Live(m)' = Live(m)
  BY <1>1 DEF SafetyInv, ExpsShape, Live
<1> HIDE DEF g
<1> QED BY <1>1, <1>2, <1>4, <1>5, GoOnKeepsSafety

\* What ConsumeBest does to the expectation it picks.
LEMMA ConsumeBestPick ==
    ASSUME SafetyInv, NEW t \in Threads, ConsumeBest(t)
    PROVE  /\ Busy(t) /\ Holds(Top(t)) /\ Top(t).phase = "evaluate"
           /\ \E best \in Top(t).matches :
                 /\ best \in Live(Top(t).mock)
                 /\ best \in DOMAIN exps
                 /\ ConsumeExpectation(best, "return")
                 /\ GoOn(t, [Top(t) EXCEPT !.phase = "side_effect",
                                           !.chosen = best])
<1>1. PICK best \in Top(t).matches :
          /\ ConsumeExpectation(best, "return")
          /\ GoOn(t, [Top(t) EXCEPT !.phase = "side_effect", !.chosen = best])
  BY DEF ConsumeBest
<1>2. Busy(t) /\ Holds(Top(t)) /\ Top(t).phase = "evaluate"
  BY DEF ConsumeBest, Holds
<1>3. best \in Live(Top(t).mock) /\ best \in DOMAIN exps
  BY <1>1, <1>2, TopPointers DEF Pointers
<1> QED BY <1>1, <1>2, <1>3

\* A call that chose one of its matches holds no pointer it did not hold before.
LEMMA ChosenFrame ==
    ASSUME NEW f \in Frames, NEW e \in f.matches
    PROVE  LET g == [f EXCEPT !.phase = "side_effect", !.chosen = e]
           IN  /\ g \in Frames /\ g.mock = f.mock /\ g.from = f.from
               /\ g.phase = "side_effect" /\ g.reentered = f.reentered
               /\ Pointers(g) \subseteq Pointers(f)
<1>1. e \in Nat
  BY DEF Frames
<1> QED BY <1>1 DEF Frames, Phases, Pointers

LEMMA ConsumeBestKeepsSafety ==
    ASSUME SafetyInv, NEW t \in Threads, ConsumeBest(t)
    PROVE  SafetyInv'
<1>1. PICK best \in Top(t).matches :
          /\ best \in DOMAIN exps
          /\ ConsumeExpectation(best, "return")
          /\ GoOn(t, [Top(t) EXCEPT !.phase = "side_effect", !.chosen = best])
  BY ConsumeBestPick
<1> DEFINE g == [Top(t) EXCEPT !.phase = "side_effect", !.chosen = best]
<1>2. Busy(t) /\ Holds(Top(t)) /\ UNCHANGED <<mutex, calls>>
  BY ConsumeBestPick DEF ConsumeBest
<1>3. Top(t) \in Frames /\ Pointers(Top(t)) \subseteq Live(Top(t).mock)
  BY <1>2, TopPointers
<1>4. /\ g \in Frames /\ g.mock = Top(t).mock /\ g.from = Top(t).from
      /\ Holds(g) /\ Pointers(g) \subseteq Live(g.mock)
  BY <1>1, <1>3, ChosenFrame DEF Holds
<1>5. ExpsShape' /\ \A m : Live(m)' = Live(m)
  BY <1>1, ConsumeShape DEF SafetyInv
<1>6. GoOn(t, g)
  BY <1>1
<1> HIDE DEF g
<1> QED BY <1>2, <1>4, <1>5, <1>6, GoOnKeepsSafety

LEMMA LockKeepsSafety ==
    ASSUME SafetyInv, NEW t \in Threads, Lock(t)
    PROVE  SafetyInv'
<1> DEFINE f == [Top(t) EXCEPT !.phase = "evaluate", !.todo = Live(Top(t).mock)]
<1>1. /\ LockInv /\ LocksTyped /\ Busy(t) /\ Top(t).phase = "lock" /\ GoOn(t, f)
      /\ UNCHANGED <<seqs, exps>>
  BY DEF SafetyInv, LockInv, Lock, vars
<1>2. DOMAIN exps \subseteq Nat
  BY ShapeFacts DEF SafetyInv
<1>3. ExpsShape' /\ \A m : Live(m)' = Live(m)
  BY <1>1 DEF SafetyInv, ExpsShape, Live
<1>4. /\ Top(t) \in Frames /\ Pointers(Top(t)) = {}
  <2>1. 1 \in DOMAIN stack[t] /\ Top(t) = stack[t][1] /\ Top(t) \in Frames
    BY <1>1, TopFacts
  <2> QED BY <1>1, <2>1 DEF SafetyInv, PointersLive, Holds
<1>5. /\ f \in Frames /\ f.mock = Top(t).mock /\ Holds(f)
      /\ Pointers(f) \subseteq Live(f.mock)
  <2>1. Live(Top(t).mock) \in SUBSET Nat
    BY <1>2 DEF Live
  <2>2. /\ f \in Frames /\ f.mock = Top(t).mock /\ f.phase = "evaluate"
        /\ f.todo = Live(Top(t).mock) /\ f.matches = Top(t).matches
        /\ f.inapplicable = Top(t).inapplicable /\ f.chosen = Top(t).chosen
    BY <1>4, <2>1 DEF Frames, Phases
  <2> QED BY <1>4, <2>2 DEF Pointers, Holds
<1> HIDE DEF f
<1>6. PointersLive'
  BY <1>1, <1>3, <1>5, GoOnKeepsPointers DEF SafetyInv
<1> QED BY <1>1, <1>2, <1>3, <1>6, LockKeepsLocks DEF SafetyInv

LEMMA ReturnKeepsSafety ==
    ASSUME SafetyInv, NEW t \in Threads, Return(t)
    PROVE  SafetyInv'
<1>1. LockInv /\ PointersLive
  BY DEF SafetyInv
<1>2. Busy(t) /\ Unlock(Top(t).mock) /\ UNCHANGED <<seqs, exps, calls>>
  BY DEF Return, vars
<1>3. PoppedFrom(t) /\ Holds(Top(t))
  BY <1>1, ReturnResult
<1>4. \A i \in 1 .. (Len(stack[t]) - 1) :
         Pointers(stack'[t][i]) \subseteq Pointers(stack[t][i + 1])
  BY <1>1, ReturnResult
<1>5. ExpsShape' /\ \A m : Live(m)' = Live(m)
  BY <1>2 DEF SafetyInv, ExpsShape, Live
<1>6. LockInv'
  BY <1>1, <1>2, <1>3, PopKeepsLocks
<1>7. PointersLive'
  BY <1>1, <1>3, <1>4, <1>5, PopKeepsPointers
<1> QED BY <1>5, <1>6, <1>7 DEF SafetyInv

\* A caller that catches the exception of a callback holds no new pointers.
LEMMA UnwoundPointers ==
    ASSUME NEW f \in Frames, NEW place \in {"matcher", "finalizer"}
    PROVE  Pointers(Unwound(f, place)) \subseteq Pointers(f)
<1>1. CASE place = "matcher"
  BY <1>1 DEF Unwound, Frames, Pointers
<1>2. CASE place = "finalizer"
  BY <1>2 DEF Unwound, Frames, Pointers
<1> QED BY <1>1, <1>2

LEMMA UnwindKeepsSafety ==
    ASSUME SafetyInv, NEW t \in Threads, Unwind(t)
    PROVE  SafetyInv'
<1>1. LockInv /\ LocksTyped /\ PointersLive
  BY DEF SafetyInv, LockInv
<1>2. Busy(t) /\ Unlock(Top(t).mock) /\ UNCHANGED <<seqs, exps, calls>>
  BY DEF Unwind, vars
<1>3. PoppedFrom(t) /\ Holds(Top(t))
  BY <1>1, UnwindResult
<1>4. ASSUME NEW i \in 1 .. (Len(stack[t]) - 1)
      PROVE  Pointers(stack'[t][i]) \subseteq Pointers(stack[t][i + 1])
  <2>1. Len(stack[t]) \in Nat /\ DOMAIN stack[t] = 1 .. Len(stack[t])
    BY <1>1, TopFacts
  <2>2. Len(stack[t]) > 1 /\ i + 1 \in DOMAIN stack[t]
    BY <2>1
  <2>3. /\ Top(t).from \in {"matcher", "finalizer"}
        /\ stack'[t][1] = Unwound(stack[t][2], Top(t).from)
        /\ \A k \in 2 .. (Len(stack[t]) - 1) : stack'[t][k] = stack[t][k + 1]
    BY <1>1, <2>2, UnwindResult
  <2>4. CASE i = 1
    <3>1. stack[t][2] \in Frames
      BY <1>1, <2>2, <2>4, TopFacts
    <3> QED BY <2>3, <2>4, <3>1, UnwoundPointers
  <2>5. CASE i # 1
    BY <2>1, <2>3, <2>5
  <2> QED BY <2>4, <2>5
<1>5. ExpsShape' /\ \A m : Live(m)' = Live(m)
  BY <1>2 DEF SafetyInv, ExpsShape, Live
<1>6. LockInv'
  BY <1>1, <1>2, <1>3, PopKeepsLocks
<1>7. PointersLive'
  BY <1>1, <1>3, <1>4, <1>5, PopKeepsPointers
<1> QED BY <1>5, <1>6, <1>7 DEF SafetyInv

LEMMA CallBackKeepsSafety ==
    ASSUME SafetyInv, NEW t \in Threads, NEW place \in Places, NEW m \in Mocks,
           NEW a \in Args, CallBack(t, place, m, a)
    PROVE  SafetyInv'
<1>1. LockInv /\ PointersLive /\ DOMAIN exps \subseteq Nat
  BY ShapeFacts DEF SafetyInv
<1>2. ExpsShape'
  BY DEF CallBack, vars, SafetyInv, ExpsShape
<1> QED BY <1>1, <1>2, CallBackKeepsLocks, CallBackKeepsPointers DEF SafetyInv

LEMMA StartCallKeepsSafety ==
    ASSUME SafetyInv, NEW t \in Threads, NEW m \in Mocks, NEW a \in Args,
           StartCall(t, m, a)
    PROVE  SafetyInv'
<1> DEFINE c == Frame(m, a, "thread")
<1>1. LockInv /\ LocksTyped /\ stack[t] = <<>> /\ mutex' = mutex
  BY DEF SafetyInv, LockInv, StartCall, Busy
<1>2. /\ c \in Frames /\ ~Holds(c) /\ c.from = "thread" /\ Pointers(c) = {}
  BY DEF Frame, Frames, Phases, Holds, Pointers
<1>3. stack' = [stack EXCEPT ![t] = <<c>>] /\ calls' = calls + 1
  BY DEF StartCall
<1> HIDE DEF c
<1>4. /\ stack' \in [Threads -> Seq(Frames)]
      /\ \A u \in Threads : u # t => stack'[u] = stack[u]
      /\ stack'[t] = <<c>>
  BY <1>1, <1>2, <1>3 DEF LocksTyped
<1>5. DOMAIN stack'[t] = {1} /\ stack'[t][1] = c /\ Len(stack'[t]) = 1
  BY <1>4
<1>6. DOMAIN stack[t] = {}
  BY <1>1
<1>7. LocksTyped'
  BY <1>1, <1>3, <1>4 DEF LocksTyped
<1>8. CallsOwnTheirLocks'
  <2> SUFFICES ASSUME NEW u \in Threads, NEW i \in DOMAIN stack'[u]
               PROVE  /\ Holds(stack'[u][i]) => mutex[stack'[u][i].mock] = u
                      /\ i > 1 => Holds(stack'[u][i])
    BY <1>1 DEF CallsOwnTheirLocks
  <2>1. CASE u = t
    BY <1>2, <1>5, <2>1
  <2>2. CASE u # t
    BY <1>1, <1>4, <2>2 DEF LockInv, CallsOwnTheirLocks
  <2> QED BY <2>1, <2>2
<1>9. LocksAreDistinct'
  <2> SUFFICES ASSUME NEW u \in Threads,
                      NEW i \in DOMAIN stack'[u], NEW j \in DOMAIN stack'[u],
                      Holds(stack'[u][i]), Holds(stack'[u][j]),
                      stack'[u][i].mock = stack'[u][j].mock
               PROVE  i = j
    BY DEF LocksAreDistinct
  <2>1. CASE u = t
    BY <1>5, <2>1
  <2>2. CASE u # t
    BY <1>1, <1>4, <2>2 DEF LockInv, LocksAreDistinct
  <2> QED BY <2>1, <2>2
<1>10. OutermostFromThread'
  <2> SUFFICES ASSUME NEW u \in Threads, NEW i \in DOMAIN stack'[u]
               PROVE  stack'[u][i].from = "thread" <=> i = Len(stack'[u])
    BY DEF OutermostFromThread
  <2>1. CASE u = t
    BY <1>2, <1>5, <2>1
  <2>2. CASE u # t
    BY <1>1, <1>4, <2>2 DEF LockInv, OutermostFromThread
  <2> QED BY <2>1, <2>2
<1>11. LocksAreOfCalls'
  <2> SUFFICES ASSUME NEW k \in Mocks, mutex[k] # Free
               PROVE  \E i \in DOMAIN stack'[mutex[k]] :
                         /\ Holds(stack'[mutex[k]][i])
                         /\ stack'[mutex[k]][i].mock = k
    BY <1>1 DEF LocksAreOfCalls
  <2>1. mutex[k] \in Threads
    BY <1>1 DEF LocksTyped
  <2>2. PICK i \in DOMAIN stack[mutex[k]] :
            Holds(stack[mutex[k]][i]) /\ stack[mutex[k]][i].mock = k
    BY <1>1 DEF LockInv, LocksAreOfCalls
  <2>3. mutex[k] # t
    BY <1>6, <2>2
  <2> QED BY <1>4, <2>1, <2>2, <2>3
<1>12. LockInv'
  BY <1>7, <1>8, <1>9, <1>10, <1>11 DEF LockInv
<1>13. ExpsShape' /\ \A k : Live(k)' = Live(k)
  BY DEF StartCall, vars, SafetyInv, ExpsShape, Live
<1>14. PointersLive'
  <2> SUFFICES ASSUME NEW u \in Threads, NEW i \in DOMAIN stack'[u]
               PROVE  LET h == stack'[u][i]
                      IN  /\ Holds(h) => Pointers(h) \subseteq Live(h.mock)
                          /\ ~Holds(h) => Pointers(h) = {}
    BY <1>13 DEF PointersLive
  <2>1. CASE u = t
    BY <1>2, <1>5, <2>1
  <2>2. CASE u # t
    BY <1>4, <2>2 DEF SafetyInv, PointersLive
  <2> QED BY <2>1, <2>2
<1> QED BY <1>12, <1>13, <1>14 DEF SafetyInv

\* Locks and pointers where no call makes a step.
LEMMA IdleKeepsLocks ==
    ASSUME LockInv, UNCHANGED threadVars
    PROVE  LockInv'
BY DEF threadVars, LockInv, LocksTyped, CallsOwnTheirLocks, LocksAreDistinct,
       OutermostFromThread, LocksAreOfCalls

LEMMA PushKeepsSafety ==
    ASSUME SafetyInv, NEW t \in Threads, NEW m \in Mocks, NEW S \in Attachments,
           NEW l \in Limits, NEW v \in Verdicts, Push(t, m, S, l, v)
    PROVE  SafetyInv'
<1>1. Create(m, S, l, v) /\ UNCHANGED threadVars
  BY DEF Push
<1>2. ExpsShape' /\ \A k : Live(k) \subseteq Live(k)'
  BY <1>1, CreateShape DEF SafetyInv
<1>3. PointersLive'
  BY <1>1, <1>2 DEF threadVars, SafetyInv, PointersLive
<1> QED BY <1>1, <1>2, <1>3, IdleKeepsLocks DEF SafetyInv

\* Nothing is erased under the eyes of a call: its lock is taken.
LEMMA EraseKeepsSafety ==
    ASSUME SafetyInv, NEW t \in Threads, NEW e \in DOMAIN exps, Erase(t, e)
    PROVE  SafetyInv'
<1>1. Remove(e) /\ UNCHANGED threadVars /\ mutex[exps[e].mock] = Free
  BY DEF Erase
<1>2. ExpsShape' /\ \A k : k # exps[e].mock => Live(k)' = Live(k)
  BY <1>1, RemoveShape DEF SafetyInv
<1>3. PointersLive'
  <2> SUFFICES ASSUME NEW u \in Threads, NEW i \in DOMAIN stack[u]
               PROVE  LET h == stack[u][i]
                      IN  /\ Holds(h) => Pointers(h) \subseteq Live(h.mock)'
                          /\ ~Holds(h) => Pointers(h) = {}
    BY <1>1 DEF threadVars, PointersLive
  <2>1. CASE ~Holds(stack[u][i])
    BY <2>1 DEF SafetyInv, PointersLive
  <2>2. CASE Holds(stack[u][i])
    <3>1. mutex[stack[u][i].mock] = u
      BY <2>2 DEF SafetyInv, LockInv, CallsOwnTheirLocks
    <3>2. stack[u][i].mock # exps[e].mock
      BY <1>1, <3>1, ThreadsAssumption
    <3>3. Pointers(stack[u][i]) \subseteq Live(stack[u][i].mock)
      BY <2>2 DEF SafetyInv, PointersLive
    <3>4. stack' = stack
      BY <1>1 DEF threadVars
    <3>5. PICK k : k = stack[u][i].mock
      OBVIOUS
    <3>6. Live(k)' = Live(k)
      BY <1>2, <3>2, <3>5
    <3>7. Live(stack[u][i].mock)' = Live(k)'
      BY <3>4, <3>5 DEF Live
    <3> QED BY <2>2, <3>3, <3>5, <3>6, <3>7
  <2> QED BY <2>1, <2>2
<1> QED BY <1>1, <1>2, <1>3, IdleKeepsLocks DEF SafetyInv

\* Steps that only end the program, or change nothing.
LEMMA IdleKeepsSafety ==
    ASSUME SafetyInv, UNCHANGED <<seqs, exps, threadVars>>
    PROVE  SafetyInv'
<1>1. LockInv'
  BY IdleKeepsLocks DEF SafetyInv
<1>2. ExpsShape' /\ \A m : Live(m)' = Live(m)
  BY DEF SafetyInv, ExpsShape, Live
<1>3. PointersLive'
  BY <1>2 DEF threadVars, SafetyInv, PointersLive
<1> QED BY <1>1, <1>2, <1>3 DEF SafetyInv

LEMMA CallStepKeepsSafety ==
    ASSUME SafetyInv, NEW t \in Threads, CallStep(t)
    PROVE  SafetyInv'
<1>1. CASE Lock(t)
  BY <1>1, LockKeepsSafety
<1>2. CASE Evaluate(t)
  BY <1>2, EvaluateKeepsSafety
<1>3. ASSUME NEW place \in Places, NEW m \in Mocks, NEW a \in Args,
             CallBack(t, place, m, a)
      PROVE  SafetyInv'
  BY <1>3, CallBackKeepsSafety
<1>4. CASE ConsumeBest(t)
  BY <1>4, ConsumeBestKeepsSafety
<1>5. CASE TerminateOnStaleReport(t)
  BY <1>5, IdleKeepsSafety DEF TerminateOnStaleReport
<1>6. CASE Fail(t)
  BY <1>6, PhaseKeepsSafety DEF Fail, Holds, Phases
<1>7. CASE ReturnFromSideEffects(t)
  BY <1>7, PhaseKeepsSafety DEF ReturnFromSideEffects, Holds, Phases, vars
<1>8. CASE ThrowFromSideEffect(t)
  BY <1>8, IdleKeepsSafety DEF ThrowFromSideEffect
<1>9. CASE Finalize(t)
  BY <1>9, PhaseKeepsSafety DEF Finalize, Holds, Phases, vars
<1>10. CASE Return(t)
  BY <1>10, ReturnKeepsSafety
<1>11. CASE Unwind(t)
  BY <1>11, UnwindKeepsSafety
<1>12. CASE UnwindSideEffect(t)
  BY <1>12, IdleKeepsSafety DEF UnwindSideEffect
<1> QED BY <1>1, <1>2, <1>3, <1>4, <1>5, <1>6, <1>7, <1>8, <1>9, <1>10, <1>11,
           <1>12 DEF CallStep

\* Locks, shapes and pointers together are inductive.
LEMMA StepKeepsSafety == SafetyInv /\ [NextThreads]_allVars => SafetyInv'
<1> SUFFICES ASSUME SafetyInv, [NextThreads]_allVars PROVE SafetyInv'
  OBVIOUS
<1>1. ASSUME NEW t \in Threads, CallStep(t)
      PROVE  SafetyInv'
  BY <1>1, CallStepKeepsSafety
<1>2. ASSUME NEW t \in Threads, BeginStep(t)
      PROVE  SafetyInv'
  BY <1>2, StartCallKeepsSafety, PushKeepsSafety, EraseKeepsSafety DEF BeginStep
<1>3. CASE UNCHANGED allVars
  BY <1>3, IdleKeepsSafety DEF allVars, vars
<1> QED BY <1>1, <1>2, <1>3 DEF NextThreads

LEMMA InitSafety == InitThreads => SafetyInv
<1> SUFFICES ASSUME InitThreads PROVE SafetyInv
  OBVIOUS
<1>1. /\ mutex = [m \in Mocks |-> Free] /\ stack = [t \in Threads |-> <<>>]
      /\ calls = 0
  BY DEF InitThreads
<1>2. \A t \in Threads : stack[t] = <<>> /\ DOMAIN stack[t] = {}
  BY <1>1
<1>3. LocksTyped
  BY <1>1 DEF LocksTyped
<1>4. LockInv
  BY <1>1, <1>2, <1>3 DEF LockInv, CallsOwnTheirLocks, LocksAreDistinct,
                          OutermostFromThread, LocksAreOfCalls
<1>5. ExpsShape
  <2>1. exps = <<>> /\ \A s \in Seqs : EmptySequence \in BasicSequences
    BY DEF InitThreads, Init, EmptySequence, BasicSequences
  <2> QED BY <2>1 DEF InitThreads, Init, ExpsShape
<1>6. PointersLive
  BY <1>2 DEF PointersLive
<1> QED BY <1>4, <1>5, <1>6 DEF SafetyInv

LEMMA Safety == SpecThreads => []SafetyInv
BY InitSafety, StepKeepsSafety, PTL DEF SpecThreads

-----------------------------------------------------------------------------
\* However many threads call, create and erase, and whatever the callbacks of
\* calls call, the raw pointers that a call of handle_call holds are those of
\* live expectations.
THEOREM PointersStayValid == SpecThreads => []UsesOnlyLiveExpectations
<1>1. ASSUME SafetyInv PROVE UsesOnlyLiveExpectations
  <2> SUFFICES ASSUME NEW t \in Threads, NEW i \in DOMAIN stack[t],
                      NEW e \in Pointers(stack[t][i])
               PROVE  exps[e].live
    BY DEF UsesOnlyLiveExpectations, Pointers
  <2>1. e \in Live(stack[t][i].mock)
    BY <1>1 DEF SafetyInv, PointersLive
  <2> QED BY <2>1 DEF Live
<1> QED BY <1>1, Safety, PTL

-----------------------------------------------------------------------------
\* Every step of a call leaves the chain of calls as it is, extends it, or
\* takes its innermost call away.
LEMMA ChainSteps ==
    ASSUME SafetyInv, NEW t \in Threads, CallStep(t)
    PROVE  \/ Busy(t) /\ \E f \in Frames : GoOn(t, f) /\ f.mock = Top(t).mock
           \/ \E place \in Places, m \in Mocks, a \in Args :
                 CallBack(t, place, m, a)
           \/ Busy(t) /\ PoppedFrom(t)
           \/ UNCHANGED stack
<1>1. LockInv /\ LocksTyped
  BY DEF SafetyInv, LockInv
<1>2. ASSUME Busy(t), NEW phase \in Phases,
             GoOn(t, [Top(t) EXCEPT !.phase = phase])
      PROVE  \E f \in Frames : GoOn(t, f) /\ f.mock = Top(t).mock
  <2>1. Top(t) \in Frames
    BY <1>1, <1>2, TopFacts
  <2> QED BY <1>2, <2>1, PhaseFrame
<1>3. CASE Lock(t)
  <2> DEFINE f == [Top(t) EXCEPT !.phase = "evaluate", !.todo = Live(Top(t).mock)]
  <2>1. Busy(t) /\ GoOn(t, f)
    BY <1>3 DEF Lock
  <2>2. Top(t) \in Frames
    BY <1>1, <2>1, TopFacts
  <2>3. Live(Top(t).mock) \in SUBSET Nat
    BY ShapeFacts DEF SafetyInv
  <2>4. f \in Frames /\ f.mock = Top(t).mock
    BY <2>2, <2>3 DEF Frames, Phases
  <2> QED BY <2>1, <2>4
<1>4. CASE Evaluate(t)
  <2> DEFINE f == Evaluated(Top(t), Max(Top(t).todo))
  <2>1. Busy(t) /\ GoOn(t, f) /\ Top(t).todo # {} /\ Holds(Top(t))
    BY <1>4 DEF Evaluate, Holds
  <2>2. Top(t) \in Frames /\ Pointers(Top(t)) \subseteq DOMAIN exps
    BY <2>1, TopPointers
  <2>3. Max(Top(t).todo) \in Top(t).todo
    <3>1. Top(t).todo \in SUBSET (1 .. Len(exps)) /\ Len(exps) \in Nat
      BY <2>2, ShapeFacts DEF SafetyInv, Pointers
    <3> QED BY <2>1, <3>1, NewestExists
  <2>4. f \in Frames /\ f.mock = Top(t).mock
    BY <2>2, <2>3, EvaluatedFrame
  <2> QED BY <2>1, <2>4
<1>5. CASE ConsumeBest(t)
  <2>1. PICK best \in Top(t).matches :
            GoOn(t, [Top(t) EXCEPT !.phase = "side_effect", !.chosen = best])
    BY <1>5, ConsumeBestPick
  <2>2. Busy(t) /\ Top(t) \in Frames
    BY <1>1, <1>5, TopFacts DEF ConsumeBest
  <2> QED BY <2>1, <2>2, ChosenFrame
<1>6. CASE Fail(t)
  BY <1>2, <1>6 DEF Fail, Phases
<1>7. CASE ReturnFromSideEffects(t)
  BY <1>2, <1>7 DEF ReturnFromSideEffects, Phases
<1>8. CASE Finalize(t)
  BY <1>2, <1>8 DEF Finalize, Phases
<1>9. CASE Return(t)
  BY <1>1, <1>9, ReturnResult DEF Return
<1>10. CASE Unwind(t)
  BY <1>1, <1>10, UnwindResult DEF Unwind
<1>11. CASE TerminateOnStaleReport(t) \/ ThrowFromSideEffect(t) \/ UnwindSideEffect(t)
  BY <1>11 DEF TerminateOnStaleReport, ThrowFromSideEffect, UnwindSideEffect,
               threadVars
<1> QED BY <1>3, <1>4, <1>5, <1>6, <1>7, <1>8, <1>9, <1>10, <1>11 DEF CallStep

\* No mock calls itself through its callbacks, not by way of others either:
\* mocks have ranks and callbacks call mocks of lower rank.
Ranks(rank) ==
    /\ rank \in [Mocks -> Nat]
    /\ \A place \in Places, m \in Mocks : \A n \in Nested[place][m] :
          rank[n] < rank[m]

\* Inwards, the ranks of a thread's calls descend.
RanksDescend(rank) ==
    \A t \in Threads : \A i, j \in DOMAIN stack[t] :
        i < j => rank[stack[t][i].mock] < rank[stack[t][j].mock]

\* A callback calls a mock of a lower rank, and every caller keeps its own.
LEMMA CallBackKeepsRanks ==
    ASSUME NEW rank, Ranks(rank), SafetyInv, RanksDescend(rank),
           NEW t \in Threads, NEW place \in Places, NEW m \in Mocks,
           NEW a \in Args, CallBack(t, place, m, a)
    PROVE  RanksDescend(rank)'
<1> DEFINE n == Len(stack[t])
           g == Interrupted(Top(t), place)
<1>1. LocksTyped /\ Busy(t) /\ DOMAIN exps \subseteq Nat
  BY ShapeFacts DEF SafetyInv, LockInv, CallBack
<1>2. /\ n \in Nat /\ n > 0 /\ DOMAIN stack[t] = 1 .. n /\ 1 \in DOMAIN stack[t]
      /\ Top(t) = stack[t][1] /\ Top(t) \in Frames
      /\ \A i \in DOMAIN stack[t] : stack[t][i] \in Frames
  BY <1>1, TopFacts
<1>3. /\ \A u \in Threads : u # t => stack'[u] = stack[u]
      /\ stack'[t] \in Seq(Frames) /\ Len(stack'[t]) = n + 1
      /\ stack'[t][1] = Frame(m, a, place)
      /\ stack'[t][2] = g /\ g.mock = Top(t).mock
      /\ \A i \in 3 .. (n + 1) : stack'[t][i] = stack[t][i - 1]
  BY <1>1, CallBackResult
<1>4. DOMAIN stack'[t] = 1 .. (n + 1)
  BY <1>3
<1> HIDE DEF g
<1>5. \A i \in 2 .. (n + 1) :
         i - 1 \in DOMAIN stack[t] /\ stack'[t][i].mock = stack[t][i - 1].mock
  <2> SUFFICES ASSUME NEW i \in 2 .. (n + 1)
      PROVE  i - 1 \in DOMAIN stack[t] /\ stack'[t][i].mock = stack[t][i - 1].mock
    OBVIOUS
  <2>1. CASE i = 2
    BY <1>2, <1>3, <2>1
  <2>2. CASE i # 2
    BY <1>2, <1>3, <2>2
  <2> QED BY <2>1, <2>2
<1>6. stack'[t][1].mock = m
  BY <1>3 DEF Frame
<1>7. rank[m] < rank[Top(t).mock]
  <2>1. Top(t).mock \in Mocks /\ m \in Nested[place][Top(t).mock]
    BY <1>2 DEF CallBack, Frames
  <2> QED BY <2>1 DEF Ranks
<1>8. \A i \in DOMAIN stack[t] :
         rank[stack[t][i].mock] \in Nat /\ rank[m] < rank[stack[t][i].mock]
  <2> SUFFICES ASSUME NEW i \in DOMAIN stack[t]
               PROVE  /\ rank[stack[t][i].mock] \in Nat
                      /\ rank[m] < rank[stack[t][i].mock]
    OBVIOUS
  <2>1. /\ rank[stack[t][i].mock] \in Nat /\ rank[Top(t).mock] \in Nat
        /\ rank[m] \in Nat
    BY <1>2 DEF Ranks, Frames
  <2>2. CASE i = 1
    BY <1>2, <1>7, <2>1, <2>2
  <2>3. CASE i # 1
    <3>1. 1 < i /\ i \in 1 .. n
      BY <1>2, <2>3
    <3>2. rank[stack[t][1].mock] < rank[stack[t][i].mock]
      BY <1>2, <3>1 DEF RanksDescend
    <3> QED BY <1>2, <1>7, <2>1, <3>2
  <2> QED BY <2>2, <2>3
<1> SUFFICES ASSUME NEW u \in Threads,
                    NEW i \in DOMAIN stack'[u], NEW j \in DOMAIN stack'[u], i < j
             PROVE  rank[stack'[u][i].mock] < rank[stack'[u][j].mock]
  BY DEF RanksDescend
<1>9. CASE u # t
  BY <1>3, <1>9 DEF RanksDescend
<1>10. CASE u = t /\ i = 1
  <2>1. j \in 2 .. (n + 1)
    BY <1>4, <1>10
  <2> QED BY <1>5, <1>6, <1>8, <1>10, <2>1
<1>11. CASE u = t /\ i # 1
  <2>1. i \in 2 .. (n + 1) /\ j \in 2 .. (n + 1) /\ i - 1 < j - 1
    BY <1>2, <1>4, <1>11
  <2> QED BY <1>5, <1>11, <2>1 DEF RanksDescend
<1> QED BY <1>9, <1>10, <1>11

LEMMA StepKeepsRanks ==
    ASSUME NEW rank, Ranks(rank), SafetyInv, RanksDescend(rank),
           [NextThreads]_allVars
    PROVE  RanksDescend(rank)'
<1>1. LocksTyped
  BY DEF SafetyInv, LockInv
<1>2. ASSUME UNCHANGED stack
      PROVE  RanksDescend(rank)'
  BY <1>2 DEF RanksDescend
<1>3. ASSUME NEW t \in Threads, Busy(t), NEW f \in Frames, GoOn(t, f),
             f.mock = Top(t).mock
      PROVE  RanksDescend(rank)'
  <2>1. /\ DOMAIN stack[t] = 1 .. Len(stack[t]) /\ Len(stack[t]) \in Nat
        /\ Top(t) = stack[t][1]
    BY <1>1, <1>3, TopFacts
  <2>2. /\ \A u \in Threads : u # t => stack'[u] = stack[u]
        /\ DOMAIN stack'[t] = DOMAIN stack[t]
        /\ stack'[t][1] = f
        /\ \A i \in DOMAIN stack[t] : i # 1 => stack'[t][i] = stack[t][i]
    BY <1>1, <1>3, <2>1, GoOnResult
  <2>3. \A i \in DOMAIN stack[t] : stack'[t][i].mock = stack[t][i].mock
    BY <1>3, <2>1, <2>2
  <2>4. \A u \in Threads :
           /\ DOMAIN stack'[u] = DOMAIN stack[u]
           /\ \A i \in DOMAIN stack[u] : stack'[u][i].mock = stack[u][i].mock
    BY <2>2, <2>3
  <2> QED BY <2>4 DEF RanksDescend
<1>4. ASSUME NEW t \in Threads, Busy(t), PoppedFrom(t)
      PROVE  RanksDescend(rank)'
  <2> DEFINE n == Len(stack[t])
  <2>1. n \in Nat /\ DOMAIN stack[t] = 1 .. n
    BY <1>1, TopFacts
  <2>2. /\ \A u \in Threads : u # t => stack'[u] = stack[u]
        /\ stack'[t] \in Seq(Frames) /\ Len(stack'[t]) = n - 1
        /\ \A i \in 1 .. (n - 1) : stack'[t][i].mock = stack[t][i + 1].mock
    BY <1>4 DEF PoppedFrom
  <2>3. DOMAIN stack'[t] = 1 .. (n - 1)
    BY <2>2
  <2> SUFFICES ASSUME NEW u \in Threads, NEW i \in DOMAIN stack'[u],
                      NEW j \in DOMAIN stack'[u], i < j
               PROVE  rank[stack'[u][i].mock] < rank[stack'[u][j].mock]
    BY DEF RanksDescend
  <2>4. CASE u = t
    <3>1. /\ i \in 1 .. (n - 1) /\ j \in 1 .. (n - 1) /\ i + 1 < j + 1
          /\ i + 1 \in DOMAIN stack[t] /\ j + 1 \in DOMAIN stack[t]
      BY <2>1, <2>3, <2>4
    <3>2. rank[stack[t][i + 1].mock] < rank[stack[t][j + 1].mock]
      BY <3>1 DEF RanksDescend
    <3> QED BY <2>2, <2>4, <3>1, <3>2
  <2>5. CASE u # t
    BY <2>2, <2>5 DEF RanksDescend
  <2> QED BY <2>4, <2>5
<1>5. ASSUME NEW t \in Threads, CallStep(t)
      PROVE  RanksDescend(rank)'
  BY <1>2, <1>3, <1>4, <1>5, ChainSteps, CallBackKeepsRanks
<1>6. ASSUME NEW t \in Threads, NEW m \in Mocks, NEW a \in Args, StartCall(t, m, a)
      PROVE  RanksDescend(rank)'
  <2>1. stack' = [stack EXCEPT ![t] = <<Frame(m, a, "thread")>>]
    BY <1>6 DEF StartCall
  <2>2. /\ \A u \in Threads : u # t => stack'[u] = stack[u]
        /\ DOMAIN stack'[t] = {1}
    BY <1>1, <2>1 DEF LocksTyped
  <2> QED BY <2>2 DEF RanksDescend
<1>7. ASSUME NEW t \in Threads, BeginStep(t)
      PROVE  RanksDescend(rank)'
  BY <1>2, <1>6, <1>7 DEF BeginStep, Push, Erase, threadVars
<1>8. CASE UNCHANGED allVars
  BY <1>2, <1>8 DEF allVars, threadVars
<1> QED BY <1>5, <1>7, <1>8 DEF NextThreads

\* Calls never wait for one another in a circle: if mocks are not reentered, not
\* even through others, then some unfinished call is able to go on.
THEOREM SomeCallGoesOn ==
    ASSUME NEW rank, Ranks(rank)
    PROVE  SpecThreads => []NoDeadlock
<1>1. InitThreads => RanksDescend(rank)
  BY DEF InitThreads, RanksDescend
<1>2. SafetyInv /\ RanksDescend(rank) /\ [NextThreads]_allVars => RanksDescend(rank)'
  BY StepKeepsRanks
<1>3. SafetyInv /\ RanksDescend(rank) => NoDeadlock
  <2> SUFFICES ASSUME SafetyInv, RanksDescend(rank),
                      NEW t0 \in Threads, Busy(t0),
                      \A t \in Threads : Busy(t) => Waiting(t)
               PROVE  FALSE
    BY DEF NoDeadlock
  <2> DEFINE RankOf(t) == rank[Top(t).mock]
             T == {RankOf(t) : t \in {u \in Threads : Busy(u)}}
  <2>1. LocksTyped
    BY DEF SafetyInv, LockInv
  <2>2. \A t \in Threads : Busy(t) => Top(t).mock \in Mocks /\ RankOf(t) \in Nat
    BY <2>1, TopFacts DEF Frames, Ranks
  <2>3. T \subseteq Nat /\ T # {}
    BY <2>2
  <2>4. PICK x \in T : \A y \in T : ~(<<y, x>> \in OpToRel(<, Nat))
    BY <2>3, NatLessThanWellFounded, WFMin
  <2>5. PICK t \in Threads : Busy(t) /\ x = RankOf(t)
    OBVIOUS
  \* The owner of the lock that t waits for, and its call that holds it.
  <2> DEFINE m == Top(t).mock
             u == mutex[m]
  <2>6. /\ m \in Mocks /\ u # Free /\ u \in Threads
    BY <2>1, <2>2, <2>5 DEF Waiting, LocksTyped
  <2>7. PICK i \in DOMAIN stack[u] : Holds(stack[u][i]) /\ stack[u][i].mock = m
    BY <2>6 DEF SafetyInv, LockInv, LocksAreOfCalls
  <2>8. Busy(u)
    BY <2>7 DEF Busy
  <2>9. ~Holds(Top(u)) /\ Top(u) = stack[u][1] /\ 1 \in DOMAIN stack[u]
    BY <2>1, <2>6, <2>8, TopFacts DEF Waiting, Holds
  <2>10. 1 < i
    BY <2>1, <2>6, <2>7, <2>9, TopFacts
  <2>11. RankOf(u) < x
    BY <2>5, <2>6, <2>7, <2>9, <2>10 DEF RanksDescend
  <2>12. RankOf(u) \in T /\ RankOf(u) \in Nat /\ x \in Nat
    BY <2>2, <2>3, <2>6, <2>8
  <2>13. <<RankOf(u), x>> \in OpToRel(<, Nat)
    BY <2>11, <2>12 DEF OpToRel
  <2> QED BY <2>4, <2>12, <2>13
<1> QED BY <1>1, <1>2, <1>3, Safety, PTL DEF SpecThreads

-----------------------------------------------------------------------------
\* How a test may use the mocks for the results below.  Sequences "are not
\* thread-safe and are never intended to be": their users are one thread, or
\* there are none.
NoSequencesUsed == \A S \in Attachments : S = {}

OneThread == \A t, u \in Threads : t = u

MatchersMakeNoCalls == \A m \in Mocks : Nested["matcher"][m] = {}

SequencesConfined == NoSequencesUsed \/ (OneThread /\ MatchersMakeNoCalls)

\* A call has sorted what it visited as the whole call would do it now.
SortedCompletely(f) ==
    /\ f.matches = {e \in Accepting(f.mock, f.arg) \ f.todo :
                       IsApplicable(exps[e])}
    /\ f.inapplicable = {e \in Accepting(f.mock, f.arg) \ f.todo :
                            ~IsApplicable(exps[e])}

\* The i-th call of a thread: below the innermost one, only a call that one of
\* its own matchers interrupted is still evaluating.
EvaluationOK(f, i) ==
    /\ i > 1 /\ f.phase = "evaluate" => f.reentered
    /\ MatchersMakeNoCalls => ~f.reentered
    /\ SequencesConfined /\ f.phase = "evaluate"
          => \A e \in f.matches : IsApplicable(exps[e])
    /\ (NoSequencesUsed \/ OneThread) /\ f.phase = "evaluate" /\ ~f.reentered
          => SortedCompletely(f)

Unattached ==
    NoSequencesUsed =>
        \A e \in DOMAIN exps : \A s \in Seqs : exps[e].at[s] = NotAttached

EvaluationInv ==
    /\ SafetyInv
    /\ Unattached
    /\ \A t \in Threads : \A i \in DOMAIN stack[t] : EvaluationOK(stack[t][i], i)

\* A step that changes nothing a call of mock k looks at.
JudgedAlike(k) ==
    /\ Live(k)' = Live(k)
    /\ \A e \in Live(k) :
          /\ exps'[e].verdict = exps[e].verdict
          /\ IsApplicable(exps[e])' <=> IsApplicable(exps[e])
          /\ exps'[e].mock = exps[e].mock

\* What was evaluated stays right while the expectations are judged alike.
LEMMA JudgedAlikeKeepsEvaluation ==
    ASSUME NEW f, NEW i, EvaluationOK(f, i),
           f.phase = "evaluate" =>
               f.matches \subseteq Live(f.mock) /\ JudgedAlike(f.mock)
    PROVE  EvaluationOK(f, i)'
<1>1. CASE f.phase # "evaluate"
  BY <1>1 DEF EvaluationOK, MatchersMakeNoCalls
<1>2. CASE f.phase = "evaluate"
  <2>1. Accepting(f.mock, f.arg)' = Accepting(f.mock, f.arg)
    BY <1>2 DEF JudgedAlike, Accepting
  <2>2. \A e \in Live(f.mock) : IsApplicable(exps[e])' <=> IsApplicable(exps[e])
    BY <1>2 DEF JudgedAlike
  <2>3. Accepting(f.mock, f.arg) \subseteq Live(f.mock)
    BY DEF Accepting
  <2>4. SortedCompletely(f) => SortedCompletely(f)'
    BY <2>1, <2>2, <2>3 DEF SortedCompletely
  <2>5. (\A e \in f.matches : IsApplicable(exps[e]))
           => (\A e \in f.matches : IsApplicable(exps[e])')
    BY <1>2, <2>2
  <2> QED BY <2>4, <2>5 DEF EvaluationOK, MatchersMakeNoCalls, SequencesConfined,
             NoSequencesUsed, OneThread
<1> QED BY <1>1, <1>2

LEMMA UnchangedJudgedAlike ==
    ASSUME UNCHANGED <<seqs, exps>>
    PROVE  \A k : JudgedAlike(k)
BY DEF JudgedAlike, Live, IsApplicable, IsSaturated, SequencesOf

\* The innermost call goes on, the expectations are as they were.
LEMMA GoOnKeepsEvaluation ==
    ASSUME EvaluationInv, SafetyInv', UNCHANGED <<seqs, exps>>,
           NEW t \in Threads, Busy(t), NEW f \in Frames, GoOn(t, f),
           EvaluationOK(f, 1)
    PROVE  EvaluationInv'
<1>1. LocksTyped
  BY DEF EvaluationInv, SafetyInv, LockInv
<1>2. DOMAIN stack[t] = 1 .. Len(stack[t]) /\ Len(stack[t]) \in Nat
  BY <1>1, TopFacts
<1>3. /\ \A u \in Threads : u # t => stack'[u] = stack[u]
      /\ DOMAIN stack'[t] = DOMAIN stack[t]
      /\ stack'[t][1] = f
      /\ \A i \in DOMAIN stack[t] : i # 1 => stack'[t][i] = stack[t][i]
  BY <1>1, <1>2, GoOnResult
<1>4. ASSUME NEW u \in Threads, NEW i \in DOMAIN stack'[u]
      PROVE  EvaluationOK(stack[u][i], i)'
  <2>1. CASE u = t /\ i = 1
    BY <1>3, <2>1 DEF EvaluationOK, SortedCompletely, Accepting, Live,
       IsApplicable, IsSaturated, SequencesOf, MatchersMakeNoCalls,
       SequencesConfined, NoSequencesUsed, OneThread
  <2>2. CASE u # t \/ i # 1
    <3>1. stack'[u][i] = stack[u][i] /\ i \in DOMAIN stack[u]
      BY <1>3, <2>2
    <3>2. EvaluationOK(stack[u][i], i)
      BY <3>1 DEF EvaluationInv
    <3> QED BY <3>1, <3>2 DEF EvaluationOK, SortedCompletely, Accepting, Live,
       IsApplicable, IsSaturated, SequencesOf, MatchersMakeNoCalls,
       SequencesConfined, NoSequencesUsed, OneThread
  <2> QED BY <2>1, <2>2
<1>5. Unattached'
  BY DEF EvaluationInv, Unattached, NoSequencesUsed
<1> QED BY <1>4, <1>5 DEF EvaluationInv

\* The evaluation of a call, action by action.
LEMMA PhaseKeepsEvaluation ==
    ASSUME EvaluationInv, NEW t \in Threads, Busy(t), Holds(Top(t)),
           NEW phase \in Phases \ {"lock", "evaluate"},
           GoOn(t, [Top(t) EXCEPT !.phase = phase]),
           UNCHANGED <<seqs, exps, mutex, calls>>
    PROVE  EvaluationInv'
<1> DEFINE g == [Top(t) EXCEPT !.phase = phase]
<1>1. LocksTyped /\ SafetyInv
  BY DEF EvaluationInv, SafetyInv, LockInv
<1>2. SafetyInv'
  BY <1>1, PhaseKeepsSafety
<1>3. Top(t) \in Frames /\ EvaluationOK(Top(t), 1)
  BY <1>1, TopFacts DEF EvaluationInv
<1>4. g \in Frames /\ g.phase = phase /\ g.reentered = Top(t).reentered
  BY <1>3, PhaseFrame
<1> HIDE DEF g
<1>5. EvaluationOK(g, 1)
  BY <1>3, <1>4 DEF EvaluationOK
<1>6. GoOn(t, g)
  BY DEF g
<1> QED BY <1>2, <1>4, <1>5, <1>6, GoOnKeepsEvaluation

LEMMA LockKeepsEvaluation ==
    ASSUME EvaluationInv, NEW t \in Threads, Lock(t)
    PROVE  EvaluationInv'
<1> DEFINE f == [Top(t) EXCEPT !.phase = "evaluate", !.todo = Live(Top(t).mock)]
<1>1. /\ LocksTyped /\ SafetyInv /\ Busy(t) /\ Top(t).phase = "lock"
      /\ GoOn(t, f) /\ UNCHANGED <<seqs, exps>>
  BY DEF EvaluationInv, SafetyInv, LockInv, Lock, vars
<1>2. SafetyInv'
  BY <1>1, LockKeepsSafety
<1>3. /\ 1 \in DOMAIN stack[t] /\ Top(t) = stack[t][1] /\ Top(t) \in Frames
      /\ EvaluationOK(Top(t), 1)
  BY <1>1, TopFacts DEF EvaluationInv
<1>4. Pointers(Top(t)) = {}
  BY <1>1, <1>3 DEF SafetyInv, PointersLive, Holds
<1>5. /\ f \in Frames /\ f.mock = Top(t).mock /\ f.todo = Live(Top(t).mock)
      /\ f.matches = {} /\ f.inapplicable = {} /\ f.reentered = Top(t).reentered
  <2>1. Live(Top(t).mock) \in SUBSET Nat
    BY <1>1, ShapeFacts DEF SafetyInv
  <2>2. Top(t).matches = {} /\ Top(t).inapplicable = {}
    BY <1>4 DEF Pointers
  <2> QED BY <1>3, <2>1, <2>2 DEF Frames, Phases
<1> HIDE DEF f
<1>6. SortedCompletely(f)
  BY <1>5 DEF SortedCompletely, Accepting
<1>7. EvaluationOK(f, 1)
  BY <1>3, <1>5, <1>6 DEF EvaluationOK
<1> QED BY <1>1, <1>2, <1>5, <1>7, GoOnKeepsEvaluation

LEMMA EvaluateKeepsEvaluation ==
    ASSUME EvaluationInv, NEW t \in Threads, Evaluate(t)
    PROVE  EvaluationInv'
<1> DEFINE e == Max(Top(t).todo)
           g == Evaluated(Top(t), e)
<1>1. /\ Busy(t) /\ Top(t).phase = "evaluate" /\ Top(t).todo # {} /\ GoOn(t, g)
      /\ UNCHANGED <<seqs, exps>> /\ LocksTyped /\ SafetyInv
  BY DEF Evaluate, vars, EvaluationInv, SafetyInv, LockInv
<1>2. SafetyInv'
  BY <1>1, EvaluateKeepsSafety
<1>3. /\ Top(t) \in Frames
      /\ Pointers(Top(t)) \subseteq Live(Top(t).mock)
      /\ Pointers(Top(t)) \subseteq DOMAIN exps
  BY <1>1, TopPointers DEF Holds
<1>4. EvaluationOK(Top(t), 1)
  BY <1>1, TopFacts DEF EvaluationInv
<1>5. e \in Top(t).todo /\ e \in Live(Top(t).mock)
  <2>1. Top(t).todo \in SUBSET (1 .. Len(exps)) /\ Len(exps) \in Nat
    BY <1>1, <1>3, ShapeFacts DEF SafetyInv, Pointers
  <2>2. e \in Top(t).todo
    BY <1>1, <2>1, NewestExists
  <2> QED BY <1>3, <2>2 DEF Pointers
<1> HIDE DEF e
<1>6. /\ g \in Frames /\ g.mock = Top(t).mock /\ g.phase = Top(t).phase
      /\ g.arg = Top(t).arg /\ g.reentered = Top(t).reentered
      /\ g.todo = Top(t).todo \ {e}
      /\ g.matches = IF /\ exps[e].verdict[Top(t).arg] = "match"
                        /\ IsApplicable(exps[e])
                     THEN Top(t).matches \cup {e} ELSE Top(t).matches
      /\ g.inapplicable = IF /\ exps[e].verdict[Top(t).arg] = "match"
                             /\ ~IsApplicable(exps[e])
                          THEN Top(t).inapplicable \cup {e}
                          ELSE Top(t).inapplicable
  BY <1>3, <1>5, EvaluatedFrame
<1> HIDE DEF g
<1>7. SortedCompletely(Top(t)) => SortedCompletely(g)
  BY <1>5, <1>6 DEF SortedCompletely, Accepting
<1>8. (\A x \in Top(t).matches : IsApplicable(exps[x]))
         => \A x \in g.matches : IsApplicable(exps[x])
  BY <1>6
<1>9. EvaluationOK(g, 1)
  BY <1>1, <1>4, <1>6, <1>7, <1>8 DEF EvaluationOK
<1> QED BY <1>1, <1>2, <1>6, <1>9, GoOnKeepsEvaluation

\* Without sequences, a use of an expectation is nothing to the others.
LEMMA UseDisturbsNoOther ==
    ASSUME ExpsShape, Unattached, NoSequencesUsed, NEW best \in DOMAIN exps,
           ConsumeExpectation(best, "return"),
           NEW k, k # exps[best].mock
    PROVE  JudgedAlike(k)
<1>1. /\ DOMAIN exps' = DOMAIN exps /\ Live(k)' = Live(k)
      /\ \A f \in DOMAIN exps : f # best => exps'[f] = exps[f]
  BY ConsumeShape
<1>2. ASSUME NEW e \in Live(k)
      PROVE  /\ exps'[e] = exps[e]
             /\ IsApplicable(exps[e])' <=> IsApplicable(exps[e])
  <2>1. e \in DOMAIN exps /\ e # best
    BY DEF Live
  <2>2. exps'[e] = exps[e] /\ SequencesOf(exps[e]) = {}
    BY <1>1, <2>1 DEF Unattached, SequencesOf
  <2>3. IsApplicable(exps[e]) <=> ~IsSaturated(exps[e])
    BY <2>2 DEF IsApplicable
  <2>4. IsApplicable(exps[e])' <=> ~IsSaturated(exps[e])'
    BY <2>2 DEF IsApplicable, SequencesOf
  <2> QED BY <2>2, <2>3, <2>4 DEF IsSaturated
<1> QED BY <1>1, <1>2 DEF JudgedAlike

LEMMA ConsumeBestKeepsEvaluation ==
    ASSUME EvaluationInv, NEW t \in Threads, ConsumeBest(t)
    PROVE  EvaluationInv'
<1>1. LocksTyped /\ LockInv /\ SafetyInv /\ ExpsShape
  BY DEF EvaluationInv, SafetyInv, LockInv
<1>2. PICK best \in Top(t).matches :
          /\ best \in Live(Top(t).mock)
          /\ best \in DOMAIN exps
          /\ ConsumeExpectation(best, "return")
          /\ GoOn(t, [Top(t) EXCEPT !.phase = "side_effect", !.chosen = best])
  BY <1>1, ConsumeBestPick
<1> DEFINE g == [Top(t) EXCEPT !.phase = "side_effect", !.chosen = best]
           m == Top(t).mock
<1>3. /\ Busy(t) /\ Holds(Top(t)) /\ SafetyInv' /\ Top(t) \in Frames
      /\ 1 \in DOMAIN stack[t] /\ Top(t) = stack[t][1]
      /\ DOMAIN stack[t] = 1 .. Len(stack[t]) /\ Len(stack[t]) \in Nat
  BY <1>1, ConsumeBestPick, ConsumeBestKeepsSafety, TopFacts
<1>4. g \in Frames /\ g.phase = "side_effect" /\ g.reentered = Top(t).reentered
  BY <1>2, <1>3, ChosenFrame
<1>5. GoOn(t, g)
  BY <1>2
<1> HIDE DEF g
<1>6. /\ \A u \in Threads : u # t => stack'[u] = stack[u]
      /\ DOMAIN stack'[t] = DOMAIN stack[t]
      /\ stack'[t][1] = g
      /\ \A i \in DOMAIN stack[t] : i # 1 => stack'[t][i] = stack[t][i]
  BY <1>1, <1>3, <1>4, <1>5, GoOnResult
<1>7. exps[best].mock = m
  BY <1>2 DEF Live
\* Every other call that evaluates holds the lock of another mock.
<1>8. ASSUME NEW u \in Threads, NEW i \in DOMAIN stack[u], u # t \/ i # 1,
             Holds(stack[u][i])
      PROVE  stack[u][i].mock # m
  <2>1. CASE u = t
    BY <1>1, <1>3, <1>8, <2>1 DEF LockInv, LocksAreDistinct
  <2>2. CASE u # t
    <3>1. mutex[stack[u][i].mock] = u
      BY <1>1, <1>8 DEF LockInv, CallsOwnTheirLocks
    <3>2. mutex[m] = t
      BY <1>1, <1>3, TopPointers
    <3> QED BY <2>2, <3>1, <3>2
  <2> QED BY <2>1, <2>2
<1>9. ASSUME NEW u \in Threads, NEW i \in DOMAIN stack[u], u # t \/ i # 1
      PROVE  \A f : f = stack[u][i] => EvaluationOK(f, i)'
  <2> SUFFICES ASSUME NEW f, f = stack[u][i] PROVE EvaluationOK(f, i)'
    OBVIOUS
  <2>1. EvaluationOK(f, i) /\ i \in Nat \ {0} /\ (i # 1 => i > 1)
    BY <1>1, TopFacts DEF EvaluationInv
  <2>2. CASE f.phase # "evaluate"
    BY <2>1, <2>2 DEF EvaluationOK, MatchersMakeNoCalls
  <2>3. CASE f.phase = "evaluate" /\ NoSequencesUsed
    <3>1. Holds(f) /\ f.mock # m
      BY <1>8, <1>9, <2>3 DEF Holds
    <3>2. JudgedAlike(f.mock)
      BY <1>1, <1>2, <1>7, <2>3, <3>1, UseDisturbsNoOther DEF EvaluationInv
    <3>3. f.matches \subseteq Live(f.mock)
      BY <1>1, <3>1 DEF SafetyInv, PointersLive, Pointers
    <3> QED BY <2>1, <3>2, <3>3, JudgedAlikeKeepsEvaluation
  <2>4. CASE f.phase = "evaluate" /\ ~NoSequencesUsed
    <3>1. OneThread => f.reentered
      BY <1>9, <2>1, <2>4 DEF OneThread, EvaluationOK
    <3>2. ~SequencesConfined
      BY <2>1, <2>4, <3>1 DEF SequencesConfined, EvaluationOK
    <3> QED BY <2>1, <2>4, <3>1, <3>2 DEF EvaluationOK, MatchersMakeNoCalls,
               SequencesConfined, NoSequencesUsed, OneThread
  <2> QED BY <2>2, <2>3, <2>4
<1>10. \A f : f = g => EvaluationOK(f, 1)'
  <2> SUFFICES ASSUME NEW f, f = g PROVE EvaluationOK(f, 1)'
    OBVIOUS
  <2>1. EvaluationOK(Top(t), 1)
    BY <1>3 DEF EvaluationInv
  <2>2. MatchersMakeNoCalls => ~f.reentered
    BY <1>4, <2>1 DEF EvaluationOK
  <2>3. f.phase = "side_effect"
    BY <1>4
  <2> QED BY <2>2, <2>3 DEF EvaluationOK, MatchersMakeNoCalls
<1>11. ASSUME NEW u \in Threads, NEW i \in DOMAIN stack'[u]
       PROVE  EvaluationOK(stack[u][i], i)'
  <2>1. CASE u = t /\ i = 1
    BY <1>6, <1>10, <2>1 DEF EvaluationOK, SortedCompletely
  <2>2. CASE u # t \/ i # 1
    <3>1. stack'[u][i] = stack[u][i] /\ i \in DOMAIN stack[u]
      BY <1>6, <2>2
    <3> QED BY <1>9, <2>2, <3>1 DEF EvaluationOK, SortedCompletely
  <2> QED BY <2>1, <2>2
<1>12. Unattached'
  BY <1>1, <1>2, ConsumeShape DEF EvaluationInv, Unattached, NoSequencesUsed
<1> QED BY <1>3, <1>11, <1>12 DEF EvaluationInv

\* Nothing is judged otherwise if neither sequences nor expectations change.
LEMMA FrozenEvaluation ==
    ASSUME UNCHANGED <<seqs, exps>>, NEW f, NEW i, EvaluationOK(f, i)
    PROVE  EvaluationOK(f, i)'
BY DEF EvaluationOK, SortedCompletely, Accepting, Live, IsApplicable,
       IsSaturated, SequencesOf, MatchersMakeNoCalls, SequencesConfined,
       NoSequencesUsed, OneThread

\* An interrupted call is either done with evaluating or marked as reentered.
LEMMA InterruptedEvaluation ==
    ASSUME NEW f \in Frames, EvaluationOK(f, 1), NEW place \in Places,
           AtPlace(f, place), MatchersMakeNoCalls => place # "matcher"
    PROVE  EvaluationOK(Interrupted(f, place), 2)
<1> DEFINE g == Interrupted(f, place)
<1>1. CASE place = "matcher"
  <2>1. g = [f EXCEPT !.visited = TRUE, !.reentered = TRUE]
    BY <1>1 DEF Interrupted
  <2>2. g.reentered = TRUE /\ g.phase = f.phase /\ g.matches = f.matches
    BY <2>1 DEF Frames
  <2> HIDE DEF g
  <2>3. EvaluationOK(g, 2)
    BY <1>1, <2>2 DEF EvaluationOK
  <2> QED BY <2>3 DEF g
<1>2. CASE place # "matcher"
  <2>1. g.phase # "evaluate" /\ g.reentered = f.reentered
    BY <1>2 DEF Interrupted, Frames, Places
  <2> HIDE DEF g
  <2>2. EvaluationOK(g, 2)
    BY <2>1 DEF EvaluationOK
  <2> QED BY <2>2 DEF g
<1> QED BY <1>1, <1>2

LEMMA CallBackKeepsEvaluation ==
    ASSUME EvaluationInv, NEW t \in Threads, NEW place \in Places,
           NEW m \in Mocks, NEW a \in Args, CallBack(t, place, m, a)
    PROVE  EvaluationInv'
<1> DEFINE n == Len(stack[t])
           g == Interrupted(Top(t), place)
           c == Frame(m, a, place)
<1>1. /\ LocksTyped /\ SafetyInv /\ Busy(t) /\ UNCHANGED <<seqs, exps>>
      /\ DOMAIN exps \subseteq Nat
  BY ShapeFacts DEF EvaluationInv, SafetyInv, LockInv, CallBack, vars
<1>2. /\ n \in Nat /\ n > 0 /\ DOMAIN stack[t] = 1 .. n
      /\ Top(t) = stack[t][1] /\ Top(t) \in Frames
      /\ EvaluationOK(Top(t), 1)
  BY <1>1, TopFacts DEF EvaluationInv
<1>3. /\ \A u \in Threads : u # t => stack'[u] = stack[u]
      /\ stack'[t] \in Seq(Frames) /\ Len(stack'[t]) = n + 1
      /\ stack'[t][1] = c /\ stack'[t][2] = g
      /\ \A i \in 3 .. (n + 1) : stack'[t][i] = stack[t][i - 1]
  BY <1>1, CallBackResult
<1>4. DOMAIN stack'[t] = 1 .. (n + 1)
  BY <1>3
<1>5. EvaluationOK(c, 1)
  BY DEF EvaluationOK, Frame
<1>6. EvaluationOK(g, 2)
  <2>1. AtPlace(Top(t), place)
    BY DEF CallBack
  <2>2. MatchersMakeNoCalls => place # "matcher"
    BY <1>2 DEF MatchersMakeNoCalls, CallBack, Frames
  <2> QED BY <1>2, <2>1, <2>2, InterruptedEvaluation
<1> HIDE DEF g, c
<1>7. ASSUME NEW u \in Threads, NEW i \in DOMAIN stack'[u]
      PROVE  \A f : f = stack'[u][i] => EvaluationOK(f, i)
  <2>1. CASE u # t
    BY <1>3, <2>1 DEF EvaluationInv
  <2>2. CASE u = t /\ i = 1
    BY <1>3, <1>5, <2>2
  <2>3. CASE u = t /\ i = 2
    BY <1>3, <1>6, <2>3
  <2>4. CASE u = t /\ i \in 3 .. (n + 1)
    <3>1. i - 1 \in DOMAIN stack[t] /\ i - 1 > 1 /\ i > 1
      BY <1>2, <2>4
    <3>2. EvaluationOK(stack[t][i - 1], i - 1)
      BY <3>1 DEF EvaluationInv
    <3>3. EvaluationOK(stack[t][i - 1], i)
      BY <3>1, <3>2 DEF EvaluationOK
    <3> QED BY <1>3, <2>4, <3>3
  <2> QED BY <1>2, <1>4, <2>1, <2>2, <2>3, <2>4
<1>8. ASSUME NEW u \in Threads, NEW i \in DOMAIN stack'[u]
      PROVE  EvaluationOK(stack[u][i], i)'
  BY <1>1, <1>7, FrozenEvaluation DEF EvaluationOK, SortedCompletely, Accepting,
     Live
<1>9. SafetyInv'
  BY <1>1, CallBackKeepsSafety
<1>10. Unattached'
  BY <1>1 DEF EvaluationInv, Unattached, NoSequencesUsed
<1> QED BY <1>8, <1>9, <1>10 DEF EvaluationInv

\* The call of a mock ends; the others move up by one.
LEMMA PopKeepsEvaluation ==
    ASSUME EvaluationInv, SafetyInv', UNCHANGED <<seqs, exps>>,
           NEW t \in Threads, PoppedFrom(t),
           \A i \in 1 .. (Len(stack[t]) - 1) :
               EvaluationOK(stack[t][i + 1], i + 1)
                   => EvaluationOK(stack'[t][i], i)
    PROVE  EvaluationInv'
<1> DEFINE n == Len(stack[t])
<1>1. n \in Nat /\ DOMAIN stack[t] = 1 .. n
  BY TopFacts DEF EvaluationInv, SafetyInv, LockInv
<1>2. /\ stack'[t] \in Seq(Frames)
      /\ \A u \in Threads : u # t => stack'[u] = stack[u]
      /\ Len(stack'[t]) = n - 1
  BY DEF PoppedFrom
<1>3. DOMAIN stack'[t] = 1 .. (n - 1)
  BY <1>2
<1>4. ASSUME NEW u \in Threads, NEW i \in DOMAIN stack'[u]
      PROVE  \A f : f = stack'[u][i] => EvaluationOK(f, i)
  <2>1. CASE u # t
    BY <1>2, <2>1 DEF EvaluationInv
  <2>2. CASE u = t
    <3>1. i \in 1 .. (n - 1) /\ i + 1 \in DOMAIN stack[t]
      BY <1>1, <1>3, <2>2
    <3>2. EvaluationOK(stack[t][i + 1], i + 1)
      BY <3>1 DEF EvaluationInv
    <3> QED BY <2>2, <3>1, <3>2
  <2> QED BY <2>1, <2>2
<1>5. ASSUME NEW u \in Threads, NEW i \in DOMAIN stack'[u]
      PROVE  EvaluationOK(stack[u][i], i)'
  BY <1>4, FrozenEvaluation DEF EvaluationOK, SortedCompletely, Accepting, Live
<1>6. Unattached'
  BY DEF EvaluationInv, Unattached, NoSequencesUsed
<1> QED BY <1>5, <1>6 DEF EvaluationInv

LEMMA ReturnKeepsEvaluation ==
    ASSUME EvaluationInv, NEW t \in Threads, Return(t)
    PROVE  EvaluationInv'
<1>1. /\ SafetyInv /\ LockInv /\ LocksTyped /\ UNCHANGED <<seqs, exps>>
  BY DEF EvaluationInv, SafetyInv, LockInv, Return, vars
<1>2. SafetyInv'
  BY <1>1, ReturnKeepsSafety
<1>3. /\ PoppedFrom(t)
      /\ \A i \in 1 .. (Len(stack[t]) - 1) : stack'[t][i] = stack[t][i + 1]
  BY <1>1, ReturnResult
<1>4. ASSUME NEW i \in 1 .. (Len(stack[t]) - 1),
             EvaluationOK(stack[t][i + 1], i + 1)
      PROVE  EvaluationOK(stack'[t][i], i)
  <2>1. stack'[t][i] = stack[t][i + 1] /\ i + 1 > 1
    BY <1>3
  <2> QED BY <1>4, <2>1 DEF EvaluationOK
<1> QED BY <1>1, <1>2, <1>3, <1>4, PopKeepsEvaluation

\* A caller that catches the exception of a callback keeps what it evaluated.
LEMMA UnwoundEvaluation ==
    ASSUME NEW f \in Frames, EvaluationOK(f, 2),
           NEW place \in {"matcher", "finalizer"}
    PROVE  EvaluationOK(Unwound(f, place), 1)
<1> DEFINE g == Unwound(f, place)
<1>1. CASE place = "matcher"
  <2>1. /\ g.phase = f.phase /\ g.reentered = f.reentered
        /\ g.matches = f.matches
    BY <1>1 DEF Unwound, Frames
  <2> HIDE DEF g
  <2>2. EvaluationOK(g, 1)
    BY <2>1 DEF EvaluationOK
  <2> QED BY <2>2 DEF g
<1>2. CASE place = "finalizer"
  <2>1. g.phase = "unwind" /\ g.reentered = f.reentered
    BY <1>2 DEF Unwound, Frames
  <2> HIDE DEF g
  <2>2. EvaluationOK(g, 1)
    BY <2>1 DEF EvaluationOK
  <2> QED BY <2>2 DEF g
<1> QED BY <1>1, <1>2

LEMMA UnwindKeepsEvaluation ==
    ASSUME EvaluationInv, NEW t \in Threads, Unwind(t)
    PROVE  EvaluationInv'
<1>1. /\ SafetyInv /\ LockInv /\ LocksTyped /\ UNCHANGED <<seqs, exps>>
  BY DEF EvaluationInv, SafetyInv, LockInv, Unwind, vars
<1>2. SafetyInv'
  BY <1>1, UnwindKeepsSafety
<1>3. PoppedFrom(t)
  BY <1>1, UnwindResult
<1>4. ASSUME NEW i \in 1 .. (Len(stack[t]) - 1),
             EvaluationOK(stack[t][i + 1], i + 1)
      PROVE  EvaluationOK(stack'[t][i], i)
  <2>1. Len(stack[t]) \in Nat /\ DOMAIN stack[t] = 1 .. Len(stack[t])
    BY <1>1, TopFacts
  <2>2. Len(stack[t]) > 1 /\ i + 1 \in DOMAIN stack[t]
    BY <2>1
  <2>3. /\ Top(t).from \in {"matcher", "finalizer"}
        /\ stack'[t][1] = Unwound(stack[t][2], Top(t).from)
        /\ \A j \in 2 .. (Len(stack[t]) - 1) : stack'[t][j] = stack[t][j + 1]
    BY <1>1, <2>2, UnwindResult
  <2>4. CASE i = 1
    <3>1. stack[t][2] \in Frames /\ EvaluationOK(stack[t][2], 2)
      BY <1>1, <1>4, <2>2, <2>4, TopFacts
    <3> QED BY <2>3, <2>4, <3>1, UnwoundEvaluation
  <2>5. CASE i # 1
    <3>1. stack'[t][i] = stack[t][i + 1] /\ i + 1 > 1
      BY <2>1, <2>3, <2>5
    <3> QED BY <1>4, <3>1 DEF EvaluationOK
  <2> QED BY <2>4, <2>5
<1> QED BY <1>1, <1>2, <1>3, <1>4, PopKeepsEvaluation

-----------------------------------------------------------------------------
\* An expectation is pushed or erased: no call that evaluates the expectations
\* of that mock is under way.
LEMMA StepBetweenCallsKeepsEvaluation ==
    ASSUME EvaluationInv, SafetyInv', Unattached', UNCHANGED threadVars,
           NEW t \in Threads, ~Busy(t), NEW m \in Mocks, mutex[m] = Free,
           NoSequencesUsed => \A k : k # m => JudgedAlike(k)
    PROVE  EvaluationInv'
<1>1. LocksTyped /\ SafetyInv /\ LockInv
  BY DEF EvaluationInv, SafetyInv, LockInv
<1>2. ASSUME NEW u \in Threads, NEW i \in DOMAIN stack[u]
      PROVE  \A f : f = stack[u][i] => EvaluationOK(f, i)'
  <2> SUFFICES ASSUME NEW f, f = stack[u][i] PROVE EvaluationOK(f, i)'
    OBVIOUS
  <2>1. EvaluationOK(f, i)
    BY DEF EvaluationInv
  <2>2. CASE NoSequencesUsed /\ f.phase = "evaluate"
    <3>1. Holds(f)
      BY <2>2 DEF Holds
    <3>2. mutex[f.mock] = u
      BY <1>1, <3>1 DEF LockInv, CallsOwnTheirLocks
    <3>3. f.mock # m
      BY <3>2, ThreadsAssumption
    <3>4. f.matches \subseteq Live(f.mock)
      BY <1>1, <3>1 DEF SafetyInv, PointersLive, Pointers
    <3> QED BY <2>1, <2>2, <3>3, <3>4, JudgedAlikeKeepsEvaluation
  <2>3. CASE ~NoSequencesUsed \/ f.phase # "evaluate"
    <3>1. u # t
      BY DEF Busy
    <3>2. ~OneThread
      BY <3>1 DEF OneThread
    <3> QED BY <2>1, <2>3, <3>2 DEF EvaluationOK, MatchersMakeNoCalls,
               SequencesConfined, NoSequencesUsed, OneThread
  <2> QED BY <2>2, <2>3
<1>3. stack' = stack
  BY DEF threadVars
<1>4. ASSUME NEW u \in Threads, NEW i \in DOMAIN stack'[u]
      PROVE  EvaluationOK(stack[u][i], i)'
  BY <1>2, <1>3 DEF EvaluationOK, SortedCompletely
<1> QED BY <1>4 DEF EvaluationInv

LEMMA PushKeepsEvaluation ==
    ASSUME EvaluationInv, NEW t \in Threads, NEW m \in Mocks,
           NEW S \in Attachments, NEW l \in Limits, NEW v \in Verdicts,
           Push(t, m, S, l, v)
    PROVE  EvaluationInv'
<1>1. /\ Create(m, S, l, v) /\ UNCHANGED threadVars /\ ~Busy(t)
      /\ mutex[m] = Free /\ SafetyInv /\ ExpsShape /\ Unattached
  BY DEF Push, EvaluationInv, SafetyInv
<1>2. SafetyInv'
  BY <1>1, PushKeepsSafety
<1>3. /\ DOMAIN exps' = DOMAIN exps \cup {Len(exps) + 1}
      /\ \A e \in DOMAIN exps : exps'[e] = exps[e]
      /\ exps'[Len(exps) + 1] = NewExpectation(m, S, l, v)
      /\ \A k : k # m => Live(k)' = Live(k)
  BY <1>1, CreateShape
<1>4. ASSUME NoSequencesUsed
      PROVE  \A s \in Seqs : NewExpectation(m, S, l, v).at[s] = NotAttached
  BY <1>4 DEF NoSequencesUsed, NewExpectation
<1>5. Unattached'
  BY <1>1, <1>3, <1>4 DEF Unattached, NoSequencesUsed
<1>6. ASSUME NoSequencesUsed, NEW k, k # m
      PROVE  JudgedAlike(k)
  <2>1. Live(k)' = Live(k)
    BY <1>3, <1>6
  <2>2. ASSUME NEW e \in Live(k)
        PROVE  /\ exps'[e] = exps[e]
               /\ IsApplicable(exps[e])' <=> IsApplicable(exps[e])
    <3>1. e \in DOMAIN exps
      BY DEF Live
    <3>2. exps'[e] = exps[e] /\ SequencesOf(exps[e]) = {}
      BY <1>1, <1>3, <1>6, <3>1 DEF Unattached, SequencesOf
    <3>3. IsApplicable(exps[e]) <=> ~IsSaturated(exps[e])
      BY <3>2 DEF IsApplicable
    <3>4. IsApplicable(exps[e])' <=> ~IsSaturated(exps[e])'
      BY <3>2 DEF IsApplicable, SequencesOf
    <3> QED BY <3>2, <3>3, <3>4 DEF IsSaturated
  <2> QED BY <2>1, <2>2 DEF JudgedAlike
<1> QED BY <1>1, <1>2, <1>5, <1>6, StepBetweenCallsKeepsEvaluation

LEMMA EraseKeepsEvaluation ==
    ASSUME EvaluationInv, NEW t \in Threads, NEW e \in DOMAIN exps, Erase(t, e)
    PROVE  EvaluationInv'
<1> DEFINE m == exps[e].mock
<1>1. /\ Remove(e) /\ UNCHANGED threadVars /\ ~Busy(t)
      /\ mutex[m] = Free /\ SafetyInv /\ ExpsShape /\ Unattached
      /\ seqs' = seqs
  BY DEF Erase, EvaluationInv, SafetyInv, Remove
<1>2. SafetyInv'
  BY <1>1, EraseKeepsSafety
<1>3. /\ DOMAIN exps' = DOMAIN exps
      /\ \A f \in DOMAIN exps : f # e => exps'[f] = exps[f]
      /\ \A k : k # m => Live(k)' = Live(k)
  BY <1>1, RemoveShape
<1>4. exps'[e].at = exps[e].at /\ m \in Mocks
  <2>1. exps[e] \in LooseRecords
    BY <1>1, ShapeFacts
  <2>2. exps'[e] = [exps[e] EXCEPT !.live = FALSE]
    BY <1>1 DEF Remove
  <2> QED BY <2>1, <2>2 DEF LooseRecords
<1>5. Unattached'
  <2> SUFFICES ASSUME NoSequencesUsed, NEW f \in DOMAIN exps, NEW s \in Seqs
               PROVE  exps'[f].at[s] = NotAttached
    BY <1>3 DEF Unattached, NoSequencesUsed
  <2>1. exps'[f].at = exps[f].at
    BY <1>3, <1>4
  <2> QED BY <1>1, <2>1 DEF Unattached
<1>6. ASSUME NEW k, k # m
      PROVE  JudgedAlike(k)
  <2>1. Live(k)' = Live(k)
    BY <1>3, <1>6
  <2>2. ASSUME NEW f \in Live(k)
        PROVE  exps'[f] = exps[f]
    BY <1>3, <1>6 DEF Live
  <2> QED BY <1>1, <2>1, <2>2 DEF JudgedAlike, IsApplicable, IsSaturated,
             SequencesOf
<1> QED BY <1>1, <1>2, <1>4, <1>5, <1>6, StepBetweenCallsKeepsEvaluation

LEMMA StartCallKeepsEvaluation ==
    ASSUME EvaluationInv, NEW t \in Threads, NEW m \in Mocks, NEW a \in Args,
           StartCall(t, m, a)
    PROVE  EvaluationInv'
<1> DEFINE c == Frame(m, a, "thread")
<1>1. /\ SafetyInv /\ LocksTyped /\ UNCHANGED <<seqs, exps>>
  BY DEF EvaluationInv, SafetyInv, LockInv, StartCall, vars
<1>2. SafetyInv'
  BY <1>1, StartCallKeepsSafety
<1>3. EvaluationOK(c, 1)
  BY DEF EvaluationOK, Frame
<1>4. stack' = [stack EXCEPT ![t] = <<c>>]
  BY DEF StartCall
<1> HIDE DEF c
<1>5. /\ \A u \in Threads : u # t => stack'[u] = stack[u]
      /\ DOMAIN stack'[t] = {1} /\ stack'[t][1] = c
  BY <1>1, <1>4 DEF LocksTyped
<1>6. ASSUME NEW u \in Threads, NEW i \in DOMAIN stack'[u]
      PROVE  \A f : f = stack'[u][i] => EvaluationOK(f, i)
  <2>1. CASE u = t
    BY <1>3, <1>5, <2>1
  <2>2. CASE u # t
    BY <1>5, <2>2 DEF EvaluationInv
  <2> QED BY <2>1, <2>2
<1>7. ASSUME NEW u \in Threads, NEW i \in DOMAIN stack'[u]
      PROVE  EvaluationOK(stack[u][i], i)'
  BY <1>1, <1>6, FrozenEvaluation DEF EvaluationOK, SortedCompletely, Accepting,
     Live
<1>8. Unattached'
  BY <1>1 DEF EvaluationInv, Unattached, NoSequencesUsed
<1> QED BY <1>2, <1>7, <1>8 DEF EvaluationInv

LEMMA IdleKeepsEvaluation ==
    ASSUME EvaluationInv, UNCHANGED <<seqs, exps, threadVars>>
    PROVE  EvaluationInv'
<1>1. SafetyInv' /\ stack' = stack
  BY IdleKeepsSafety DEF EvaluationInv, threadVars
<1>2. ASSUME NEW u \in Threads, NEW i \in DOMAIN stack'[u]
      PROVE  EvaluationOK(stack[u][i], i)'
  <2>1. EvaluationOK(stack[u][i], i)
    BY <1>1 DEF EvaluationInv
  <2> QED BY <1>1, <2>1, FrozenEvaluation DEF EvaluationOK, SortedCompletely,
             Accepting, Live
<1>3. Unattached'
  BY DEF EvaluationInv, Unattached, NoSequencesUsed
<1> QED BY <1>1, <1>2, <1>3 DEF EvaluationInv

LEMMA CallStepKeepsEvaluation ==
    ASSUME EvaluationInv, NEW t \in Threads, CallStep(t)
    PROVE  EvaluationInv'
<1>1. CASE Lock(t)
  BY <1>1, LockKeepsEvaluation
<1>2. CASE Evaluate(t)
  BY <1>2, EvaluateKeepsEvaluation
<1>3. ASSUME NEW place \in Places, NEW m \in Mocks, NEW a \in Args,
             CallBack(t, place, m, a)
      PROVE  EvaluationInv'
  BY <1>3, CallBackKeepsEvaluation
<1>4. CASE ConsumeBest(t)
  BY <1>4, ConsumeBestKeepsEvaluation
<1>5. CASE TerminateOnStaleReport(t)
  BY <1>5, IdleKeepsEvaluation DEF TerminateOnStaleReport
<1>6. CASE Fail(t)
  BY <1>6, PhaseKeepsEvaluation DEF Fail, Holds, Phases
<1>7. CASE ReturnFromSideEffects(t)
  BY <1>7, PhaseKeepsEvaluation DEF ReturnFromSideEffects, Holds, Phases, vars
<1>8. CASE ThrowFromSideEffect(t)
  BY <1>8, IdleKeepsEvaluation DEF ThrowFromSideEffect
<1>9. CASE Finalize(t)
  BY <1>9, PhaseKeepsEvaluation DEF Finalize, Holds, Phases, vars
<1>10. CASE Return(t)
  BY <1>10, ReturnKeepsEvaluation
<1>11. CASE Unwind(t)
  BY <1>11, UnwindKeepsEvaluation
<1>12. CASE UnwindSideEffect(t)
  BY <1>12, IdleKeepsEvaluation DEF UnwindSideEffect
<1> QED BY <1>1, <1>2, <1>3, <1>4, <1>5, <1>6, <1>7, <1>8, <1>9, <1>10, <1>11,
           <1>12 DEF CallStep

\* The evaluation invariant is inductive.
LEMMA StepKeepsEvaluation ==
    EvaluationInv /\ [NextThreads]_allVars => EvaluationInv'
<1> SUFFICES ASSUME EvaluationInv, [NextThreads]_allVars PROVE EvaluationInv'
  OBVIOUS
<1>1. ASSUME NEW t \in Threads, CallStep(t)
      PROVE  EvaluationInv'
  BY <1>1, CallStepKeepsEvaluation
<1>2. ASSUME NEW t \in Threads, BeginStep(t)
      PROVE  EvaluationInv'
  BY <1>2, StartCallKeepsEvaluation, PushKeepsEvaluation, EraseKeepsEvaluation
     DEF BeginStep
<1>3. CASE UNCHANGED allVars
  BY <1>3, IdleKeepsEvaluation DEF allVars, vars
<1> QED BY <1>1, <1>2, <1>3 DEF NextThreads

LEMMA InitEvaluation == InitThreads => EvaluationInv
<1> SUFFICES ASSUME InitThreads PROVE EvaluationInv
  OBVIOUS
<1>1. \A t \in Threads : DOMAIN stack[t] = {}
  BY DEF InitThreads
<1>2. DOMAIN exps = {}
  BY DEF InitThreads, Init
<1> QED BY <1>1, <1>2, InitSafety DEF EvaluationInv, Unattached

LEMMA Evaluation == SpecThreads => []EvaluationInv
BY InitEvaluation, StepKeepsEvaluation, PTL DEF SpecThreads

\* If sequences are confined, what a call found applicable still is when the call
\* chooses, whatever other threads and callbacks of other places have done.
THEOREM MatchesAreNotStale ==
    ASSUME SequencesConfined
    PROVE  SpecThreads => []MatchesStayApplicable
<1>1. EvaluationInv => MatchesStayApplicable
  BY DEF EvaluationInv, EvaluationOK, MatchesStayApplicable
<1> QED BY <1>1, Evaluation, PTL

-----------------------------------------------------------------------------
\* The bookkeeping of Expectations, for calls in steps: it needs that what is
\* consumed is applicable.
LEMMA ConsumeBestKeepsBookkeeping ==
    ASSUME SequencesConfined, EvaluationInv, IInv,
           NEW t \in Threads, ConsumeBest(t)
    PROVE  IInv'
<1>1. LocksTyped /\ SafetyInv
  BY DEF EvaluationInv, SafetyInv, LockInv
<1>2. PICK best \in Top(t).matches :
          /\ best \in DOMAIN exps
          /\ ConsumeExpectation(best, "return")
  BY <1>1, ConsumeBestPick
<1>3. /\ Busy(t) /\ Top(t).phase = "evaluate" /\ Top(t) \in Frames
      /\ EvaluationOK(Top(t), 1)
  BY <1>1, TopFacts DEF ConsumeBest, EvaluationInv
<1>4. IsApplicable(exps[best])
  BY <1>3 DEF EvaluationOK
<1>5. (/\ CountsWithinLimits
       /\ PositionsOrdered
       /\ EntriesOwned
       /\ StatesPublished
       /\ CursorOnLastUsed
       /\ asserted = TRUE)'
  BY <1>2, <1>4, ConsumeKeepsBookkeeping
<1>6. exps' \in Seq(ExpectationRecords) /\ seqs' \in [Seqs -> BasicSequences]
  BY <1>2, <1>4, ConsumeEffect DEF CountsAfterUse
<1>7. last' \in Reports /\ terminated' \in BOOLEAN
  <2>1. last' = Report("full_match", Top(t).arg) /\ Top(t).arg \in Args
    BY <1>3 DEF ConsumeBest, Frames
  <2>2. terminated' = FALSE
    BY <1>2 DEF ConsumeExpectation
  <2> QED BY <2>1, <2>2 DEF Report, Reports
<1> QED BY <1>5, <1>6, <1>7 DEF IInv, TypeOK

\* Steps that consume nothing only change what was reported.
LEMMA OtherThreadStepsKeepBookkeeping ==
    ASSUME IInv, UNCHANGED <<seqs, exps, asserted>>,
           last' = last \/ last' \in Reports,
           terminated' = terminated \/ terminated' = TRUE
    PROVE  IInv'
<1>1. last' \in Reports
  BY DEF IInv, TypeOK
<1>2. terminated' \in BOOLEAN
  <2>1. terminated \in BOOLEAN
    BY DEF IInv, TypeOK
  <2> QED BY <2>1, Zenon
<1> QED BY <1>1, <1>2, OtherStepsKeepBookkeeping

\* Every step of every thread keeps the bookkeeping.
LEMMA ThreadStepKeepsBookkeeping ==
    ASSUME SequencesConfined, EvaluationInv, IInv, [NextThreads]_allVars
    PROVE  IInv'
<1>1. ASSUME NEW t \in Threads, CallStep(t)
      PROVE  IInv'
  <2>1. CASE ConsumeBest(t)
    BY <2>1, ConsumeBestKeepsBookkeeping
  <2>2. CASE Fail(t)
    <3>1. Busy(t) /\ UNCHANGED <<seqs, exps, asserted, terminated>>
      BY <2>2 DEF Fail
    <3>2. Top(t) \in Frames
      BY <3>1, TopFacts DEF EvaluationInv, SafetyInv, LockInv
    <3>3. last' \in Reports
      BY <2>2, <3>2 DEF Fail, Frames, Report, Reports
    <3> QED BY <3>1, <3>3, OtherThreadStepsKeepBookkeeping
  <2>3. CASE \/ TerminateOnStaleReport(t) \/ ThrowFromSideEffect(t)
             \/ UnwindSideEffect(t)
    BY <2>3, OtherThreadStepsKeepBookkeeping
       DEF TerminateOnStaleReport, ThrowFromSideEffect, UnwindSideEffect
  <2>4. CASE \/ Lock(t) \/ Evaluate(t) \/ ReturnFromSideEffects(t)
             \/ Finalize(t) \/ Return(t) \/ Unwind(t)
             \/ \E place \in Places, m \in Mocks, a \in Args :
                   CallBack(t, place, m, a)
    <3>1. UNCHANGED vars
      BY <2>4 DEF Lock, Evaluate, ReturnFromSideEffects, Finalize, Return,
         Unwind, CallBack
    <3> QED BY <3>1, OtherThreadStepsKeepBookkeeping DEF vars
  <2> QED BY <1>1, <2>1, <2>2, <2>3, <2>4 DEF CallStep
<1>2. ASSUME NEW t \in Threads, BeginStep(t)
      PROVE  IInv'
  <2>1. ASSUME NEW m \in Mocks, NEW a \in Args, StartCall(t, m, a)
        PROVE  IInv'
    BY <2>1, OtherThreadStepsKeepBookkeeping DEF StartCall, vars
  <2>2. ASSUME NEW m \in Mocks, NEW S \in Attachments, NEW l \in Limits,
               NEW v \in Verdicts, Push(t, m, S, l, v)
        PROVE  IInv'
    BY <2>2, CreateKeepsBookkeeping DEF Push
  <2>3. ASSUME NEW e \in DOMAIN exps, Erase(t, e)
        PROVE  IInv'
    BY <2>3, RemoveKeepsBookkeeping DEF Erase
  <2> QED BY <1>2, <2>1, <2>2, <2>3 DEF BeginStep
<1>3. CASE UNCHANGED allVars
  BY <1>3, OtherThreadStepsKeepBookkeeping DEF allVars, vars
<1> QED BY <1>1, <1>2, <1>3 DEF NextThreads

LEMMA ThreadBookkeeping ==
    ASSUME SequencesConfined
    PROVE  SpecThreads => []IInv
<1>1. InitThreads => IInv
  BY InitBookkeeping DEF InitThreads
<1>2. EvaluationInv /\ IInv /\ [NextThreads]_allVars => IInv'
  BY ThreadStepKeepsBookkeeping
<1> QED BY <1>1, <1>2, Evaluation, PTL DEF SpecThreads

\* If sequences are confined, threads and callbacks make no count overflow its
\* int and no position its Id, and every variable keeps its type.
THEOREM ThreadsTypeCorrect ==
    ASSUME SequencesConfined
    PROVE  SpecThreads => []ThreadsTypeOK
<1>1. EvaluationInv /\ IInv => ThreadsTypeOK
  BY DEF EvaluationInv, SafetyInv, LockInv, LocksTyped, IInv, ThreadsTypeOK
<1> QED BY <1>1, Evaluation, ThreadBookkeeping, PTL

\* If sequences are confined, no assertion of BasicSequence or ControlPolicy is
\* violated by calls that interleave or nest.  (If a matcher makes calls that
\* use its sequence, one is: the run matcher_claim.)
THEOREM ThreadsNeverFailAssertions ==
    ASSUME SequencesConfined
    PROVE  SpecThreads => []AssertionsHold
<1>1. IInv => AssertionsHold
  BY DEF IInv, AssertionsHold
<1> QED BY <1>1, ThreadBookkeeping, PTL

-----------------------------------------------------------------------------
\* The copy of Expectations that describes atomic calls chooses alike.
LEMMA AtomicDefinitions ==
    /\ \A m, a : Atomic!Matches(m, a) = Matches(m, a)
    /\ \A m, a : Atomic!Accepting(m, a) = Accepting(m, a)
    /\ \A S : Atomic!BestMatch(S) = BestMatch(S)
<1>1. ASSUME NEW x PROVE Atomic!SequencesOf(x) = SequencesOf(x)
  BY DEF Atomic!SequencesOf, SequencesOf, Atomic!NotAttached, NotAttached
<1>2. ASSUME NEW x PROVE Atomic!IsApplicable(x) <=> IsApplicable(x)
  BY <1>1 DEF Atomic!IsApplicable, IsApplicable, Atomic!IsSaturated,
     IsSaturated, Atomic!IsConsumable, IsConsumable, Atomic!IsFulfilled,
     IsFulfilled, Atomic!IsActive, IsActive
<1>3. ASSUME NEW m, NEW a
      PROVE  Atomic!Accepting(m, a) = Accepting(m, a)
  BY DEF Atomic!Accepting, Accepting, Atomic!Live, Live
<1>4. ASSUME NEW m, NEW a
      PROVE  Atomic!Matches(m, a) = Matches(m, a)
  BY <1>2, <1>3 DEF Atomic!Matches, Matches
<1>5. ASSUME NEW x PROVE Atomic!SequenceRatings(x) = SequenceRatings(x)
  BY DEF Atomic!SequenceRatings, SequenceRatings, Atomic!SequencesOf,
     SequencesOf, Atomic!NotAttached, NotAttached, Atomic!Priority, Priority
<1>6. ASSUME NEW S, NEW r
      PROVE  Atomic!FindBestMatch(S, r) = FindBestMatch(S, r)
  BY Zenon DEF Atomic!FindBestMatch, FindBestMatch, Atomic!HasBetterRating,
     HasBetterRating, Atomic!Max, Max, Atomic!Min, Min, Atomic!MapThenFoldSet,
     MapThenFoldSet, Atomic!Cardinality, Cardinality
<1>7. ASSUME NEW S PROVE Atomic!BestMatch(S) = BestMatch(S)
  <2>1. [e \in S |-> Atomic!SequenceRatings(exps[e])]
           = [e \in S |-> SequenceRatings(exps[e])]
    BY <1>5
  <2> QED BY <1>6, <2>1 DEF Atomic!BestMatch, BestMatch
<1> QED BY <1>3, <1>4, <1>7

\* Operations of both copies are the same.
LEMMA AtomicConsumption ==
    ASSUME NEW e, ConsumeExpectation(e, "return")
    PROVE  Atomic!ConsumeExpectation(e, "return")
BY DEF ConsumeExpectation, Atomic!ConsumeExpectation, Atomic!SequencesOf,
   SequencesOf, Atomic!NotAttached, NotAttached, Atomic!ConsumedSequence,
   ConsumedSequence, Atomic!UpdateSequenceState, UpdateSequenceState,
   Atomic!Consume, Consume, Atomic!SetSaturated, SetSaturated,
   Atomic!SetSatisfied, SetSatisfied, Atomic!IsSaturated, IsSaturated,
   Atomic!UpdateAsserts, UpdateAsserts, Atomic!SetSaturatedAsserts,
   SetSaturatedAsserts, Atomic!SetSatisfiedAsserts, SetSatisfiedAsserts,
   Atomic!IsActive, IsActive, Atomic!IsConsumable, IsConsumable,
   Atomic!IsFulfilled, IsFulfilled

LEMMA AtomicPush ==
    ASSUME NEW m, NEW S, NEW l, NEW v, Create(m, S, l, v)
    PROVE  Atomic!Create(m, S, l, v)
BY DEF Create, Atomic!Create, Atomic!HasRoom, HasRoom,
   Atomic!NewExpectation, NewExpectation, Atomic!NotAttached, NotAttached,
   Atomic!Add, Add, Atomic!UpdateSequenceState, UpdateSequenceState,
   Atomic!SetSaturated, SetSaturated, Atomic!SetSatisfied, SetSatisfied,
   Atomic!IsSaturated, IsSaturated, Atomic!UpdateAsserts, UpdateAsserts,
   Atomic!SetSaturatedAsserts, SetSaturatedAsserts,
   Atomic!SetSatisfiedAsserts, SetSatisfiedAsserts, Atomic!IsActive, IsActive,
   Atomic!Report, Report

LEMMA AtomicErase ==
    ASSUME NEW e, Remove(e)
    PROVE  Atomic!Remove(e)
BY DEF Remove, Atomic!Remove, Atomic!IsSatisfied, IsSatisfied, Atomic!Report,
   Report

\* A call that has visited all expectations undisturbed knows all matches.
LEMMA SortedLikeAtomicCall ==
    ASSUME EvaluationInv, NoSequencesUsed \/ OneThread,
           NEW t \in Threads, Busy(t), Top(t).phase = "evaluate",
           Top(t).todo = {}, ~Top(t).reentered
    PROVE  /\ Top(t).matches = Matches(Top(t).mock, Top(t).arg)
           /\ Top(t).inapplicable
                 = Accepting(Top(t).mock, Top(t).arg) \ Top(t).matches
<1>1. EvaluationOK(Top(t), 1)
  BY TopFacts DEF EvaluationInv, SafetyInv, LockInv
<1>2. SortedCompletely(Top(t))
  BY <1>1 DEF EvaluationOK
<1> QED BY <1>2 DEF SortedCompletely, Matches

\* The step that decides a call is the whole call, of the copy.
LEMMA ConsumeBestIsAtomic ==
    ASSUME EvaluationInv, NoSequencesUsed \/ OneThread,
           "return" \in SideEffects,
           NEW t \in Threads, ConsumeBest(t), ~Top(t).reentered
    PROVE  Atomic!Next
<1> DEFINE m == Top(t).mock
           a == Top(t).arg
<1>1. /\ Busy(t) /\ Top(t).phase = "evaluate" /\ Top(t).todo = {}
      /\ last' = Report("full_match", a)
  BY DEF ConsumeBest
<1>2. m \in Mocks /\ a \in Args
  BY <1>1, TopFacts DEF EvaluationInv, SafetyInv, LockInv, Frames
<1>3. Top(t).matches = Matches(m, a)
  BY <1>1, SortedLikeAtomicCall
<1>4. PICK best \in Matches(m, a) :
          best = BestMatch(Matches(m, a)) /\ ConsumeExpectation(best, "return")
  BY <1>3 DEF ConsumeBest
<1>5. /\ best \in Atomic!Matches(m, a)
      /\ best = Atomic!BestMatch(Atomic!Matches(m, a))
  BY <1>4, AtomicDefinitions
<1>6. Atomic!ConsumeExpectation(best, "return")
  BY <1>4, AtomicConsumption
<1>7. Atomic!FullMatch(m, a, "return")
  BY <1>1, <1>5, <1>6 DEF Atomic!FullMatch, Atomic!Report, Report
<1> QED BY <1>2, <1>7 DEF Atomic!Next

LEMMA FailIsAtomic ==
    ASSUME EvaluationInv, NoSequencesUsed \/ OneThread,
           NEW t \in Threads, Fail(t), ~Top(t).reentered
    PROVE  Atomic!Next
<1> DEFINE m == Top(t).mock
           a == Top(t).arg
<1>1. /\ Busy(t) /\ Top(t).phase = "evaluate" /\ Top(t).todo = {}
      /\ Top(t).matches = {}
      /\ UNCHANGED <<seqs, exps, asserted>>
      /\ last' = Report(IF Top(t).inapplicable = {} THEN "no_match"
                                                    ELSE "inapplicable", a)
  BY DEF Fail
<1>2. m \in Mocks /\ a \in Args
  BY <1>1, TopFacts DEF EvaluationInv, SafetyInv, LockInv, Frames
<1>3. Matches(m, a) = {} /\ Top(t).inapplicable = Accepting(m, a)
  BY <1>1, SortedLikeAtomicCall
<1>4. CASE Accepting(m, a) = {}
  <2>1. Atomic!NoMatch(m, a)
    BY <1>1, <1>3, <1>4, AtomicDefinitions
       DEF Atomic!NoMatch, Atomic!Report, Report
  <2> QED BY <1>2, <2>1 DEF Atomic!Next
<1>5. CASE Accepting(m, a) # {}
  <2>1. Atomic!InapplicableMatches(m, a) # {}
    BY <1>3, <1>5, AtomicDefinitions DEF Atomic!InapplicableMatches
  <2>2. Atomic!Inapplicable(m, a)
    BY <1>1, <1>3, <1>5, <2>1, AtomicDefinitions
       DEF Atomic!Inapplicable, Atomic!Report, Report
  <2> QED BY <1>2, <2>2 DEF Atomic!Next
<1> QED BY <1>4, <1>5

\* Every step of the threads is a whole atomic operation, or none.
LEMMA StepIsAtomic ==
    ASSUME EvaluationInv, NoSequencesUsed \/ OneThread,
           "return" \in SideEffects, [NextThreads]_allVars,
           \A t \in Threads : Busy(t) => ~Top(t).reentered
    PROVE  Atomic!Next \/ UNCHANGED <<seqs, exps, last, asserted>>
<1>1. ASSUME NEW t \in Threads, CallStep(t)
      PROVE  Atomic!Next \/ UNCHANGED <<seqs, exps, last, asserted>>
  <2>1. CASE ConsumeBest(t)
    BY <2>1, ConsumeBestIsAtomic DEF ConsumeBest
  <2>2. CASE Fail(t)
    BY <2>2, FailIsAtomic DEF Fail
  <2>3. CASE \/ TerminateOnStaleReport(t) \/ ThrowFromSideEffect(t)
             \/ UnwindSideEffect(t)
    BY <2>3 DEF TerminateOnStaleReport, ThrowFromSideEffect, UnwindSideEffect
  <2>4. CASE \/ Lock(t) \/ Evaluate(t) \/ ReturnFromSideEffects(t)
             \/ Finalize(t) \/ Return(t) \/ Unwind(t)
             \/ \E place \in Places, m \in Mocks, a \in Args :
                   CallBack(t, place, m, a)
    BY <2>4 DEF Lock, Evaluate, ReturnFromSideEffects, Finalize, Return,
       Unwind, CallBack, vars
  <2> QED BY <1>1, <2>1, <2>2, <2>3, <2>4 DEF CallStep
<1>2. ASSUME NEW t \in Threads, BeginStep(t)
      PROVE  Atomic!Next \/ UNCHANGED <<seqs, exps, last, asserted>>
  <2>1. ASSUME NEW m \in Mocks, NEW a \in Args, StartCall(t, m, a)
        PROVE  UNCHANGED <<seqs, exps, last, asserted>>
    BY <2>1 DEF StartCall, vars
  <2>2. ASSUME NEW m \in Mocks, NEW S \in Attachments, NEW l \in Limits,
               NEW v \in Verdicts, Push(t, m, S, l, v)
        PROVE  Atomic!Next
    BY <2>2, AtomicPush DEF Push, Atomic!Next
  <2>3. ASSUME NEW e \in DOMAIN exps, Erase(t, e)
        PROVE  Atomic!Next
    BY <2>3, AtomicErase DEF Erase, Atomic!Next
  <2> QED BY <1>2, <2>1, <2>2, <2>3 DEF BeginStep
<1>3. CASE UNCHANGED allVars
  BY <1>3 DEF allVars, vars
<1> QED BY <1>1, <1>2, <1>3 DEF NextThreads

\* As long as no matcher of an unfinished innermost call has made calls, every
\* step of handle_call looks like a whole call or like nothing, whatever side
\* effects, finalizers and (without sequences) other threads do meanwhile.
THEOREM UndisturbedAtomicity ==
    ASSUME NoSequencesUsed \/ OneThread, "return" \in SideEffects
    PROVE  SpecThreads => UndisturbedCallsAreAtomic
<1>1. ASSUME EvaluationInv, [NextThreads]_allVars
      PROVE  [(\A t \in Threads : Busy(t) => ~Top(t).reentered)
                 => [Atomic!Next]_<<seqs, exps, last>>]_allVars
  BY <1>1, StepIsAtomic
<1> QED BY <1>1, Evaluation, PTL DEF SpecThreads, UndisturbedCallsAreAtomic

\* If no matcher makes calls, and threads share no sequence, concurrent and nested
\* calls implement the atomic calls of Expectations.
THEOREM CallsImplementAtomicCalls ==
    ASSUME NoSequencesUsed \/ OneThread, MatchersMakeNoCalls,
           "return" \in SideEffects
    PROVE  SpecThreads => CallsAreAtomic
<1>1. InitThreads => Atomic!Init
  BY DEF InitThreads, Init, Atomic!Init, Atomic!EmptySequence, EmptySequence,
     Atomic!Report, Report
<1>2. ASSUME EvaluationInv, [NextThreads]_allVars
      PROVE  [Atomic!Next]_(Atomic!vars)
  <2>1. ASSUME NEW t \in Threads, Busy(t)
        PROVE  ~Top(t).reentered
    <3>1. EvaluationOK(Top(t), 1)
      BY <1>2, <2>1, TopFacts DEF EvaluationInv, SafetyInv, LockInv
    <3> QED BY <3>1 DEF EvaluationOK
  <2>2. Atomic!Next \/ UNCHANGED <<seqs, exps, last, asserted>>
    BY <1>2, <2>1, StepIsAtomic
  <2> QED BY <2>2 DEF Atomic!vars
<1> QED BY <1>1, <1>2, Evaluation, PTL DEF SpecThreads, CallsAreAtomic,
    Atomic!Spec

=============================================================================
