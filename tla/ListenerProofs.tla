--------------------------- MODULE ListenerProofs ---------------------------
(***************************************************************************)
(* Proofs about the idle-timeout listener for every number of connections, *)
(* of accepting and of closing goroutines, and for every timeout.          *)
(*                                                                         *)
(* The argument goes in three layers, each inductive relative to the ones  *)
(* before it: types, then ownership (who holds the accept lock, which      *)
(* goroutine has which connection in hand), then the exactness of the      *)
(* counter, and on these the facts about deadlines.  The invariant         *)
(* survives the end of a process and the start of the next one, so it is   *)
(* that of the service as well.                                            *)
(***************************************************************************)
EXTENDS Activation, FiniteSetTheorems, TLAPS

-----------------------------------------------------------------------------
(* The conjuncts of the inductive invariant.                               *)

\* A goroutine inside Accept holds acceptMu.
LockHeld == \A a \in Acceptors : apc[a] # "rest" => acceptMu = a

\* What an acceptor has in hand is in the state its position tells, ...
AcceptorHolds ==
  \A a \in Acceptors :
    /\ apc[a] = "count" => got[a] \in Conns /\ conn[got[a]] = "accepted"
    /\ apc[a] \in {"disarm", "return"}
         => got[a] \in Conns /\ conn[got[a]] = "counted"

\* ... and a connection between the kernel and http.Serve is in some
\* acceptor's hands.
ConnHeld ==
  \A c \in Conns :
    /\ conn[c] = "accepted"
         => \E a \in Acceptors : apc[a] = "count" /\ got[a] = c
    /\ conn[c] = "counted"
         => \E a \in Acceptors : apc[a] \in {"disarm", "return"} /\ got[a] = c

\* A closer that has to re-arm is alone inside the sync.Once of its connection.
OnceHeld ==
  /\ \A k \in Rearming : kconn[k] \in Conns /\ conn[kconn[k]] = "closing"
  /\ \A k, l \in Rearming : kconn[k] = kconn[l] => k = l

Ownership == LockHeld /\ AcceptorHolds /\ ConnHeld /\ OnceHeld

\* An acceptor that read a zero counter finds nothing in use until it has set
\* the deadline.
ArmsWhenIdle == \A a \in Acceptors : apc[a] \in {"clock", "arm"} => InUse = {}

\* A closer that nobody has overtaken still finds a zero counter.
NotOvertaken == \A k \in Rearming \ overtaken : Counted = {}

\* A counted connection keeps the listener disarmed, except for the moment
\* before Accept disarms it and for what an overtaken closer does.
DisarmedInUse ==
  (Counted # {} /\ \A a \in Acceptors : apc[a] # "disarm")
    => deadline = Disarmed \/ tainted

\* No deadline, set or about to be set, comes before a full idle timeout.
FullTimeout ==
  /\ \A a \in Acceptors : apc[a] = "arm" => due[a] + quiet >= Timeout
  /\ InUse = {} =>
       /\ \A k \in Closers \ overtaken :
            kpc[k] = "arm" => due[k] + quiet >= Timeout
       /\ deadline # Disarmed /\ ~tainted => deadline + quiet >= Timeout

Deadlines ==
  /\ ArmsWhenIdle
  /\ NotOvertaken
  /\ DisarmedInUse
  /\ FullTimeout
  /\ NeverUnarmed
  /\ ExitJustified

IInv == TypeOK /\ Ownership /\ CounterExact /\ Deadlines

-----------------------------------------------------------------------------
(* Types.                                                                  *)

\* The initial state has the types of TypeOK (the zero values of listener and
\* conn in srvfb.go).
LEMMA InitTypes == Init => TypeOK
<1> SUFFICES ASSUME Init PROVE TypeOK
  OBVIOUS
<1> USE DEF Init, TypeOK
<1>1. deadline \in Disarmed..Timeout /\ active \in 0..MaxUint
      /\ fails \in 0..MaxFails /\ quiet \in 0..Timeout
  BY ListenerAssumption DEF Disarmed
<1>2. due \in [Acceptors \cup Closers -> 0..Timeout]
  BY ListenerAssumption
<1>3. apc \in [Acceptors -> AcceptPoints] /\ conn \in [Conns -> ConnStates]
  BY DEF AcceptPoints, ConnStates
<1>4. exit \in {"no", "idle", "error"} /\ tainted \in BOOLEAN
  OBVIOUS
<1> QED
  BY <1>1, <1>2, <1>3, <1>4

\* Every step of Accept, of Close, of the clients and of the clock keeps the
\* types; in particular the uint32 counter stays in its range because it wraps.
LEMMA NextTypes ==
  ASSUME TypeOK, [Next]_vars
  PROVE  TypeOK'
<1> USE ListenerAssumption
    DEF TypeOK, ConnStates, AcceptPoints, Disarmed, At, Closing, timeVars,
        acceptVars, closeVars, history
<1>1. ASSUME NEW c \in Conns, Dial(c)
      PROVE  TypeOK'
  BY <1>1 DEF Dial
<1>2. CASE Tick
  BY <1>2 DEF Tick, Countdown
<1>3. ASSUME NEW a \in Acceptors, AcceptLock(a)
      PROVE  TypeOK'
  BY <1>3 DEF AcceptLock
<1>4. ASSUME NEW a \in Acceptors, AcceptLoad(a)
      PROVE  TypeOK'
  BY <1>4 DEF AcceptLoad
<1>5. ASSUME NEW a \in Acceptors, AcceptClock(a)
      PROVE  TypeOK'
  BY <1>5 DEF AcceptClock
<1>6. ASSUME NEW a \in Acceptors, AcceptArm(a)
      PROVE  TypeOK'
  <2>1. tainted' \in BOOLEAN
    BY <1>6, Zenon DEF AcceptArm
  <2>2. /\ deadline' \in Disarmed..Timeout
        /\ due' \in [Acceptors \cup Closers -> 0..Timeout]
    BY <1>6 DEF AcceptArm
  <2> QED
    BY <1>6, <2>1, <2>2 DEF AcceptArm
<1>7. ASSUME NEW a \in Acceptors, AcceptEnter(a)
      PROVE  TypeOK'
  BY <1>7 DEF AcceptEnter
<1>8. ASSUME NEW a \in Acceptors, NEW c \in Conns, AcceptTake(a, c)
      PROVE  TypeOK'
  BY <1>8 DEF AcceptTake
<1>9. ASSUME NEW a \in Acceptors, AcceptCount(a)
      PROVE  TypeOK'
  <2>1. active' \in 0..MaxUint
    BY <1>9 DEF AcceptCount, Increment
  <2>2. overtaken' \subseteq Closers
    BY <1>9 DEF AcceptCount, Rearming
  <2> QED
    BY <1>9, <2>1, <2>2 DEF AcceptCount
<1>10. ASSUME NEW a \in Acceptors, AcceptDisarm(a)
      PROVE  TypeOK'
  <2>1. tainted' \in BOOLEAN
    BY <1>10, Zenon DEF AcceptDisarm
  <2>2. deadline' \in Disarmed..Timeout
    BY <1>10 DEF AcceptDisarm
  <2> QED
    BY <1>10, <2>1, <2>2 DEF AcceptDisarm
<1>11. ASSUME NEW a \in Acceptors, AcceptReturn(a)
      PROVE  TypeOK'
  BY <1>11 DEF AcceptReturn
<1>12. ASSUME NEW a \in Acceptors, AcceptIdle(a)
      PROVE  TypeOK'
  BY <1>12 DEF AcceptIdle
<1>13. ASSUME NEW a \in Acceptors, AcceptFail(a)
      PROVE  TypeOK'
  BY <1>13 DEF AcceptFail
<1>14. ASSUME NEW k \in Closers, CloseClock(k)
      PROVE  TypeOK'
  BY <1>14 DEF CloseClock
<1>15. ASSUME NEW k \in Closers, CloseArm(k)
      PROVE  TypeOK'
  <2>1. tainted' \in BOOLEAN
    <3>1. tainted' = (k \in overtaken)
      BY <1>15, Zenon DEF CloseArm
    <3>2. CASE k \in overtaken
      BY ONLY <3>1, <3>2, SMT
    <3>3. CASE k \notin overtaken
      BY ONLY <3>1, <3>3, SMT
    <3> QED
      BY ONLY <3>2, <3>3
  <2>2. /\ deadline' \in Disarmed..Timeout
        /\ due' \in [Acceptors \cup Closers -> 0..Timeout]
    BY <1>15 DEF CloseArm
  <2> QED
    BY <1>15, <2>1, <2>2 DEF CloseArm
<1>16. ASSUME NEW k \in Closers, CloseSocket(k)
      PROVE  TypeOK'
  BY <1>16 DEF CloseSocket
<1>17. ASSUME NEW k \in Closers, NEW c \in Conns, CloseFirst(k, c)
      PROVE  TypeOK'
  BY <1>17 DEF CloseFirst, Decrement
<1>18. ASSUME NEW k \in Closers, NEW c \in Conns, CloseAgain(k, c)
      PROVE  TypeOK'
  BY <1>18 DEF CloseAgain
<1>19. CASE UNCHANGED vars
  BY <1>19 DEF vars
<1> QED
  BY <1>1, <1>2, <1>3, <1>4, <1>5, <1>6, <1>7, <1>8, <1>9, <1>10,
     <1>11, <1>12, <1>13, <1>14, <1>15, <1>16, <1>17, <1>18, <1>19
     DEF Next, AcceptStep, CloseStep

\* Spec keeps every variable in its type, for every choice of the constants.
THEOREM TypeCorrect == Spec => []TypeOK
BY InitTypes, NextTypes, PTL DEF Spec

-----------------------------------------------------------------------------
(* Ownership.                                                              *)

\* At first nobody holds the lock or a connection.
LEMMA InitOwnership == Init => Ownership
BY DEF Init, Ownership, LockHeld, AcceptorHolds, ConnHeld, OnceHeld, Rearming

\* acceptMu and the sync.Once keep the hands of the goroutines apart: whoever is
\* past the lock holds it, and a connection is in the hands of the goroutine
\* that its state names, at most one.
LEMMA NextOwnership ==
  ASSUME TypeOK, Ownership, [Next]_vars
  PROVE  Ownership'
<1> USE ListenerAssumption
    DEF TypeOK, ConnStates, AcceptPoints, At, Closing, timeVars, acceptVars,
        closeVars, history, Ownership, LockHeld, AcceptorHolds, ConnHeld,
        OnceHeld, Rearming
<1>1. ASSUME NEW c \in Conns, Dial(c)
      PROVE  Ownership'
  BY <1>1 DEF Dial
<1>2. CASE Tick
  BY <1>2 DEF Tick
<1>3. ASSUME NEW a \in Acceptors, AcceptLock(a)
      PROVE  Ownership'
  BY <1>3 DEF AcceptLock
<1>4. ASSUME NEW a \in Acceptors, AcceptLoad(a)
      PROVE  Ownership'
  BY <1>4 DEF AcceptLoad
<1>5. ASSUME NEW a \in Acceptors, AcceptClock(a)
      PROVE  Ownership'
  BY <1>5 DEF AcceptClock
<1>6. ASSUME NEW a \in Acceptors, AcceptArm(a)
      PROVE  Ownership'
  BY <1>6 DEF AcceptArm
<1>7. ASSUME NEW a \in Acceptors, AcceptEnter(a)
      PROVE  Ownership'
  BY <1>7 DEF AcceptEnter
<1>8. ASSUME NEW a \in Acceptors, NEW c \in Conns, AcceptTake(a, c)
      PROVE  Ownership'
  BY <1>8 DEF AcceptTake
<1>9. ASSUME NEW a \in Acceptors, AcceptCount(a)
      PROVE  Ownership'
  BY <1>9 DEF AcceptCount
<1>10. ASSUME NEW a \in Acceptors, AcceptDisarm(a)
      PROVE  Ownership'
  BY <1>10 DEF AcceptDisarm
<1>11. ASSUME NEW a \in Acceptors, AcceptReturn(a)
      PROVE  Ownership'
  BY <1>11 DEF AcceptReturn
<1>12. ASSUME NEW a \in Acceptors, AcceptIdle(a)
      PROVE  Ownership'
  BY <1>12 DEF AcceptIdle
<1>13. ASSUME NEW a \in Acceptors, AcceptFail(a)
      PROVE  Ownership'
  BY <1>13 DEF AcceptFail
<1>14. ASSUME NEW k \in Closers, CloseClock(k)
      PROVE  Ownership'
  BY <1>14 DEF CloseClock
<1>15. ASSUME NEW k \in Closers, CloseArm(k)
      PROVE  Ownership'
  BY <1>15 DEF CloseArm
<1>16. ASSUME NEW k \in Closers, CloseSocket(k)
      PROVE  Ownership'
  BY <1>16 DEF CloseSocket
<1>17. ASSUME NEW k \in Closers, NEW c \in Conns, CloseFirst(k, c)
      PROVE  Ownership'
  BY <1>17 DEF CloseFirst
<1>18. ASSUME NEW k \in Closers, NEW c \in Conns, CloseAgain(k, c)
      PROVE  Ownership'
  BY <1>18 DEF CloseAgain
<1>19. CASE UNCHANGED vars
  BY <1>19 DEF vars
<1> QED
  BY <1>1, <1>2, <1>3, <1>4, <1>5, <1>6, <1>7, <1>8, <1>9, <1>10,
     <1>11, <1>12, <1>13, <1>14, <1>15, <1>16, <1>17, <1>18, <1>19
     DEF Next, AcceptStep, CloseStep

-----------------------------------------------------------------------------
(* The counter.                                                            *)

\* The set that the counter stands for is finite and a uint32 can count it.
LEMMA CountedFinite ==
  /\ IsFiniteSet(Counted)
  /\ Cardinality(Counted) \in Nat
  /\ Cardinality(Counted) <= MaxUint
<1>1. Counted \in SUBSET Conns
  BY DEF Counted
<1> QED
  BY <1>1, FS_Subset, FS_CardinalityType, ListenerAssumption

\* A new listener counts no connection.
LEMMA InitCounter == Init => CounterExact
<1> SUFFICES ASSUME Init PROVE CounterExact
  OBVIOUS
<1>1. Counted = {}
  BY DEF Init, Counted
<1> QED
  BY <1>1, FS_EmptySet DEF Init, CounterExact

\* Only AcceptCount and the first Close of a connection move the counter, each
\* together with the connection it counts, and it wraps in neither direction.
LEMMA NextCounter ==
  ASSUME TypeOK, Ownership, CounterExact, [Next]_vars
  PROVE  CounterExact'
<1>0. Counted' = Counted /\ active' = active => CounterExact'
  BY DEF CounterExact
<1>1. ASSUME NEW c \in Conns, Dial(c)
      PROVE  CounterExact'
  BY <1>0, <1>1
     DEF Dial, At, Closing, timeVars, acceptVars, closeVars, TypeOK,
         Counted
<1>2. CASE Tick
  BY <1>0, <1>2
     DEF Tick, At, Closing, timeVars, acceptVars, closeVars, TypeOK,
         Counted
<1>3. ASSUME NEW a \in Acceptors, AcceptLock(a)
      PROVE  CounterExact'
  BY <1>0, <1>3
     DEF AcceptLock, At, Closing, timeVars, acceptVars, closeVars, TypeOK,
         Counted
<1>4. ASSUME NEW a \in Acceptors, AcceptLoad(a)
      PROVE  CounterExact'
  BY <1>0, <1>4
     DEF AcceptLoad, At, Closing, timeVars, acceptVars, closeVars, TypeOK,
         Counted
<1>5. ASSUME NEW a \in Acceptors, AcceptClock(a)
      PROVE  CounterExact'
  BY <1>0, <1>5
     DEF AcceptClock, At, Closing, timeVars, acceptVars, closeVars, TypeOK,
         Counted
<1>6. ASSUME NEW a \in Acceptors, AcceptArm(a)
      PROVE  CounterExact'
  BY <1>0, <1>6
     DEF AcceptArm, At, Closing, timeVars, acceptVars, closeVars, TypeOK,
         Counted
<1>7. ASSUME NEW a \in Acceptors, AcceptEnter(a)
      PROVE  CounterExact'
  BY <1>0, <1>7
     DEF AcceptEnter, At, Closing, timeVars, acceptVars, closeVars, TypeOK,
         Counted
<1>8. ASSUME NEW a \in Acceptors, NEW c \in Conns, AcceptTake(a, c)
      PROVE  CounterExact'
  BY <1>0, <1>8
     DEF AcceptTake, At, Closing, timeVars, acceptVars, closeVars, TypeOK,
         Counted
<1>9. ASSUME NEW a \in Acceptors, AcceptCount(a)
      PROVE  CounterExact'
  <2> DEFINE g == got[a]
  <2>1. g \in Conns /\ conn[g] = "accepted"
    BY <1>9 DEF AcceptCount, At, Ownership, AcceptorHolds
  <2>2. conn' = [conn EXCEPT ![g] = "counted"]
    BY <1>9 DEF AcceptCount
  <2>3. g \notin Counted /\ Counted' = Counted \cup {g}
    BY <2>1, <2>2 DEF Counted, TypeOK
  <2>4. Cardinality(Counted') = Cardinality(Counted) + 1
    BY <2>3, CountedFinite, FS_AddElement
  <2>5. Cardinality(Counted \cup {g}) <= MaxUint
    <3>1. Counted \cup {g} \in SUBSET Conns
      BY <2>1 DEF Counted
    <3> HIDE DEF g
    <3> QED
      BY <3>1, FS_Subset, FS_CardinalityType, ListenerAssumption
  <2>6. active' = active + 1
    BY <1>9, <2>3, <2>4, <2>5, CountedFinite
       DEF AcceptCount, Increment, CounterExact
  <2> QED
    BY <2>4, <2>6 DEF CounterExact
<1>10. ASSUME NEW a \in Acceptors, AcceptDisarm(a)
      PROVE  CounterExact'
  BY <1>0, <1>10
     DEF AcceptDisarm, At, Closing, timeVars, acceptVars, closeVars, TypeOK,
         Counted
<1>11. ASSUME NEW a \in Acceptors, AcceptReturn(a)
      PROVE  CounterExact'
  BY <1>0, <1>11
     DEF AcceptReturn, At, Closing, timeVars, acceptVars, closeVars, TypeOK,
         Counted, Ownership, AcceptorHolds
<1>12. ASSUME NEW a \in Acceptors, AcceptIdle(a)
      PROVE  CounterExact'
  BY <1>0, <1>12
     DEF AcceptIdle, At, Closing, timeVars, acceptVars, closeVars, TypeOK,
         Counted
<1>13. ASSUME NEW a \in Acceptors, AcceptFail(a)
      PROVE  CounterExact'
  BY <1>0, <1>13
     DEF AcceptFail, At, Closing, timeVars, acceptVars, closeVars, TypeOK,
         Counted
<1>14. ASSUME NEW k \in Closers, CloseClock(k)
      PROVE  CounterExact'
  BY <1>0, <1>14
     DEF CloseClock, At, Closing, timeVars, acceptVars, closeVars, TypeOK,
         Counted
<1>15. ASSUME NEW k \in Closers, CloseArm(k)
      PROVE  CounterExact'
  BY <1>0, <1>15
     DEF CloseArm, At, Closing, timeVars, acceptVars, closeVars, TypeOK,
         Counted, Ownership, OnceHeld, Rearming
<1>16. ASSUME NEW k \in Closers, CloseSocket(k)
      PROVE  CounterExact'
  BY <1>0, <1>16
     DEF CloseSocket, At, Closing, timeVars, acceptVars, closeVars, TypeOK,
         Counted
<1>17. ASSUME NEW k \in Closers, NEW c \in Conns, CloseFirst(k, c)
      PROVE  CounterExact'
  <2>1. conn' = [conn EXCEPT ![c] = IF active' = 0 THEN "closing" ELSE "closed"]
        /\ conn[c] = "open"
    BY <1>17 DEF CloseFirst
  <2>2. c \in Counted /\ Counted' = Counted \ {c}
    BY <2>1 DEF Counted, TypeOK
  <2>3. Cardinality(Counted') = Cardinality(Counted) - 1
    BY <2>2, CountedFinite, FS_RemoveElement
  <2>4. active # 0
    BY <2>2, CountedFinite, FS_EmptySet DEF CounterExact
  <2>5. active' = active - 1
    BY <1>17, <2>4 DEF CloseFirst, Decrement
  <2> QED
    BY <2>3, <2>5 DEF CounterExact
<1>18. ASSUME NEW k \in Closers, NEW c \in Conns, CloseAgain(k, c)
      PROVE  CounterExact'
  BY <1>0, <1>18
     DEF CloseAgain, At, Closing, timeVars, acceptVars, closeVars, TypeOK,
         Counted
<1>19. CASE UNCHANGED vars
  BY <1>0, <1>19 DEF vars, Counted
<1> QED
  BY <1>1, <1>2, <1>3, <1>4, <1>5, <1>6, <1>7, <1>8, <1>9, <1>10,
     <1>11, <1>12, <1>13, <1>14, <1>15, <1>16, <1>17, <1>18, <1>19
     DEF Next, AcceptStep, CloseStep

-----------------------------------------------------------------------------
(* Deadlines.                                                              *)

\* Accept and Close read from the counter whether a connection is counted.
LEMMA ZeroCounter == CounterExact => (active = 0 <=> Counted = {})
BY CountedFinite, FS_EmptySet DEF CounterExact

\* A new listener has no deadline, and nobody is blocked in Accept yet.
LEMMA InitDeadlines == Init => Deadlines
BY DEF Init, Deadlines, ArmsWhenIdle, NotOvertaken, DisarmedInUse, FullTimeout,
       NeverUnarmed, ExitJustified, Disarmed, InUse, Counted, Rearming

\* However Accept, Close and the clock interleave, an unused listener keeps a
\* timer, and the timers that no overtaken Close has set run a full timeout.
LEMMA NextDeadlines ==
  ASSUME TypeOK, Ownership, CounterExact, Deadlines, [Next]_vars
  PROVE  Deadlines'
<1> USE ListenerAssumption, ZeroCounter
    DEF TypeOK, ConnStates, AcceptPoints, At, Closing, timeVars, acceptVars,
        closeVars, history, Ownership, LockHeld, AcceptorHolds, ConnHeld,
        OnceHeld, Rearming, Deadlines, ArmsWhenIdle, NotOvertaken,
        DisarmedInUse, FullTimeout, NeverUnarmed, ExitJustified, Disarmed,
        InUse, Counted
<1>1. ASSUME NEW c \in Conns, Dial(c)
      PROVE  Deadlines'
  BY <1>1 DEF Dial
<1>2. CASE Tick
  BY <1>2 DEF Tick, Countdown
<1>3. ASSUME NEW a \in Acceptors, AcceptLock(a)
      PROVE  Deadlines'
  BY <1>3 DEF AcceptLock
<1>4. ASSUME NEW a \in Acceptors, AcceptLoad(a)
      PROVE  Deadlines'
  BY <1>4 DEF AcceptLoad
<1>5. ASSUME NEW a \in Acceptors, AcceptClock(a)
      PROVE  Deadlines'
  BY <1>5 DEF AcceptClock
<1>6. ASSUME NEW a \in Acceptors, AcceptArm(a)
      PROVE  Deadlines'
  BY <1>6 DEF AcceptArm
<1>7. ASSUME NEW a \in Acceptors, AcceptEnter(a)
      PROVE  Deadlines'
  BY <1>7 DEF AcceptEnter
<1>8. ASSUME NEW a \in Acceptors, NEW c \in Conns, AcceptTake(a, c)
      PROVE  Deadlines'
  BY <1>8 DEF AcceptTake
<1>9. ASSUME NEW a \in Acceptors, AcceptCount(a)
      PROVE  Deadlines'
  BY <1>9 DEF AcceptCount
<1>10. ASSUME NEW a \in Acceptors, AcceptDisarm(a)
      PROVE  Deadlines'
  BY <1>10 DEF AcceptDisarm
<1>11. ASSUME NEW a \in Acceptors, AcceptReturn(a)
      PROVE  Deadlines'
  BY <1>11 DEF AcceptReturn
<1>12. ASSUME NEW a \in Acceptors, AcceptIdle(a)
      PROVE  Deadlines'
  BY <1>12 DEF AcceptIdle
<1>13. ASSUME NEW a \in Acceptors, AcceptFail(a)
      PROVE  Deadlines'
  BY <1>13 DEF AcceptFail
<1>14. ASSUME NEW k \in Closers, CloseClock(k)
      PROVE  Deadlines'
  BY <1>14 DEF CloseClock
<1>15. ASSUME NEW k \in Closers, CloseArm(k)
      PROVE  Deadlines'
  <2>1. Counted' = Counted /\ InUse' = InUse
    BY <1>15 DEF CloseArm
  <2>2. tainted' = (k \in overtaken)
    BY <1>15, Zenon DEF CloseArm
  <2>3. overtaken' = overtaken \ {k} /\ deadline' = due[k]
        /\ due' = [due EXCEPT ![k] = 0] /\ kpc' = [kpc EXCEPT ![k] = "sock"]
        /\ kpc[k] = "arm" /\ UNCHANGED <<apc, exit, quiet>> /\ exit = "no"
    BY <1>15, Zenon DEF CloseArm
  <2>4. (k \in overtaken => tainted') /\ (k \notin overtaken => ~tainted')
    BY ONLY <2>2, Zenon
  <2>5. k \notin overtaken => Counted = {}
    BY <2>3
  <2>6. ArmsWhenIdle' /\ NotOvertaken'
    BY <2>1, <2>3
  <2>7. DisarmedInUse'
    BY <2>1, <2>3, <2>4, <2>5
  <2>8. FullTimeout'
    BY <2>1, <2>3, <2>4
  <2>9. NeverUnarmed' /\ ExitJustified'
    BY <2>1, <2>3
  <2> QED
    BY ONLY <2>6, <2>7, <2>8, <2>9 DEF Deadlines
<1>16. ASSUME NEW k \in Closers, CloseSocket(k)
      PROVE  Deadlines'
  BY <1>16 DEF CloseSocket
<1>17. ASSUME NEW k \in Closers, NEW c \in Conns, CloseFirst(k, c)
      PROVE  Deadlines'
  <2>1. CounterExact'
    BY NextCounter
  <2>2. IsFiniteSet(Counted')
    <3>1. Counted' \in SUBSET Conns
      OBVIOUS
    <3> QED
      BY ONLY <3>1, FS_Subset, ListenerAssumption DEF ListenerAssumption
  <2>3. active' = 0 <=> Counted' = {}
    BY ONLY <2>1, <2>2, FS_EmptySet DEF CounterExact
  <2>4. InUse' = InUse \ {c} /\ c \in Counted /\ Counted' \subseteq InUse'
    BY <1>17 DEF CloseFirst
  <2>5. ArmsWhenIdle' /\ NotOvertaken'
    BY <1>17, <2>3, <2>4 DEF CloseFirst
  <2>6. DisarmedInUse' /\ FullTimeout'
    BY <1>17, <2>3, <2>4 DEF CloseFirst
  <2>7. NeverUnarmed' /\ ExitJustified'
    BY <1>17, <2>3, <2>4 DEF CloseFirst
  <2> QED
    BY ONLY <2>5, <2>6, <2>7 DEF Deadlines
<1>18. ASSUME NEW k \in Closers, NEW c \in Conns, CloseAgain(k, c)
      PROVE  Deadlines'
  BY <1>18 DEF CloseAgain
<1>19. CASE UNCHANGED vars
  BY <1>19 DEF vars
<1> QED
  BY <1>1, <1>2, <1>3, <1>4, <1>5, <1>6, <1>7, <1>8, <1>9, <1>10,
     <1>11, <1>12, <1>13, <1>14, <1>15, <1>16, <1>17, <1>18, <1>19
     DEF Next, AcceptStep, CloseStep

-----------------------------------------------------------------------------
(* The theorems.                                                           *)

\* A new listener has the four layers, ...
LEMMA InitIInv == Init => IInv
BY InitTypes, InitOwnership, InitCounter, InitDeadlines DEF IInv

\* ... and they are inductive together.
LEMMA NextIInv == IInv /\ [Next]_vars => IInv'
BY NextTypes, NextOwnership, NextCounter, NextDeadlines DEF IInv

LEMMA InductiveInvariant == Spec => []IInv
BY InitIInv, NextIInv, PTL DEF Spec

\* listener.active is exact at every moment, for any number of connections
\* that a uint32 can count, any number of accepting and closing goroutines and
\* any interleaving of Accept and (repeated) Close.
THEOREM CounterCorrect == Spec => []CounterExact
<1>1. IInv => CounterExact
  BY DEF IInv
<1> QED
  BY <1>1, InductiveInvariant, PTL

\* A listener that blocks in Accept without a connection in use always has a
\* deadline, or a conn.Close is about to set one.
THEOREM AlwaysArmed == Spec => []NeverUnarmed
<1>1. IInv => NeverUnarmed
  BY DEF IInv, Deadlines
<1> QED
  BY <1>1, InductiveInvariant, PTL

\* errIdle without a connection in use for a full timeout can only come from a
\* conn.Close that an Accept has overtaken.
THEOREM IdleExitCorrect == Spec => []ExitJustified
<1>1. IInv => ExitJustified
  BY DEF IInv, Deadlines
<1> QED
  BY <1>1, InductiveInvariant, PTL

-----------------------------------------------------------------------------
(* One process after another.                                              *)

\* The next process finds nothing of the last one but the queue of the socket.
LEMMA StartIInv ==
  ASSUME IInv, Start
  PROVE  IInv'
<1>1. /\ \A c \in Conns : conn'[c] \in {"queued", "idle"}
      /\ Counted' = {} /\ InUse' = {} /\ Rearming' = {}
  BY DEF Start, Counted, InUse, Rearming
<1>2. TypeOK'
  <2>1. conn' \in [Conns -> ConnStates]
    BY DEF Start, ConnStates
  <2>2. apc' \in [Acceptors -> AcceptPoints]
    BY DEF Start, AcceptPoints
  <2>3. /\ active' \in 0..MaxUint /\ deadline' \in Disarmed..Timeout /\ quiet' \in 0..Timeout
        /\ due' \in [Acceptors \cup Closers -> 0..Timeout]
    BY ListenerAssumption DEF Start, Disarmed
  <2>4. fails' \in 0..MaxFails
    BY DEF Start, IInv, TypeOK
  <2> QED
    BY <2>1, <2>2, <2>3, <2>4 DEF Start, TypeOK
<1>3. Ownership'
  BY <1>1 DEF Start, Ownership, LockHeld, AcceptorHolds, ConnHeld, OnceHeld
<1>4. CounterExact'
  BY <1>1, FS_EmptySet DEF Start, CounterExact
<1>5. Deadlines'
  BY <1>1 DEF Start, Deadlines, ArmsWhenIdle, NotOvertaken, DisarmedInUse, FullTimeout,
              NeverUnarmed, ExitJustified
<1> QED
  BY <1>2, <1>3, <1>4, <1>5 DEF IInv

\* A client in the queue of the socket is not the listener's yet.
LEMMA DialSocketIInv ==
  ASSUME IInv, NEW c \in Conns, DialSocket(c)
  PROVE  IInv'
<1>1. /\ conn[c] \in {"idle", "closed"} /\ conn' = [conn EXCEPT ![c] = "queued"]
      /\ UNCHANGED <<active, exit, deadline, due, quiet, acceptMu, apc, got, fails, kpc,
                     kconn, overtaken, tainted>>
  BY DEF DialSocket, timeVars, acceptVars, closeVars, history
<1>2. TypeOK'
  BY <1>1 DEF IInv, TypeOK, ConnStates
<1>3. Counted' = Counted /\ InUse' = InUse /\ Rearming' = Rearming
  BY <1>1 DEF IInv, TypeOK, Counted, InUse, Rearming
<1>4. Ownership'
  BY <1>1, <1>3 DEF IInv, TypeOK, Ownership, LockHeld, AcceptorHolds, ConnHeld, OnceHeld
<1>5. CounterExact'
  BY <1>1, <1>3 DEF IInv, CounterExact
<1>6. Deadlines'
  BY <1>1, <1>3 DEF IInv, Deadlines, ArmsWhenIdle, NotOvertaken, DisarmedInUse, FullTimeout,
                    NeverUnarmed, ExitJustified
<1> QED
  BY <1>2, <1>4, <1>5, <1>6 DEF IInv

LEMMA StartFailsIInv ==
  ASSUME IInv, StartFails
  PROVE  IInv'
<1>1. /\ exit' = "error"
      /\ UNCHANGED <<active, conn, deadline, due, quiet, acceptMu, apc, got, fails, kpc,
                     kconn, overtaken, tainted>>
  BY DEF StartFails, timeVars, acceptVars, closeVars, history
<1>2. TypeOK'
  BY <1>1 DEF IInv, TypeOK
<1>3. Counted' = Counted /\ InUse' = InUse /\ Rearming' = Rearming
  BY <1>1 DEF Counted, InUse, Rearming
<1>4. Ownership' /\ CounterExact'
  BY <1>1, <1>3 DEF IInv, Ownership, LockHeld, AcceptorHolds, ConnHeld, OnceHeld,
                    CounterExact
<1>5. Deadlines'
  BY <1>1, <1>3 DEF IInv, Deadlines, ArmsWhenIdle, NotOvertaken, DisarmedInUse, FullTimeout,
                    NeverUnarmed, ExitJustified
<1> QED
  BY <1>2, <1>4, <1>5 DEF IInv

\* What is said of the listener holds for every process that systemd starts on the
\* same socket, whatever the last one left behind and however it ended
\* (contrib/srvfb.socket, srvfb.go:46): the counter is exact, an idle listener has
\* a timer, and no process ends early but for an overtaken Close.
THEOREM ServiceCorrect ==
  ActivationSpec => [](TypeOK /\ CounterExact /\ NeverUnarmed /\ ExitJustified)
<1>1. ActivationInit => IInv
  BY InitIInv DEF ActivationInit
<1>2. IInv /\ [ActivationNext]_activationVars => IInv'
  <2> SUFFICES ASSUME IInv, [ActivationNext]_activationVars PROVE IInv'
    OBVIOUS
  <2>1. CASE Process
    BY <2>1, NextIInv DEF Process
  <2>2. CASE UNCHANGED activationVars
    BY <2>2, NextIInv DEF activationVars
  <2> QED
    BY <2>1, <2>2, StartIInv, DialSocketIInv, StartFailsIInv DEF ActivationNext
<1>3. IInv => TypeOK /\ CounterExact /\ NeverUnarmed /\ ExitJustified
  BY DEF IInv, Deadlines
<1> QED
  BY <1>1, <1>2, <1>3, PTL DEF ActivationSpec
=============================================================================
