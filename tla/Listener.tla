------------------------------ MODULE Listener ------------------------------
(***************************************************************************)
(* The idle-timeout listener of srvfb.go: listener.Accept and conn.Close,  *)
(* interleaved at the granularity of their atomic operations, together     *)
(* with the accept loop of http.Serve that calls Accept and the server     *)
(* goroutines that call Close.                                             *)
(*                                                                         *)
(* Time is relative: a deadline is the number of ticks left until it       *)
(* expires, so the state space is finite although time never stops.        *)
(***************************************************************************)
EXTENDS Integers, FiniteSets

CONSTANTS
  Conns,      \* client connections; a closed one may be dialled again
  Acceptors,  \* goroutines that call Accept (http.Serve runs one)
  Closers,    \* goroutines that call Close on accepted connections
  Timeout,    \* the -idle duration, in ticks
  MaxUint,    \* the largest value of the uint32 counter, 2^32 - 1 in Go
  MaxFails,   \* bound on the accept errors that http.Serve retries
  NoConn, Nobody

ASSUME ListenerAssumption ==
  /\ IsFiniteSet(Conns)
  /\ Cardinality(Conns) <= MaxUint   \* fewer descriptors than a uint32 counts
  /\ Timeout \in Nat \ {0}           \* wrapListener does not wrap for 0
  /\ MaxUint \in Nat
  /\ MaxFails \in Nat
  /\ Acceptors \cap Closers = {}
  /\ NoConn \notin Conns
  /\ Nobody \notin Acceptors

VARIABLES
  active,    \* listener.active
  deadline,  \* the deadline of the TCP listener: ticks left, or Disarmed
  acceptMu,  \* the holder of listener.acceptMu, or Nobody
  apc,       \* where each acceptor is inside Accept
  got,       \* the connection an acceptor has taken from the kernel
  conn,      \* the life cycle of each connection, its sync.Once included
  kpc,       \* where each closer is inside Close
  kconn,     \* the connection a closer is closing
  due,       \* the deadline a goroutine has computed and not yet set
  fails,     \* accept errors retried so far
  exit,      \* how the process ended: "no", "idle" or "error"
  \* History, for the properties only:
  quiet,     \* ticks since a connection was last in use, up to Timeout
  overtaken, \* closers whose decrement to zero an Accept has overtaken
  tainted    \* the current deadline was set by an overtaken closer

timeVars == <<deadline, due, quiet>>
acceptVars == <<acceptMu, apc, got, fails>>
closeVars == <<kpc, kconn>>
history == <<overtaken, tainted>>
vars == <<active, conn, exit, timeVars, acceptVars, closeVars, history>>

-----------------------------------------------------------------------------

Disarmed == -1  \* time.Time{}, no deadline

\* atomic.AddUint32 with 1 and with ^uint32(0).
Increment(n) == IF n = MaxUint THEN 0 ELSE n + 1
Decrement(n) == IF n = 0 THEN MaxUint ELSE n - 1

\* Connections the counter stands for, and those that occupy the server.
Counted == {c \in Conns : conn[c] \in {"counted", "open"}}
InUse == {c \in Conns : conn[c] \in {"accepted", "counted", "open"}}

\* Closers that brought the counter to zero and have not re-armed yet.
Rearming == {k \in Closers : kpc[k] \in {"clock", "arm"}}

Countdown(t) == IF t > 0 THEN t - 1 ELSE t

Init ==
  /\ active = 0
  /\ deadline = Disarmed
  /\ acceptMu = Nobody
  /\ apc = [a \in Acceptors |-> "rest"]
  /\ got = [a \in Acceptors |-> NoConn]
  /\ conn = [c \in Conns |-> "idle"]
  /\ kpc = [k \in Closers |-> "rest"]
  /\ kconn = [k \in Closers |-> NoConn]
  /\ due = [p \in Acceptors \cup Closers |-> 0]
  /\ fails = 0
  /\ exit = "no"
  /\ quiet = 0
  /\ overtaken = {}
  /\ tainted = FALSE

-----------------------------------------------------------------------------
(* The environment: clients, the kernel's clock.                           *)

\* A client connects; the kernel completes the handshake and queues it.
Dial(c) ==
  /\ exit = "no"
  /\ conn[c] \in {"idle", "closed"}
  /\ \A k \in Closers : kconn[k] # c
  /\ conn' = [conn EXCEPT ![c] = "queued"]
  /\ UNCHANGED <<active, exit, timeVars, acceptVars, closeVars, history>>

\* Time passes: every deadline, set or merely computed, comes one tick closer.
Tick ==
  /\ exit = "no"
  /\ deadline' = Countdown(deadline)
  /\ due' = [p \in DOMAIN due |-> Countdown(due[p])]
  /\ quiet' = IF InUse # {} THEN 0
              ELSE IF quiet < Timeout THEN quiet + 1 ELSE quiet
  /\ UNCHANGED <<active, conn, exit, acceptVars, closeVars, history>>

-----------------------------------------------------------------------------
(* listener.Accept, called in a loop by http.Serve.                        *)

At(a, from, to) ==
  /\ exit = "no"
  /\ apc[a] = from
  /\ apc' = [apc EXCEPT ![a] = to]

\* Mutant of AcceptLock: Accept does not lock.
UnlockedAccept(a) ==
  /\ At(a, "rest", "load")
  /\ acceptMu' = a
  /\ UNCHANGED <<active, conn, exit, got, fails, timeVars, closeVars, history>>

\* l.acceptMu.Lock()
AcceptLock(a) ==
  /\ At(a, "rest", "load")
  /\ acceptMu = Nobody
  /\ acceptMu' = a
  /\ UNCHANGED <<active, conn, exit, got, fails, timeVars, closeVars, history>>

\* Mutant of AcceptLoad: Accept never sets a deadline.
NeverArm(a) ==
  /\ At(a, "load", "enter")
  /\ UNCHANGED <<active, conn, exit, acceptMu, got, fails, timeVars, closeVars,
                 history>>

\* atomic.LoadUint32(&l.active) == 0
AcceptLoad(a) ==
  /\ At(a, "load", IF active = 0 THEN "clock" ELSE "enter")
  /\ UNCHANGED <<active, conn, exit, acceptMu, got, fails, timeVars, closeVars,
                 history>>

\* Mutant of AcceptClock: the timeout is added twice.
AddTwice(a) ==
  /\ At(a, "clock", "arm")
  /\ due' = [due EXCEPT ![a] = Timeout + Timeout]
  /\ UNCHANGED <<active, conn, exit, deadline, quiet, acceptMu, got, fails,
                 closeVars, history>>

\* time.Now().Add(l.timeout)
AcceptClock(a) ==
  /\ At(a, "clock", "arm")
  /\ due' = [due EXCEPT ![a] = Timeout]
  /\ UNCHANGED <<active, conn, exit, deadline, quiet, acceptMu, got, fails,
                 closeVars, history>>

\* l.SetDeadline(...)
AcceptArm(a) ==
  /\ At(a, "arm", "enter")
  /\ deadline' = due[a]
  /\ due' = [due EXCEPT ![a] = 0]
  /\ tainted' = FALSE
  /\ UNCHANGED <<active, conn, exit, quiet, acceptMu, got, fails, closeVars,
                 overtaken>>

\* l.TCPListener.Accept() blocks, unless the deadline has already passed.
AcceptEnter(a) ==
  /\ deadline # 0
  /\ At(a, "enter", "wait")
  /\ UNCHANGED <<active, conn, exit, acceptMu, got, fails, timeVars, closeVars,
                 history>>

\* The blocked accept returns a queued connection.
AcceptTake(a, c) ==
  /\ At(a, "wait", "count")
  /\ conn[c] = "queued"
  /\ conn' = [conn EXCEPT ![c] = "accepted"]
  /\ got' = [got EXCEPT ![a] = c]
  /\ quiet' = 0
  /\ UNCHANGED <<active, exit, deadline, due, acceptMu, fails, closeVars,
                 history>>

\* atomic.AddUint32(&l.active, 1)
AcceptCount(a) ==
  /\ At(a, "count", "disarm")
  /\ active' = Increment(active)
  /\ conn' = [conn EXCEPT ![got[a]] = "counted"]
  /\ overtaken' = overtaken \cup Rearming
  /\ UNCHANGED <<exit, acceptMu, got, fails, timeVars, closeVars, tainted>>

\* l.SetDeadline(time.Time{})
AcceptDisarm(a) ==
  /\ At(a, "disarm", "return")
  /\ deadline' = Disarmed
  /\ tainted' = FALSE
  /\ UNCHANGED <<active, conn, exit, due, quiet, acceptMu, got, fails,
                 closeVars, overtaken>>

\* Accept returns the connection and unlocks; http.Serve starts a goroutine
\* that serves it and calls Accept again.
AcceptReturn(a) ==
  /\ At(a, "return", "rest")
  /\ conn' = [conn EXCEPT ![got[a]] = "open"]
  /\ got' = [got EXCEPT ![a] = NoConn]
  /\ acceptMu' = Nobody
  /\ UNCHANGED <<active, exit, fails, timeVars, closeVars, history>>

\* The deadline has passed: Accept returns errIdle, http.Serve returns it, and
\* run turns it into a successful end of the process.
AcceptIdle(a) ==
  /\ exit = "no"
  /\ apc[a] \in {"enter", "wait"}
  /\ deadline = 0
  /\ exit' = "idle"
  /\ acceptMu' = Nobody
  /\ apc' = [apc EXCEPT ![a] = "rest"]
  /\ UNCHANGED <<active, conn, got, fails, timeVars, closeVars, history>>

\* Any other error is returned as it is: http.Serve retries a temporary one
\* and returns a permanent one, which ends the process with status 1.
AcceptFail(a) ==
  /\ At(a, "wait", "rest")
  /\ acceptMu' = Nobody
  /\ \/ /\ fails < MaxFails
        /\ fails' = fails + 1
        /\ UNCHANGED exit
     \/ /\ exit' = "error"
        /\ UNCHANGED fails
  /\ UNCHANGED <<active, conn, got, timeVars, closeVars, history>>

-----------------------------------------------------------------------------
(* conn.Close, called by the server goroutines.                            *)

Closing(k, from, to) ==
  /\ exit = "no"
  /\ kpc[k] = from
  /\ kpc' = [kpc EXCEPT ![k] = to]

\* Mutant of CloseFirst: the last connection but one re-arms, not the last.
ArmAtOne(k, c) ==
  /\ conn[c] = "open"
  /\ active' = Decrement(active)
  /\ Closing(k, "rest", IF active' = 1 THEN "clock" ELSE "sock")
  /\ conn' = [conn EXCEPT ![c] = IF active' = 1 THEN "closing" ELSE "closed"]
  /\ kconn' = [kconn EXCEPT ![k] = c]
  /\ UNCHANGED <<exit, timeVars, acceptVars, history>>

\* The first Close of a connection enters the sync.Once and decrements. When
\* the counter is not zero afterwards the Once is done.
CloseFirst(k, c) ==
  /\ conn[c] = "open"
  /\ active' = Decrement(active)
  /\ Closing(k, "rest", IF active' = 0 THEN "clock" ELSE "sock")
  /\ conn' = [conn EXCEPT ![c] = IF active' = 0 THEN "closing" ELSE "closed"]
  /\ kconn' = [kconn EXCEPT ![k] = c]
  /\ UNCHANGED <<exit, timeVars, acceptVars, history>>

\* Mutant of CloseAgain: no sync.Once, every Close decrements.
DecrementAgain(k, c) ==
  /\ conn[c] = "closed"
  /\ active' = Decrement(active)
  /\ Closing(k, "rest", "sock")
  /\ kconn' = [kconn EXCEPT ![k] = c]
  /\ UNCHANGED <<conn, exit, timeVars, acceptVars, history>>

\* A repeated Close waits until the Once is done, then skips it.
CloseAgain(k, c) ==
  /\ conn[c] = "closed"
  /\ Closing(k, "rest", "sock")
  /\ kconn' = [kconn EXCEPT ![k] = c]
  /\ UNCHANGED <<active, conn, exit, timeVars, acceptVars, history>>

\* time.Now().Add(c.l.timeout)
CloseClock(k) ==
  /\ Closing(k, "clock", "arm")
  /\ due' = [due EXCEPT ![k] = Timeout]
  /\ UNCHANGED <<active, conn, exit, deadline, quiet, acceptVars, kconn,
                 history>>

\* c.l.SetDeadline(...), the last step inside the Once.
CloseArm(k) ==
  /\ Closing(k, "arm", "sock")
  /\ deadline' = due[k]
  /\ due' = [due EXCEPT ![k] = 0]
  /\ conn' = [conn EXCEPT ![kconn[k]] = "closed"]
  /\ tainted' = (k \in overtaken)
  /\ overtaken' = overtaken \ {k}
  /\ UNCHANGED <<active, exit, quiet, acceptVars, kconn>>

\* c.Conn.Close()
CloseSocket(k) ==
  /\ Closing(k, "sock", "rest")
  /\ kconn' = [kconn EXCEPT ![k] = NoConn]
  /\ UNCHANGED <<active, conn, exit, timeVars, acceptVars, history>>

-----------------------------------------------------------------------------

AcceptStep(a) ==
  \/ AcceptLock(a)
  \/ AcceptLoad(a)
  \/ AcceptClock(a)
  \/ AcceptArm(a)
  \/ AcceptEnter(a)
  \/ \E c \in Conns : AcceptTake(a, c)
  \/ AcceptCount(a)
  \/ AcceptDisarm(a)
  \/ AcceptReturn(a)
  \/ AcceptIdle(a)

CloseStep(k) ==
  \/ CloseClock(k)
  \/ CloseArm(k)
  \/ CloseSocket(k)

Next ==
  \/ \E c \in Conns : Dial(c)
  \/ Tick
  \/ \E a \in Acceptors : AcceptStep(a) \/ AcceptFail(a)
  \/ \E k \in Closers : CloseStep(k)
  \/ \E k \in Closers, c \in Conns : CloseFirst(k, c) \/ CloseAgain(k, c)

Spec == Init /\ [][Next]_vars

\* The Go scheduler runs every runnable goroutine eventually and the clock does
\* not stop. Nothing makes a client dial, a handler close its connection or an
\* accept fail.
Fairness ==
  /\ WF_vars(Tick)
  /\ \A a \in Acceptors : WF_vars(AcceptStep(a))
  /\ \A k \in Closers : WF_vars(CloseStep(k))

FairSpec == Spec /\ Fairness

-----------------------------------------------------------------------------
(* Properties.                                                             *)

ConnStates ==
  {"idle", "queued", "accepted", "counted", "open", "closing", "closed"}
AcceptPoints ==
  {"rest", "load", "clock", "arm", "enter", "wait", "count", "disarm", "return"}

\* Every variable has its type.
TypeOK ==
  /\ active \in 0..MaxUint
  /\ deadline \in Disarmed..Timeout
  /\ acceptMu \in Acceptors \cup {Nobody}
  /\ apc \in [Acceptors -> AcceptPoints]
  /\ got \in [Acceptors -> Conns \cup {NoConn}]
  /\ conn \in [Conns -> ConnStates]
  /\ kpc \in [Closers -> {"rest", "clock", "arm", "sock"}]
  /\ kconn \in [Closers -> Conns \cup {NoConn}]
  /\ due \in [Acceptors \cup Closers -> 0..Timeout]
  /\ fails \in 0..MaxFails
  /\ exit \in {"no", "idle", "error"}
  /\ quiet \in 0..Timeout
  /\ overtaken \subseteq Closers
  /\ tainted \in BOOLEAN

\* listener.active is exactly the number of connections that Accept has counted
\* and no Close has taken off yet, however often and by how many goroutines
\* each is closed; so it never wraps below zero.
CounterExact == active = Cardinality(Counted)

\* While an acceptor is blocked and no connection is in use, the listener has a
\* deadline or a Close is on its way to set one: no interleaving of Accept's
\* disarming and Close's re-arming leaves an idle server without a timer.
NeverUnarmed ==
  (InUse = {} /\ \E a \in Acceptors : apc[a] \in {"enter", "wait"})
    => deadline # Disarmed \/ Rearming # {}

\* An idle exit with a deadline that no overtaken Close has set happens only
\* after a full timeout without any connection in use: the overtaking of a
\* Close between its decrement and its SetDeadline is the only way to a
\* premature exit.
ExitJustified ==
  (exit = "idle" /\ ~tainted) => InUse = {} /\ quiet = Timeout

\* "Once all active connections are closed and the idle timeout expires,
\* Accept returns errIdle" (comment of listener.Accept): the server does not
\* exit for idleness while a connection is open.
IdleOnlyWhenAllClosed == exit = "idle" => \A c \in Conns : conn[c] # "open"

\* If from some time on no client is connected or waiting, the server exits.
IdleEventuallyExits ==
  <>[](\A c \in Conns : conn[c] \in {"idle", "closing", "closed"})
    => <>(exit # "no")
=============================================================================
