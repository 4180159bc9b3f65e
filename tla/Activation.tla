----------------------------- MODULE Activation -----------------------------
(***************************************************************************)
(* srvfb under systemd (contrib/srvfb.socket, srvfb.service): systemd      *)
(* keeps the listening socket and passes it to a process, which init and   *)
(* run make a Listener of; it starts the next one when a client waits      *)
(* while none runs, or when one has failed.                                *)
(***************************************************************************)
EXTENDS Listener

CONSTANTS
  Config,    \* [proxy, device, listen: whether the flag is given; fds, ours:
             \* LISTEN_FDS and whether LISTEN_PID is the process]
  MaxStarts  \* failed processes that are started again

ASSUME ActivationAssumption ==
  /\ MaxStarts \in Nat
  /\ Config \in [proxy : BOOLEAN, device : BOOLEAN, listen : BOOLEAN,
                 fds : Nat, ours : BOOLEAN]

VARIABLE failures  \* processes that have failed so far

activationVars == <<vars, failures>>

ActivationInit == Init /\ failures = 0

\* A step of the process that runs, which may be its last.
Outcome == failures' = failures + (IF exit' = "error" THEN 1 ELSE 0)
Process == Next /\ Outcome

GivenUp == exit = "error" /\ failures > MaxStarts

\* A client connects while no process runs: it waits in systemd's socket.
DialSocket(c) ==
  /\ exit # "no" /\ ~GivenUp
  /\ conn[c] \in {"idle", "closed"}
  /\ conn' = [conn EXCEPT ![c] = "queued"]
  /\ UNCHANGED <<active, exit, timeVars, acceptVars, closeVars, history, failures>>

\* Mutant of Due: only a process that has failed is followed by another.
DueFailed == exit = "error" /\ failures <= MaxStarts

\* A client in the queue of the socket starts the service; and Restart=on-failure.
Due ==
  \/ exit = "idle" /\ \E c \in Conns : conn[c] = "queued"
  \/ exit = "error" /\ failures <= MaxStarts

\* listenFDs, as init sets it.
Inherited == IF Config.ours THEN Config.fds ELSE 0

\* The checks at the start of run.
Runs ==
  /\ Config.proxy # Config.device
  /\ Inherited <= 1
  /\ Config.listen = (Inherited = 0)

\* The next process gets as far as http.Serve.  The connections of the last one
\* ended with it, the queue is the socket's.
Start ==
  /\ Due /\ Runs
  /\ conn' = [c \in Conns |-> IF conn[c] = "queued" THEN "queued" ELSE "idle"]
  /\ active' = 0 /\ deadline' = Disarmed /\ acceptMu' = Nobody
  /\ apc' = [a \in Acceptors |-> "rest"] /\ got' = [a \in Acceptors |-> NoConn]
  /\ kpc' = [k \in Closers |-> "rest"] /\ kconn' = [k \in Closers |-> NoConn]
  /\ due' = [p \in Acceptors \cup Closers |-> 0]
  /\ exit' = "no" /\ quiet' = 0 /\ overtaken' = {} /\ tainted' = FALSE
  /\ UNCHANGED <<fails, failures>>

\* It does not: its checks or fb.Open fail.
StartFails ==
  /\ Due
  /\ exit' = "error"
  /\ failures' = failures + 1
  /\ UNCHANGED <<active, conn, timeVars, acceptVars, closeVars, history>>

ActivationNext ==
  Process \/ (\E c \in Conns : DialSocket(c)) \/ Start \/ StartFails

\* systemd does what its units say.  An idle timeout (a minute) is long: a process
\* that is started again and again gets from time.Now to accept before it expires
\* at some time, and the queue of a socket is first in, first out.
ActivationSpec ==
  /\ ActivationInit /\ [][ActivationNext]_activationVars
  /\ WF_activationVars(Tick /\ Outcome)
  /\ \A a \in Acceptors : WF_activationVars(AcceptStep(a) /\ Outcome)
  /\ \A k \in Closers : WF_activationVars(CloseStep(k) /\ Outcome)
  /\ WF_activationVars(Start \/ StartFails)
  /\ SF_activationVars((\E a \in Acceptors : due[a] = Timeout /\ AcceptArm(a)) /\ Outcome)
  /\ SF_activationVars((\E a \in Acceptors : AcceptEnter(a)) /\ Outcome)
  /\ \A c \in Conns :
       SF_activationVars((\E a \in Acceptors : AcceptTake(a, c)) /\ Outcome)

-----------------------------------------------------------------------------

\* A client that waits is accepted, also one that connects between an idle exit
\* and the next process, or that the exit has left in the queue; unless systemd
\* gives up.
QueuedIsAccepted ==
  \A c \in Conns : conn[c] = "queued" ~> (conn[c] # "queued" \/ GivenUp)
=============================================================================
