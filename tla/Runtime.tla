------------------------------ MODULE Runtime ------------------------------
(***************************************************************************)
(* The process of cmd/server in production: the configuration, the start,  *)
(* one goroutine that serves and one that waits for it or for a signal,    *)
(* and the shutdown with its deadline.  What a request does to the data    *)
(* is in ClearanceService, for which the end of this process, clean or     *)
(* not, is Crash.  Process composes this module and SelfTest.              *)
(*                                                                         *)
(* A connection carries one request.  A text that is no number is the port *)
(* NotANumber; an address that is not host:port is the host NotAHost.      *)
(***************************************************************************)
EXTENDS Integers

CONSTANTS
  Connections,
  Hosts,            \* hosts an operator may ask for
  LoopbackHosts,    \* those that are loopback addresses, or localhost
  Ports,            \* ports an operator may ask for
  None              \* an option that is not given

NotANumber == -1
NotAHost == "not a host"
DefaultHost == "127.0.0.1"
DefaultPort == 19081
LastPort == 65535

RuntimeAssumption ==
  /\ LoopbackHosts \subseteq Hosts \ {NotAHost}
  /\ DefaultHost \in LoopbackHosts
  /\ Ports \subseteq Int
  /\ None \notin [host : Hosts, port : Ports \cup {DefaultPort}]
  /\ None \notin Ports \cup 0 .. 2

VARIABLES
  options,      \* what the operator asked for
  address,      \* the address the configuration resolves to
  phase,        \* where the main goroutine is
  serving,      \* the goroutine of Server.Serve
  signalled,    \* an interrupt or SIGTERM was received
  connection,   \* the state of each connection
  exit          \* the exit code

vars == <<options, address, phase, serving, signalled, connection, exit>>

Addresses == [host : Hosts, port : Ports]

ConnectionStates ==
  {"none", "open", "active", "answered", "dropped", "cut"}

TypeOK ==
  /\ options \in [addr : Addresses \cup {None}, PORT : Ports \cup {None},
                  rest : BOOLEAN]
  /\ address \in [host : Hosts, port : Ports \cup {DefaultPort}] \cup {None}
  /\ phase \in {"configure", "build", "listen", "select", "shutdown",
                "exited", "killed"}
  /\ serving \in {"no", "yes", "failed", "closed"}
  /\ signalled \in BOOLEAN
  /\ connection \in [Connections -> ConnectionStates]
  /\ exit \in 0 .. 2 \cup {None}

----------------------------------------------------------------------------
(* The configuration.                                                      *)

Address(host, port) == [host |-> host, port |-> port]

IsPort(port) == port \in 1 .. LastPort

IsBindable(a) == a.host \in LoopbackHosts /\ IsPort(a.port)

Requested(o) ==
  IF o.addr # None THEN o.addr
  ELSE IF o.PORT # None THEN Address(DefaultHost, o.PORT)
  ELSE Address(DefaultHost, DefaultPort)

(* The rest of the command line is refused for an unknown flag, a          *)
(* positional argument or a blank data directory.                          *)
ParseConfig(o) ==
  IF o.rest /\ IsBindable(Requested(o)) THEN Requested(o) ELSE None

----------------------------------------------------------------------------
(* The main goroutine.                                                     *)

Init ==
  /\ options \in [addr : Addresses \cup {None}, PORT : Ports \cup {None},
                  rest : BOOLEAN]
  /\ address = None
  /\ phase = "configure"
  /\ serving = "no"
  /\ signalled = FALSE
  /\ connection = [c \in Connections |-> "none"]
  /\ exit = None

(* Requests that are in work when the process ends are never answered.     *)
Exit(code) ==
  /\ phase' = "exited"
  /\ exit' = code
  /\ serving' = "no"
  /\ connection' =
       [c \in Connections |->
          CASE connection[c] = "active" -> "cut"
            [] connection[c] = "open" -> "dropped"
            [] OTHER -> connection[c]]

Configure ==
  /\ phase = "configure"
  /\ address' = ParseConfig(options)
  /\ IF address' = None
     THEN Exit(2)
     ELSE phase' = "build" /\ UNCHANGED <<serving, connection, exit>>
  /\ UNCHANGED <<options, signalled>>

(* BuildRuntime validates the data; from then on signals are caught.       *)
Build ==
  /\ phase = "build"
  /\ \/ phase' = "listen" /\ UNCHANGED <<serving, connection, exit>>
     \/ Exit(1)
  /\ UNCHANGED <<options, address, signalled>>

Listen ==
  /\ phase = "listen"
  /\ \/ /\ phase' = "select"
        /\ serving' = "yes"
        /\ UNCHANGED <<connection, exit>>
     \/ Exit(1)
  /\ UNCHANGED <<options, address, signalled>>

ServeEnded ==
  /\ phase = "select"
  /\ serving = "failed"
  /\ Exit(1)
  /\ UNCHANGED <<options, address, signalled>>

(* If both channels are ready, select takes either.  Shutdown closes the   *)
(* listener, and Serve returns ErrServerClosed unless it had failed.       *)
BeginShutdown ==
  /\ phase = "select"
  /\ signalled
  /\ phase' = "shutdown"
  /\ serving' = IF serving = "failed" THEN "failed" ELSE "closed"
  /\ UNCHANGED <<options, address, signalled, connection, exit>>

(* Fault: the server is closed without waiting for its requests.           *)
QuiescentAtOnce == signalled

Quiescent == \A c \in Connections : connection[c] \notin {"open", "active"}

ShutdownDone ==
  /\ phase = "shutdown"
  /\ Quiescent
  /\ Exit(IF serving = "failed" THEN 1 ELSE 0)
  /\ UNCHANGED <<options, address, signalled>>

(* Fault: Shutdown is given no deadline.                                   *)
DeadlineNever ==
  /\ phase = "shutdown"
  /\ Quiescent
  /\ Exit(1)
  /\ UNCHANGED <<options, address, signalled>>

(* The eight seconds are over.                                             *)
Deadline ==
  /\ phase = "shutdown"
  /\ Exit(1)
  /\ UNCHANGED <<options, address, signalled>>

----------------------------------------------------------------------------
(* What happens around it.                                                 *)

Up == phase \in {"select", "shutdown"}

(* A signal before signal.NotifyContext ends the process at once, and one  *)
(* that comes after another is ignored.                                    *)
Signal ==
  /\ phase \notin {"exited", "killed"}
  /\ IF phase \in {"configure", "build"}
     THEN phase' = "killed" /\ UNCHANGED signalled
     ELSE signalled' = TRUE /\ UNCHANGED phase
  /\ UNCHANGED <<options, address, serving, connection, exit>>

Move(c, from, to) ==
  /\ connection[c] = from
  /\ connection' = [connection EXCEPT ![c] = to]
  /\ UNCHANGED <<options, address, phase, serving, signalled, exit>>

Connect(c) == serving = "yes" /\ Move(c, "none", "open")

(* A connection that is there may still bring its request while Shutdown   *)
(* waits; one that brings none is closed.                                  *)
BeginRequest(c) == Up /\ Move(c, "open", "active")

CloseIdle(c) == phase = "shutdown" /\ Move(c, "open", "dropped")

Respond(c) == Up /\ Move(c, "active", "answered")

ServeFails ==
  /\ serving = "yes"
  /\ serving' = "failed"
  /\ UNCHANGED <<options, address, phase, signalled, connection, exit>>

Main ==
  \/ Configure \/ Build \/ Listen \/ ServeEnded
  \/ BeginShutdown \/ ShutdownDone \/ Deadline

Next ==
  \/ Main
  \/ Signal
  \/ ServeFails
  \/ \E c \in Connections :
       Connect(c) \/ BeginRequest(c) \/ CloseIdle(c) \/ Respond(c)

Spec == Init /\ [][Next]_vars

============================================================================
