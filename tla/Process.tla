------------------------------ MODULE Process ------------------------------
(***************************************************************************)
(* main of cmd/server: the configuration decides whether the process is    *)
(* the service of Runtime or the self test of SelfTest, and what either    *)
(* returns becomes the exit code.  A self test catches no signal.  When a  *)
(* self test has ended, somebody may start it again with the same options; *)
(* with a directory of its own it finds what the last one left.            *)
(***************************************************************************)
EXTENDS SelfTest

CONSTANTS
  Connections,
  Hosts,            \* hosts an operator may ask for
  LoopbackHosts,    \* those that are loopback addresses, or localhost
  Ports             \* ports an operator may ask for

VARIABLES
  selfTest,     \* the flag -self-test
  options, address, main, serving, signalled, connection, exit

P == INSTANCE Runtime WITH phase <- main

ASSUME ProcessAssumption == SelfTestAssumption /\ P!RuntimeAssumption

serviceVars ==
  <<options, address, main, serving, signalled, connection, exit>>
vars == <<selfTest, selfTestVars, serviceVars>>

TypeOK == selfTest \in BOOLEAN /\ SelfTestTypeOK /\ P!TypeOK

Init ==
  /\ selfTest \in BOOLEAN
  /\ SelfTestInit
  /\ selfTest \/ temp                       \* one value does for the service
  /\ P!Init

Configure == P!Configure /\ UNCHANGED selfTestVars

(* runProduction.                                                          *)
Production ==
  /\ ~ selfTest
  /\ P!Main
  /\ UNCHANGED selfTestVars

(* runSelfTest, from its first statement to its return.                    *)
BeginSelfTest ==
  /\ selfTest /\ main = "build"
  /\ Begin
  /\ UNCHANGED serviceVars

(* Its return, if it is one, is the end of the process.                    *)
Returns ==
  IF stage' = "off"
  THEN /\ P!Exit(IF verdict' = "pass" THEN 0 ELSE 1)
       /\ UNCHANGED <<options, address, signalled>>
  ELSE UNCHANGED serviceVars

RunSelfTest == Run /\ Returns
ServeSelfTest == Serve /\ UNCHANGED serviceVars

Signal ==
  /\ P!Signal
  /\ IF stage = "off" THEN UNCHANGED selfTestVars ELSE Kill

(* What goes on around the service, which only production lets do so.      *)
Around ==
  /\ \/ P!ServeFails
     \/ \E c \in Connections :
          P!Connect(c) \/ P!BeginRequest(c) \/ P!CloseIdle(c) \/ P!Respond(c)
  /\ UNCHANGED selfTestVars

StartAgain ==
  /\ selfTest /\ main \in {"exited", "killed"} /\ tests < MaxTests
  /\ main' = "configure" /\ address' = None /\ exit' = None
  /\ UNCHANGED <<options, serving, signalled, connection, selfTestVars>>

(* The steps of the process itself.                                        *)
Main == Configure \/ Production \/ BeginSelfTest \/ RunSelfTest

Next ==
  /\ Main \/ ServeSelfTest \/ Signal \/ Around \/ StartAgain
  /\ UNCHANGED selfTest

Spec == Init /\ [][Next]_vars

(* The process goes on, and time passes for its timeouts.  Nothing is      *)
(* assumed of requests: they may never be answered, and the service of a   *)
(* self test may never be ready.                                           *)
FairSpec == Spec /\ WF_vars(Main /\ UNCHANGED selfTest)

----------------------------------------------------------------------------
(* Properties.                                                             *)

(* A self test passes only with a case that earned its release, however    *)
(* often it was killed and repeated on one directory, and the first one in *)
(* a directory fails only if something failed or was late                  *)
(* (selftest.go:59-153, README.md:47).                                     *)
VerdictTells ==
  /\ (stage = "stop" /\ verdict = "pass") => EarnedBy(db[Case])
  /\ (selfTest /\ exit = 1 /\ (temp \/ tests = 1)) => faulty

(* The address the README promises (README.md:25-31): -addr, else PORT on  *)
(* 127.0.0.1, else 127.0.0.1:19081.                                        *)
Documented(o) ==
  [host |-> IF o.addr # None THEN o.addr.host ELSE "127.0.0.1",
   port |-> IF o.addr # None THEN o.addr.port
            ELSE IF o.PORT # None THEN o.PORT ELSE 19081]

(* The exit code tells how the process ended.  The service returns 0 only  *)
(* after a signal and if every request that had begun was answered; 2      *)
(* means that the command line or the documented address is refused, and   *)
(* anything else that this address, a loopback one, was used (main.go:10   *)
(* to 28, runtime.go:60-77, config.go:35-84).                              *)
ExitCodeTells ==
  /\ (~ selfTest /\ exit = 0) =>
       signalled /\ \A c \in Connections : connection[c] # "cut"
  /\ (exit = 2 /\ options.rest) =>
       \/ Documented(options).host \notin LoopbackHosts
       \/ Documented(options).port \notin 1 .. P!LastPort
  /\ exit \in {0, 1} =>
       address = Documented(options) /\ address.host \in LoopbackHosts

(* The service ends when it is told to, whatever its requests are doing,   *)
(* and a self test ends by itself, even if nothing is ever answered        *)
(* (runtime.go:66-71, selftest.go:38-51).                                  *)
ProcessEnds ==
  (signalled \/ (selfTest /\ main = "build")) ~> main \in {"exited", "killed"}

============================================================================
