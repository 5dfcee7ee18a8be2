--------------------------- MODULE RelayInstance ---------------------------
(***************************************************************************)
(* One relay instance: SocatRelay with its API handlers, its proxy health  *)
(* monitor and the goroutines that launch socat, in the network namespace  *)
(* of a pod.  All of them share r.options and r.cmd without a lock.        *)
(*                                                                         *)
(* A handler and the monitor meet only on the channels startHealthMonitor  *)
(* and stopHealthMonitor.  These are unbuffered, so a handler waits there  *)
(* until the monitor is back in its select.                                *)
(*                                                                         *)
(* net/http recovers a panic of a handler; a panic of any other goroutine  *)
(* ends the process and leaves socat and the rule behind.                  *)
(***************************************************************************)
EXTENDS Naturals

CONSTANTS
  None, NoIp,   \* nil options or no rule; an empty ProxyIp
  Configs,      \* RelayOptions up to ProxyIp and Netns
  GatewayIps,   \* the addresses the gateway may have
  MaxRequests,  \* bound: StartRelay and StopRelay requests
  MaxLaunches,  \* bound: socat commands; the instance waits when it is met
  MaxFaults     \* bound: failing lookups, socat deaths, gateway moves

ASSUME InstanceAssumption ==
  /\ NoIp \notin GatewayIps /\ None \notin Configs
  /\ MaxRequests \in Nat /\ MaxLaunches \in Nat /\ MaxFaults \in Nat

VARIABLES
  options,   \* r.options
  cmd,       \* r.cmd: the number of a command, 0 for nil
  commands,  \* commands[k]: the k-th command created
  launcher,  \* launcher[k]: the goroutine started with it
  launches,  \* commands created
  active,    \* healthMonitorActive
  monitor,   \* where the monitor is
  pinged,    \* the address it pings
  handler,   \* where the handler is
  request,   \* its request: a configuration, or None for StopRelay
  restart,   \* whether Configure has it stop the relay first
  rule,      \* the nft rule: whose container port is redirected, for traffic
             \* from all but one address, which is to be the gateway's
  gateway,   \* the address of the gateway
  netns,     \* whether the network namespace is there
  process,   \* whether the instance runs
  requests, faults,
  disturbed  \* history: a lookup failed, socat died, or the relay was started
             \* or stopped during a launch or a restart by the monitor

vars == <<options, cmd, commands, launcher, launches, active, monitor, pinged,
          handler, request, restart, rule, gateway, netns, process, requests,
          faults, disturbed>>

world == <<gateway, netns>>
history == <<requests, faults, disturbed>>
handlerVars == <<handler, request, restart>>
monitorVars == <<active, monitor, pinged>>
launchVars == <<cmd, commands, launcher, launches>>

Launches == 1..MaxLaunches

Options == [config: Configs, ip: GatewayIps \cup {NoIp}]

\* new: not started, so that cmd.Process is nil; exited: not waited for yet.
Commands ==
  [config: Configs, ip: GatewayIps \cup {NoIp},
   state: {"new", "running", "exited", "reaped"}]

\* Nil is none of these.
ASSUME RecordAssumption == None \notin Options \cup Commands

Idle == "none"

Init ==
  /\ options = None
  /\ cmd = 0 /\ launches = 0
  /\ commands = [k \in Launches |-> None]
  /\ launcher = [k \in Launches |-> Idle]
  /\ active = TRUE /\ monitor = "select" /\ pinged = NoIp
  /\ handler = "idle" /\ request = None /\ restart = FALSE
  /\ rule = None
  /\ gateway \in GatewayIps /\ netns = TRUE /\ process = "up"
  /\ requests = 0 /\ faults = 0 /\ disturbed = FALSE

HasIp == options # None /\ options.ip # NoIp
HasProcess == cmd # 0 /\ commands[cmd].state # "new"

\* Signal 0 reaches a process until it is waited for.
socatRunning == cmd # 0 /\ commands[cmd].state \in {"running", "exited"}

\* Only one process can listen on the relay port.
PortTaken == \E k \in 1..launches : commands[k].state = "running"

Launching == \E k \in Launches : launcher[k] \in {"start", "network"}

-----------------------------------------------------------------------------
(* What handlers and monitor have in common.                               *)

\* setProxyIp; the lookup fails or returns the gateway's address.
setProxyIp ==
  \/ /\ options' = IF options = None THEN None
                   ELSE [options EXCEPT !.ip = gateway]
     /\ UNCHANGED <<faults, disturbed>>
  \/ /\ options # None /\ faults < MaxFaults
     /\ faults' = faults + 1 /\ disturbed' = TRUE
     /\ UNCHANGED options

\* startInternal: a command and a goroutine to run it, unless one runs.
startInternal ==
  \/ /\ socatRunning
     /\ UNCHANGED launchVars
  \/ /\ ~socatRunning /\ launches < MaxLaunches
     /\ launches' = launches + 1
     /\ cmd' = launches'
     /\ commands' = [commands EXCEPT ![cmd'] = [config |-> options.config,
                                                ip |-> options.ip, state |-> "new"]]
     /\ launcher' = [launcher EXCEPT ![cmd'] = "start"]

\* stopInternal with a process: kill its group and wait for it.
KillSocat ==
  /\ commands' = [commands EXCEPT ![cmd].state = "reaped"]
  /\ UNCHANGED <<cmd, launcher, launches>>

-----------------------------------------------------------------------------
(* StartRelay and StopRelay.  The controller makes one call at a time.     *)

\* Configure, up to the lookup of the proxy.
Configure(o) ==
  LET fresh == ~HasIp
      changed == HasIp /\ o # None /\ options.config # o
  IN /\ process = "up" /\ handler = "idle" /\ requests < MaxRequests
     /\ requests' = requests + 1
     /\ request' = o
     /\ options' = IF ~fresh /\ ~changed THEN options
                   ELSE IF o = None THEN None
                   ELSE [config |-> o, ip |-> NoIp]
     /\ handler' = IF fresh \/ changed THEN "lookup"
                   ELSE IF o = None THEN "deactivate"
                   ELSE "activate"
     /\ restart' = changed
     /\ UNCHANGED <<launchVars, monitorVars, rule, world, process, faults,
                    disturbed>>

Lookup ==
  /\ process = "up" /\ handler = "lookup"
  /\ setProxyIp
  /\ handler' = IF request = None \/ restart THEN "deactivate" ELSE "activate"
  /\ UNCHANGED <<launchVars, monitorVars, request, restart, rule, world, process,
                 requests>>

\* stop: deactivateHealthMonitor.
deactivateHealthMonitor ==
  /\ process = "up" /\ handler = "deactivate" /\ monitor = "select"
  /\ active' = FALSE
  /\ handler' = "kill"
  /\ UNCHANGED <<options, launchVars, monitor, pinged, request, restart, rule,
                 world, process, history>>

\* stop: stopInternal, which dereferences a nil process after the rule is
\* deleted.  The panic ends the handler.
HandlerKills ==
  /\ process = "up" /\ handler = "kill"
  /\ \/ HasProcess /\ KillSocat /\ handler' = "unprogram"
        /\ UNCHANGED rule
     \/ ~HasProcess /\ rule' = None /\ handler' = "idle"
        /\ UNCHANGED launchVars
  /\ disturbed' = (disturbed \/ Launching)
  /\ UNCHANGED <<options, monitorVars, request, restart, world, process,
                 requests, faults>>

HandlerUnprograms ==
  /\ process = "up" /\ handler = "unprogram"
  /\ rule' = None
  /\ handler' = IF request = None THEN "idle" ELSE "activate"
  /\ UNCHANGED <<options, launchVars, monitorVars, request, restart, world,
                 process, history>>

\* start: activateHealthMonitor.
activateHealthMonitor ==
  /\ process = "up" /\ handler = "activate" /\ monitor = "select"
  /\ active' = TRUE
  /\ handler' = "start"
  /\ UNCHANGED <<options, launchVars, monitor, pinged, request, restart, rule,
                 world, process, history>>

\* start: startInternal, and StartRelay answers.
HandlerStarts ==
  /\ process = "up" /\ handler = "start"
  /\ startInternal
  /\ handler' = "idle"
  /\ disturbed' = (disturbed \/ Launching \/ monitor \notin {"select", "ping"})
  /\ UNCHANGED <<options, monitorVars, request, restart, rule, world, process,
                 requests, faults>>

-----------------------------------------------------------------------------
(* The goroutine of startInternal.  It uses r.cmd, whatever that is by now.*)

\* cmd.Start.  A command that was started already makes it fail; the
\* goroutine then cancels its own command.
LauncherStarts(k) ==
  LET started == commands[cmd].state # "new"
  IN /\ process = "up" /\ launcher[k] = "start"
     /\ commands' =
          IF started
          THEN [commands EXCEPT ![k].state = IF @ = "running" THEN "exited" ELSE @]
          ELSE [commands EXCEPT ![cmd].state = IF PortTaken THEN "exited"
                                               ELSE "running"]
     /\ launcher' = [launcher EXCEPT ![k] = "network"]
     /\ UNCHANGED <<options, cmd, launches, monitorVars, handlerVars, rule, world,
                    process, history>>

\* Getpgid, which fails once the process was waited for, and setupNetwork:
\* ProgramNft adds the rule unless there is one.  It cannot add an empty
\* address to its set, and nil options make it panic.
LauncherProgramsNft(k) ==
  /\ process = "up" /\ launcher[k] = "network"
  /\ \/ /\ launcher' = [launcher EXCEPT ![k] = "wait"]
        /\ rule # None \/ options # None
        /\ rule' = IF rule = None /\ options.ip # NoIp THEN options ELSE rule
        /\ UNCHANGED process
     \/ /\ commands[cmd].state = "reaped" \/ (rule = None /\ options = None)
        /\ process' = "panicked"
        /\ UNCHANGED <<launcher, rule>>
  /\ UNCHANGED <<options, cmd, commands, launches, monitorVars, handlerVars,
                 world, history>>

\* cmd.Wait.
LauncherWaits(k) ==
  /\ process = "up" /\ launcher[k] = "wait"
  /\ commands[cmd].state \in {"exited", "reaped"}
  /\ commands' = [commands EXCEPT ![cmd].state = "reaped"]
  /\ launcher' = [launcher EXCEPT ![k] = Idle]
  /\ UNCHANGED <<options, cmd, launches, monitorVars, handlerVars, rule, world,
                 process, history>>

-----------------------------------------------------------------------------
(* The proxy health monitor.                                               *)

\* Mutant: the monitor does not look whether it was deactivated.
TickIgnoresActive ==
  /\ process = "up" /\ monitor = "select"
  /\ HasIp
  /\ monitor' = IF netns THEN "ping" ELSE "exit"
  /\ pinged' = options.ip
  /\ UNCHANGED <<options, launchVars, active, handlerVars, rule, world, process,
                 history>>

\* Mutant: the monitor does not check the network namespace.
TickIgnoresNetns ==
  /\ process = "up" /\ monitor = "select"
  /\ HasIp /\ active
  /\ monitor' = "ping"
  /\ pinged' = options.ip
  /\ UNCHANGED <<options, launchVars, active, handlerVars, rule, world, process,
                 history>>

\* The ticker fires; without its network namespace the relay is stopped.
Tick ==
  /\ process = "up" /\ monitor = "select"
  /\ HasIp /\ active
  /\ monitor' = IF netns THEN "ping" ELSE "exit"
  /\ pinged' = options.ip
  /\ UNCHANGED <<options, launchVars, active, handlerVars, rule, world, process,
                 history>>

\* Mutant: attempts are not limited.
proxyOkUnlimited ==
  /\ process = "up" /\ monitor = "ping"
  /\ pinged = gateway
  /\ monitor' = "select"
  /\ UNCHANGED <<options, launchVars, active, pinged, handlerVars, rule, world,
                 process, history>>

\* Two attempts to connect to the proxy.
proxyOk ==
  /\ process = "up" /\ monitor = "ping"
  /\ monitor' = IF pinged = gateway THEN "select" ELSE "kill"
  /\ UNCHANGED <<options, launchVars, active, pinged, handlerVars, rule, world,
                 process, history>>

\* stopInternal: without a process it panics, and so does the instance.
MonitorKills ==
  /\ process = "up" /\ monitor \in {"kill", "exit"}
  /\ \/ /\ HasProcess /\ KillSocat
        /\ monitor' = IF monitor = "kill" THEN "unprogram" ELSE "unprogramAndExit"
        /\ UNCHANGED <<rule, process>>
     \/ /\ ~HasProcess /\ rule' = None /\ process' = "panicked"
        /\ UNCHANGED <<launchVars, monitor>>
  /\ disturbed' = (disturbed \/ Launching)
  /\ UNCHANGED <<options, active, pinged, handlerVars, world, requests, faults>>

MonitorUnprograms ==
  /\ process = "up" /\ monitor \in {"unprogram", "unprogramAndExit"}
  /\ rule' = None
  /\ monitor' = IF monitor = "unprogram" THEN "lookup" ELSE "select"
  /\ process' = IF monitor = "unprogram" THEN process ELSE "exited"
  /\ UNCHANGED <<options, launchVars, active, pinged, handlerVars, world, history>>

\* Mutant: the monitor starts the relay again with the address it had.
MonitorKeepsIp ==
  /\ process = "up" /\ monitor = "lookup"
  /\ monitor' = "start"
  /\ UNCHANGED <<options, launchVars, active, pinged, handlerVars, rule, world,
                 process, history>>

MonitorLooksUp ==
  /\ process = "up" /\ monitor = "lookup"
  /\ setProxyIp
  /\ monitor' = "start"
  /\ UNCHANGED <<launchVars, active, pinged, handlerVars, rule, world, process,
                 requests>>

\* Nil options make startInternal panic.
MonitorStarts ==
  /\ process = "up" /\ monitor = "start"
  /\ \/ (options # None \/ socatRunning) /\ startInternal /\ monitor' = "select"
        /\ UNCHANGED process
     \/ options = None /\ ~socatRunning /\ process' = "panicked"
        /\ UNCHANGED <<launchVars, monitor>>
  /\ disturbed' = (disturbed \/ Launching)
  /\ UNCHANGED <<options, active, pinged, handlerVars, rule, world, requests,
                 faults>>

-----------------------------------------------------------------------------
(* Around the instance.                                                    *)

\* The gateway's pod is replaced.
GatewayMoves ==
  /\ faults < MaxFaults
  /\ \E ip \in GatewayIps \ {gateway} : gateway' = ip
  /\ faults' = faults + 1
  /\ UNCHANGED <<options, launchVars, monitorVars, handlerVars, rule, netns,
                 process, requests, disturbed>>

\* socat exits; the monitor pings the gateway, not socat.
SocatDies ==
  /\ faults < MaxFaults
  /\ \E k \in 1..launches :
       /\ commands[k].state = "running"
       /\ commands' = [commands EXCEPT ![k].state = "exited"]
  /\ faults' = faults + 1 /\ disturbed' = TRUE
  /\ UNCHANGED <<options, cmd, launcher, launches, monitorVars, handlerVars, rule,
                 world, process, requests>>

\* The pod is gone.
NetnsRemoved ==
  /\ netns
  /\ netns' = FALSE
  /\ UNCHANGED <<options, launchVars, monitorVars, handlerVars, rule, gateway,
                 process, history>>

-----------------------------------------------------------------------------
Handler ==
  \/ Lookup \/ deactivateHealthMonitor \/ HandlerKills \/ HandlerUnprograms
  \/ activateHealthMonitor \/ HandlerStarts

Launcher(k) == LauncherStarts(k) \/ LauncherProgramsNft(k) \/ LauncherWaits(k)

Monitor ==
  \/ Tick \/ proxyOk \/ MonitorKills \/ MonitorUnprograms \/ MonitorLooksUp
  \/ MonitorStarts

Next ==
  \/ \E o \in Configs \cup {None} : Configure(o)
  \/ Handler
  \/ \E k \in Launches : Launcher(k)
  \/ Monitor
  \/ GatewayMoves \/ SocatDies \/ NetnsRemoved

Spec == Init /\ [][Next]_vars

\* Goroutines run, the ticker ticks.  A handler waits for a monitor that is
\* in its select again and again but not always: Go's select serves a sender
\* that waits when the ticker is ready too, hence strong fairness.
Fairness ==
  /\ SF_vars(Handler)
  /\ \A k \in Launches : WF_vars(Launcher(k))
  /\ WF_vars(Monitor)

FairSpec == Spec /\ Fairness

-----------------------------------------------------------------------------
(* What an instance must provide.                                          *)

\* The shared fields, commands and goroutines are well formed; one socat at
\* most listens on the relay port, and the monitor pings an address.
TypeOK ==
  /\ options \in Options \cup {None}
  /\ launches \in 0..MaxLaunches /\ cmd \in 0..launches
  /\ commands \in [Launches -> Commands \cup {None}]
  /\ \A k \in Launches : commands[k] = None <=> k > launches
  /\ \A j, k \in 1..launches :
       commands[j].state = "running" /\ commands[k].state = "running" => j = k
  /\ launcher \in [Launches -> {Idle, "start", "network", "wait"}]
  /\ active \in BOOLEAN /\ pinged \in GatewayIps \cup {NoIp}
  /\ monitor = "ping" => pinged # NoIp
  /\ monitor \in {"select", "ping", "kill", "exit", "unprogram",
                  "unprogramAndExit", "lookup", "start"}
  /\ handler \in {"idle", "lookup", "deactivate", "kill", "unprogram",
                  "activate", "start"}
  /\ request \in Configs \cup {None} /\ restart \in BOOLEAN
  /\ rule \in [config: Configs, ip: GatewayIps] \cup {None}
  /\ gateway \in GatewayIps /\ netns \in BOOLEAN
  /\ process \in {"up", "panicked", "exited"}
  /\ requests \in 0..MaxRequests /\ faults \in 0..MaxFaults
  /\ disturbed \in BOOLEAN

\* No handler, launch or restart by the monitor is under way.
Settled ==
  /\ process = "up" /\ handler = "idle" /\ monitor \in {"select", "ping"}
  /\ ~Launching /\ requests > 0

Forwards(o, ip) ==
  /\ cmd # 0 /\ commands[cmd] = [config |-> o, ip |-> ip, state |-> "running"]
  /\ rule = [config |-> o, ip |-> ip]

\* An instance that settles does what it was asked last, however the
\* handlers and the health monitor were interleaved: after StartRelay the
\* container port is redirected to a socat that runs with these options, and
\* traffic from the gateway it forwards to is not, which would send it round
\* in circles; after StopRelay no traffic is redirected and no socat runs.
DoesAsAsked ==
  Settled /\ ~disturbed
    => IF request # None THEN Forwards(request, options.ip)
       ELSE rule = None /\ ~PortTaken

\* Handlers do not block on the channels of the health monitor for ever.
HandlersReturn == handler # "idle" ~> (handler = "idle" \/ process # "up")

\* The relay follows the gateway to its new address.
FollowsGateway ==
  <>[](process = "up" /\ netns /\ ~disturbed /\ request # None
         => Forwards(request, gateway))

\* An instance whose monitor is active does not outlive its pod.
ExitsWithPod ==
  ~netns /\ active /\ HasIp
    ~> (process # "up" \/ ~active \/ ~HasIp)

-----------------------------------------------------------------------------
(* The inductive invariant behind TypeOK and DoesAsAsked.                  *)

\* r.cmd is the last command, and what a handler works on is what r.options
\* holds.
Structure ==
  /\ cmd = launches
  /\ \A k \in Launches : launcher[k] # Idle => k <= launches
  /\ request # None => options # None /\ options.config = request
  /\ handler \in {"activate", "start"} => request # None

\* Commands come one after the other while nothing is disturbed, and only
\* the last one is being launched.
OneAfterTheOther ==
  /\ \A k \in 1..launches : k # cmd => commands[k].state = "reaped"
  /\ cmd # 0 => commands[cmd].state # "exited"
  /\ \A k \in Launches : launcher[k] \in {"start", "network"} =>
       /\ k = cmd
       /\ commands[k].state = IF launcher[k] = "start" THEN "new" ELSE "running"
  /\ cmd # 0 /\ commands[cmd].state = "new" => launcher[cmd] = "start"

\* socat runs with the options, or is being launched, and so is the rule.
Serving ==
  /\ options # None /\ options.ip # NoIp
  /\ cmd # 0 /\ commands[cmd].state \in {"new", "running"}
  /\ commands[cmd].config = options.config /\ commands[cmd].ip = options.ip
  /\ rule = IF Launching THEN None ELSE options

Halted == cmd # 0 /\ commands[cmd].state = "reaped"

Stopped == (cmd = 0 \/ Halted) /\ rule = None

\* A handler has changed the options and not stopped the relay yet.
Changing == restart /\ handler \in {"lookup", "deactivate", "kill", "unprogram"}

\* How far the handler is tells what it found and did.
HandlerInv ==
  /\ options = None => cmd = 0 /\ rule = None /\ monitor = "select"
  /\ options # None /\ options.ip = NoIp => handler = "lookup"
  /\ options # None /\ (handler = "idle" \/ request = None) => cmd # 0
  /\ Changing => cmd # 0 /\ request # None
  /\ handler = "lookup" /\ ~restart =>
       /\ cmd = 0 /\ monitor = "select"
       /\ options # None => options.ip = NoIp
  /\ handler \in {"kill", "unprogram"} => ~active /\ monitor = "select"
  /\ handler \in {"deactivate", "kill"} => Changing \/ request = None
  /\ handler = "unprogram" => Halted

\* How far the monitor is tells what runs.
MonitorInv ==
  ~Changing /\ handler # "unprogram" =>
    /\ monitor \in {"select", "ping", "kill", "exit"} => Serving \/ Stopped
    /\ monitor \in {"unprogram", "unprogramAndExit"} => Halted
    /\ monitor \in {"lookup", "start"} => Stopped

\* Between two requests the last one is fulfilled, or the monitor is at it.
IdleInv ==
  handler = "idle" /\ requests > 0 =>
    IF request = None THEN Stopped /\ ~active /\ monitor = "select"
    ELSE monitor \in {"select", "ping", "kill", "exit"} => Serving

Undisturbed == OneAfterTheOther /\ HandlerInv /\ MonitorInv /\ IdleInv

IInv ==
  /\ TypeOK /\ Structure
  /\ process = "up" /\ ~disturbed => Undisturbed
=============================================================================
