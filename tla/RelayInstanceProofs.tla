------------------------ MODULE RelayInstanceProofs ------------------------
(***************************************************************************)
(* Proofs about RelayInstance, for any number of requests, launches and    *)
(* failures, any configurations and any addresses of the gateway.          *)
(***************************************************************************)
EXTENDS RelayInstance, TLAPS

-----------------------------------------------------------------------------
(* What the operations do to commands and options.                         *)

\* The command a start creates.
LEMMA NewCommand ==
  ASSUME TypeOK, Structure, options # None, ~socatRunning, startInternal
  PROVE  /\ launches' = launches + 1 /\ cmd' = launches' /\ launches' \in Launches
         /\ commands' \in [Launches -> Commands \cup {None}]
         /\ commands'[cmd'] = [config |-> options.config, ip |-> options.ip,
                               state |-> "new"]
         /\ \A k \in Launches : k # cmd' => commands'[k] = commands[k]
         /\ launcher' \in [Launches -> {Idle, "start", "network", "wait"}]
         /\ launcher'[cmd'] = "start"
         /\ \A k \in Launches : k # cmd' => launcher'[k] = launcher[k]
<1> DEFINE new == [config |-> options.config, ip |-> options.ip, state |-> "new"]
<1>1. /\ launches \in Nat /\ launches < MaxLaunches /\ launches' = launches + 1
      /\ cmd' = launches' /\ commands' = [commands EXCEPT ![cmd'] = new]
      /\ launcher' = [launcher EXCEPT ![cmd'] = "start"]
  BY DEF startInternal, TypeOK
<1>2. launches' \in Launches
  BY <1>1, InstanceAssumption DEF Launches, InstanceAssumption
<1>3. new \in Commands
  BY DEF TypeOK, Commands, Options
<1> HIDE DEF new
<1>4. /\ commands \in [Launches -> Commands \cup {None}]
      /\ launcher \in [Launches -> {Idle, "start", "network", "wait"}]
  BY DEF TypeOK
<1>5. commands' \in [Launches -> Commands \cup {None}]
  BY Zenon, <1>1, <1>3, <1>4
<1>6. launcher' \in [Launches -> {Idle, "start", "network", "wait"}]
  BY Zenon, <1>1, <1>4
<1> QED BY <1>1, <1>2, <1>4, <1>5, <1>6 DEF new

\* The state of one command is set.
LEMMA SetState ==
  ASSUME TypeOK, NEW k \in 1..launches,
         NEW x \in {"new", "running", "exited", "reaped"},
         commands' = [commands EXCEPT ![k].state = x]
  PROVE  /\ commands' \in [Launches -> Commands \cup {None}]
         /\ commands'[k] \in Commands /\ commands'[k].state = x
         /\ commands'[k].config = commands[k].config
         /\ commands'[k].ip = commands[k].ip
         /\ \A j \in Launches \ {k} : commands'[j] = commands[j]
         /\ k \in Launches
<1>1. k \in Launches /\ commands[k] # None
  BY InstanceAssumption DEF TypeOK, Launches, InstanceAssumption
<1>2. commands[k] \in Commands /\ commands \in [Launches -> Commands \cup {None}]
  BY <1>1 DEF TypeOK
<1> DEFINE c == [commands[k] EXCEPT !.state = x]
<1>3. commands' = [commands EXCEPT ![k] = c]
  BY <1>1, <1>2
<1>4. c \in Commands /\ c.state = x /\ c.config = commands[k].config
      /\ c.ip = commands[k].ip
  BY <1>2 DEF Commands
<1> HIDE DEF c
<1>5. commands'[k] = c /\ \A j \in Launches \ {k} : commands'[j] = commands[j]
  BY <1>1, <1>2, <1>3
<1>6. commands' \in [Launches -> Commands \cup {None}]
  BY Zenon, <1>2, <1>3, <1>4
<1> QED BY <1>1, <1>4, <1>5, <1>6

\* setProxyIp keeps the options but for the address.
LEMMA LookupEffect ==
  ASSUME TypeOK, setProxyIp
  PROVE  /\ options' \in Options \cup {None} /\ faults' \in 0..MaxFaults
         /\ disturbed' \in BOOLEAN /\ (disturbed => disturbed')
         /\ options = None <=> options' = None
         /\ options # None => options'.config = options.config
         /\ ~disturbed' /\ options # None => options'.ip = gateway
<1>1. options \in Options \cup {None} /\ gateway \in GatewayIps /\ disturbed \in BOOLEAN
  BY DEF TypeOK, Options
<1>2. None \notin Options
  BY RecordAssumption DEF RecordAssumption
<1>3. CASE /\ options' = IF options = None THEN None ELSE [options EXCEPT !.ip = gateway]
           /\ UNCHANGED <<faults, disturbed>>
  <2>1. CASE options = None
    BY <1>3, <2>1 DEF TypeOK
  <2>2. CASE options # None
    <3>1. options \in Options
      BY <1>1, <2>2
    <3>2. /\ [options EXCEPT !.ip = gateway] \in Options
          /\ [options EXCEPT !.ip = gateway].ip = gateway
          /\ [options EXCEPT !.ip = gateway].config = options.config
      BY <1>1, <3>1 DEF Options
    <3>3. options' = [options EXCEPT !.ip = gateway]
      BY <1>3, <2>2
    <3> HIDE DEF Options
    <3> QED BY <1>2, <1>3, <2>2, <3>2, <3>3 DEF TypeOK
  <2> QED BY <2>1, <2>2
<1>4. CASE /\ faults < MaxFaults /\ faults' = faults + 1 /\ disturbed' = TRUE
           /\ UNCHANGED options
  <2>1. faults' \in 0..MaxFaults
    BY <1>4, InstanceAssumption DEF TypeOK, InstanceAssumption
  <2> QED BY <1>1, <1>4, <2>1
<1> QED BY Zenon, <1>3, <1>4 DEF setProxyIp

-----------------------------------------------------------------------------
(* Every step keeps TypeOK and Structure.                                  *)

\* What TypeOK and Structure say of commands and launchers.
CommandsOK ==
  /\ launches \in 0..MaxLaunches /\ cmd \in 0..launches /\ cmd = launches
  /\ commands \in [Launches -> Commands \cup {None}]
  /\ \A k \in Launches : commands[k] = None <=> k > launches
  /\ \A j, k \in 1..launches :
       commands[j].state = "running" /\ commands[k].state = "running" => j = k
  /\ launcher \in [Launches -> {Idle, "start", "network", "wait"}]
  /\ \A k \in Launches : launcher[k] # Idle => k <= launches

\* A step that concerns neither commands nor launchers.
LEMMA SameCommands ==
  ASSUME TypeOK, Structure, UNCHANGED launchVars
  PROVE  CommandsOK'
BY DEF TypeOK, Structure, launchVars, CommandsOK

\* One that sets the state of a command, and never starts a second socat.
LEMMA OtherState ==
  ASSUME TypeOK, Structure, NEW k \in 1..launches,
         NEW x \in {"new", "running", "exited", "reaped"},
         x = "running" => ~PortTaken,
         commands' = [commands EXCEPT ![k].state = x],
         UNCHANGED <<cmd, launches>>,
         \/ launcher' = launcher
         \/ \E j \in 1..launches, y \in {Idle, "network"} :
              launcher' = [launcher EXCEPT ![j] = y]
  PROVE  CommandsOK'
<1>1. /\ commands' \in [Launches -> Commands \cup {None}]
      /\ commands'[k] \in Commands /\ commands'[k].state = x
      /\ \A j \in Launches \ {k} : commands'[j] = commands[j]
      /\ k \in Launches
  BY Zenon, SetState
<1>2. /\ launches \in 0..MaxLaunches /\ cmd = launches /\ launches \in Nat
      /\ \A j \in 1..launches : j \in Launches
      /\ \A j \in Launches : j \in Nat
  BY InstanceAssumption DEF TypeOK, Structure, Launches, InstanceAssumption
<1>3. \A j \in Launches : commands'[j] = None <=> j > launches'
  BY <1>1, <1>2, RecordAssumption DEF TypeOK, RecordAssumption
<1>4. \A i, j \in 1..launches' :
        commands'[i].state = "running" /\ commands'[j].state = "running" => i = j
  BY <1>1, <1>2 DEF TypeOK, PortTaken
<1>5. /\ launcher' \in [Launches -> {Idle, "start", "network", "wait"}]
      /\ \A j \in Launches : launcher'[j] # Idle => j <= launches'
  BY <1>2 DEF TypeOK, Structure
<1> QED BY <1>1, <1>2, <1>3, <1>4, <1>5 DEF CommandsOK

\* One that starts the relay, or finds it running.
LEMMA Started ==
  ASSUME TypeOK, Structure, startInternal, options # None \/ socatRunning
  PROVE  CommandsOK'
<1>1. CASE socatRunning
  BY <1>1, SameCommands DEF startInternal
<1>2. CASE ~ socatRunning
  <2>1. /\ launches' = launches + 1 /\ cmd' = launches' /\ launches' \in Launches
        /\ commands' \in [Launches -> Commands \cup {None}]
        /\ commands'[cmd'] = [config |-> options.config, ip |-> options.ip,
                              state |-> "new"]
        /\ \A k \in Launches : k # cmd' => commands'[k] = commands[k]
        /\ launcher' \in [Launches -> {Idle, "start", "network", "wait"}]
        /\ \A k \in Launches : k # cmd' => launcher'[k] = launcher[k]
    BY <1>2, NewCommand
  <2>2. /\ launches \in Nat /\ launches' \in 0..MaxLaunches
        /\ \A k \in 1..launches' : k \in Launches
        /\ \A k \in Launches : k \in Nat /\ k # 0
    BY <2>1, InstanceAssumption DEF TypeOK, Launches, InstanceAssumption
  <2>3. commands'[cmd'] # None /\ commands'[cmd'].state = "new"
    <3>1. [config |-> options.config, ip |-> options.ip, state |-> "new"] \in Commands
      BY <1>2 DEF TypeOK, Options, Commands
    <3> QED BY <2>1, <3>1, RecordAssumption DEF RecordAssumption
  <2>4. \A k \in Launches : commands'[k] = None <=> k > launches'
    BY <2>1, <2>2, <2>3 DEF TypeOK
  <2>5. \A j, k \in 1..launches' :
          commands'[j].state = "running" /\ commands'[k].state = "running" => j = k
    BY <2>1, <2>2, <2>3 DEF TypeOK
  <2>6. \A k \in Launches : launcher'[k] # Idle => k <= launches'
    BY <2>1, <2>2 DEF Structure
  <2> QED BY <2>1, <2>2, <2>4, <2>5, <2>6 DEF CommandsOK
<1> QED BY <1>1, <1>2

\* The rest of the state.
RestOK ==
  /\ options \in Options \cup {None}
  /\ active \in BOOLEAN /\ pinged \in GatewayIps \cup {NoIp}
  /\ monitor = "ping" => pinged # NoIp
  /\ monitor \in {"select", "ping", "kill", "exit", "unprogram",
                  "unprogramAndExit", "lookup", "start"}
  /\ handler \in {"idle", "lookup", "deactivate", "kill", "unprogram",
                  "activate", "start"}
  /\ request \in Configs \cup {None} /\ restart \in BOOLEAN
  /\ rule \in [config: Configs, ip: GatewayIps] \cup {None}
  /\ gateway \in GatewayIps /\ netns \in BOOLEAN
  /\ process \in {"up", "panicked", "exited"}
  /\ requests \in 0..MaxRequests /\ faults \in 0..MaxFaults
  /\ disturbed \in BOOLEAN
  /\ request # None => options # None /\ options.config = request
  /\ handler \in {"activate", "start"} => request # None

\* Together they are what is to be kept.
LEMMA Parts == TypeOK /\ Structure <=> CommandsOK /\ RestOK
BY DEF TypeOK, Structure, CommandsOK, RestOK

\* One case per action.
LEMMA TypeNext ==
  ASSUME TypeOK, Structure, [Next]_vars PROVE TypeOK' /\ Structure'
<1> SUFFICES CommandsOK' /\ RestOK'
  BY Parts DEF TypeOK, Structure, CommandsOK, RestOK
<1>0. CommandsOK /\ RestOK
  BY Parts
<1>1. ASSUME NEW o \in Configs \cup {None}, Configure(o)
      PROVE  CommandsOK' /\ RestOK'
  <2>1. CommandsOK'
    BY <1>1, SameCommands DEF Configure
  <2>2. requests' \in 0..MaxRequests
    BY <1>0, <1>1, InstanceAssumption DEF Configure, RestOK, InstanceAssumption
  <2>3. /\ options' \in Options \cup {None} /\ request' = o
        /\ o # None => options' # None /\ options'.config = o
    <3>1. CASE HasIp /\ (o = None \/ options.config = o)
      BY <1>0, <1>1, <3>1 DEF Configure, RestOK, HasIp
    <3>2. CASE ~HasIp /\ o = None
      BY <1>1, <3>2 DEF Configure
    <3>3. CASE o # None /\ ~(HasIp /\ options.config = o)
      <4>1. [config |-> o, ip |-> NoIp] \in Options
        BY <3>3 DEF Options
      <4>2. options' = [config |-> o, ip |-> NoIp] /\ request' = o
        BY <1>1, <3>3 DEF Configure
      <4> QED BY <4>1, <4>2, RecordAssumption DEF RecordAssumption
    <3> QED BY <3>1, <3>2, <3>3
  <2>4. /\ handler' \in {"lookup", "deactivate", "activate"}
        /\ handler' = "activate" => o # None
        /\ restart' \in BOOLEAN
    BY <1>1 DEF Configure, HasIp
  <2>5. /\ UNCHANGED <<active, monitor, pinged, rule, gateway, netns, process>>
        /\ UNCHANGED <<faults, disturbed>>
    BY <1>1 DEF Configure, monitorVars, world
  <2> QED BY <1>0, <2>1, <2>2, <2>3, <2>4, <2>5 DEF RestOK
<1>2. CASE Lookup
  <2>1. CommandsOK'
    BY <1>2, SameCommands DEF Lookup
  <2>2. /\ options' \in Options \cup {None} /\ faults' \in 0..MaxFaults
        /\ disturbed' \in BOOLEAN
        /\ options = None <=> options' = None
        /\ options # None => options'.config = options.config
    BY <1>2, LookupEffect DEF Lookup
  <2> QED BY <1>0, <1>2, <2>1, <2>2 DEF Lookup, RestOK, monitorVars, world
<1>3. CASE deactivateHealthMonitor \/ activateHealthMonitor
  <2>1. CommandsOK'
    BY <1>3, SameCommands DEF deactivateHealthMonitor, activateHealthMonitor
  <2> QED BY Zenon, <1>0, <1>3, <2>1
          DEF deactivateHealthMonitor, activateHealthMonitor, RestOK, world, history
<1>4. ASSUME KillSocat, HasProcess PROVE CommandsOK'
  <2>1. cmd \in 1..launches
    BY <1>0, <1>4 DEF HasProcess, CommandsOK
  <2> QED BY Zenon, <1>4, <2>1, OtherState DEF KillSocat
<1>5. CASE HandlerKills
  <2>1. CommandsOK'
    BY <1>4, <1>5, SameCommands DEF HandlerKills
  <2>2. disturbed' \in BOOLEAN
    BY <1>5 DEF HandlerKills, Launching
  <2> QED BY <1>0, <1>5, <2>1, <2>2
          DEF HandlerKills, RestOK, monitorVars, world
<1>6. CASE HandlerUnprograms
  <2>1. CommandsOK'
    BY <1>6, SameCommands DEF HandlerUnprograms
  <2> QED BY <1>0, <1>6, <2>1
          DEF HandlerUnprograms, RestOK, monitorVars, world, history
<1>7. CASE HandlerStarts
  <2>1. CommandsOK'
    BY <1>0, <1>7, Started DEF HandlerStarts, RestOK
  <2>2. disturbed' \in BOOLEAN
    BY <1>7 DEF HandlerStarts, Launching
  <2> QED BY <1>0, <1>7, <2>1, <2>2
          DEF HandlerStarts, RestOK, monitorVars, world
<1>8. ASSUME NEW k \in Launches, LauncherStarts(k) PROVE CommandsOK' /\ RestOK'
  <2>1. cmd \in 1..launches /\ k \in 1..launches
    BY <1>0, <1>8 DEF LauncherStarts, CommandsOK, Launches, Idle
  <2>0. /\ \E j \in 1..launches, y \in {Idle, "network"} :
             launcher' = [launcher EXCEPT ![j] = y]
        /\ UNCHANGED <<cmd, launches>>
    BY Zenon, <1>8, <2>1 DEF LauncherStarts
  <2>2. CASE commands[cmd].state # "new"
    <3> DEFINE x == IF commands[k].state = "running" THEN "exited"
                    ELSE commands[k].state
    <3>1. commands[k] \in Commands /\ x \in {"new", "exited", "reaped"}
      BY <1>0, <2>1 DEF CommandsOK, Commands, Launches
    <3>2. commands' = [commands EXCEPT ![k].state = x]
      BY <1>0, <1>8, <2>2 DEF LauncherStarts, CommandsOK
    <3> HIDE DEF x
    <3>3. CommandsOK'
      BY Zenon, <2>0, <2>1, <3>1, <3>2, OtherState
    <3> QED BY <1>0, <1>8, <3>3
            DEF LauncherStarts, RestOK, monitorVars, handlerVars, world, history
  <2>3. CASE commands[cmd].state = "new"
    <3>1. PICK x \in {"exited", "running"} :
            /\ x = "running" => ~PortTaken
            /\ commands' = [commands EXCEPT ![cmd].state = x]
      BY Zenon, <1>8, <2>3 DEF LauncherStarts
    <3>2. CommandsOK'
      BY Zenon, <2>0, <2>1, <3>1, OtherState
    <3> QED BY <1>0, <1>8, <3>2
            DEF LauncherStarts, RestOK, monitorVars, handlerVars, world, history
  <2> QED BY <2>2, <2>3
<1>9. ASSUME NEW k \in Launches, LauncherProgramsNft(k)
      PROVE  CommandsOK' /\ RestOK'
  <2>1. CommandsOK'
    BY <1>0, <1>9 DEF LauncherProgramsNft, CommandsOK, Idle
  <2>2. rule' \in [config: Configs, ip: GatewayIps] \cup {None}
    <3>1. CASE rule' = options /\ rule = None /\ options.ip # NoIp /\ options # None
      BY <1>0, <3>1 DEF RestOK, Options
    <3> QED BY <1>0, <1>9, <3>1 DEF LauncherProgramsNft, RestOK
  <2> QED BY <1>0, <1>9, <2>1, <2>2
          DEF LauncherProgramsNft, RestOK, monitorVars, handlerVars, world, history
<1>10. ASSUME NEW k \in Launches, LauncherWaits(k) PROVE CommandsOK' /\ RestOK'
  <2>1. cmd \in 1..launches /\ k \in 1..launches
    BY <1>0, <1>10 DEF LauncherWaits, CommandsOK, Launches, Idle
  <2>2. CommandsOK'
    BY Zenon, <1>10, <2>1, OtherState DEF LauncherWaits
  <2> QED BY <1>0, <1>10, <2>2
          DEF LauncherWaits, RestOK, monitorVars, handlerVars, world, history
<1>11. CASE Tick
  <2>1. CommandsOK'
    BY <1>11, SameCommands DEF Tick
  <2>2. options.ip \in GatewayIps /\ options.ip # NoIp
    BY <1>0, <1>11 DEF Tick, HasIp, RestOK, Options
  <2> QED BY <1>0, <1>11, <2>1, <2>2
          DEF Tick, RestOK, handlerVars, world, history
<1>12. CASE proxyOk
  <2>1. CommandsOK'
    BY <1>12, SameCommands DEF proxyOk
  <2> QED BY <1>0, <1>12, <2>1 DEF proxyOk, RestOK, handlerVars, world, history
<1>13. CASE MonitorKills
  <2>1. CommandsOK'
    BY <1>4, <1>13, SameCommands DEF MonitorKills
  <2>2. disturbed' \in BOOLEAN
    BY <1>13 DEF MonitorKills, Launching
  <2> QED BY <1>0, <1>13, <2>1, <2>2 DEF MonitorKills, RestOK, handlerVars, world
<1>14. CASE MonitorUnprograms
  <2>1. CommandsOK'
    BY <1>14, SameCommands DEF MonitorUnprograms
  <2> QED BY <1>0, <1>14, <2>1
          DEF MonitorUnprograms, RestOK, handlerVars, world, history
<1>15. CASE MonitorLooksUp
  <2>1. CommandsOK'
    BY <1>15, SameCommands DEF MonitorLooksUp
  <2>2. /\ options' \in Options \cup {None} /\ faults' \in 0..MaxFaults
        /\ disturbed' \in BOOLEAN
        /\ options = None <=> options' = None
        /\ options # None => options'.config = options.config
    BY <1>15, LookupEffect DEF MonitorLooksUp
  <2> QED BY <1>0, <1>15, <2>1, <2>2 DEF MonitorLooksUp, RestOK, handlerVars, world
<1>16. CASE MonitorStarts
  <2>1. CommandsOK'
    BY <1>16, Started, SameCommands DEF MonitorStarts
  <2>2. disturbed' \in BOOLEAN
    BY <1>16 DEF MonitorStarts, Launching
  <2> QED BY <1>0, <1>16, <2>1, <2>2 DEF MonitorStarts, RestOK, handlerVars, world
<1>17. CASE GatewayMoves
  <2>1. CommandsOK' /\ faults' \in 0..MaxFaults
    BY <1>0, <1>17, SameCommands, InstanceAssumption
    DEF GatewayMoves, RestOK, InstanceAssumption
  <2> QED BY <1>0, <1>17, <2>1 DEF GatewayMoves, RestOK, monitorVars, handlerVars
<1>18. CASE SocatDies
  <2>1. PICK k \in 1..launches : commands' = [commands EXCEPT ![k].state = "exited"]
    BY Zenon, <1>18 DEF SocatDies
  <2>2. CommandsOK'
    BY Zenon, <1>18, <2>1, OtherState DEF SocatDies
  <2>3. faults' \in 0..MaxFaults
    BY <1>0, <1>18, InstanceAssumption DEF SocatDies, RestOK, InstanceAssumption
  <2> QED BY <1>0, <1>18, <2>2, <2>3
          DEF SocatDies, RestOK, monitorVars, handlerVars, world
<1>19. CASE NetnsRemoved
  <2>1. CommandsOK'
    BY <1>19, SameCommands DEF NetnsRemoved
  <2>2. netns' \in BOOLEAN
    BY Zenon, <1>19 DEF NetnsRemoved
  <2>3. UNCHANGED <<options, monitorVars, handlerVars, rule, gateway, process,
                    history>>
    BY <1>19 DEF NetnsRemoved
  <2> QED BY <1>0, <2>1, <2>2, <2>3
          DEF RestOK, monitorVars, handlerVars, history
<1>20. CASE UNCHANGED vars
  BY <1>0, <1>20 DEF vars, CommandsOK, RestOK
<1> QED
  BY <1>1, <1>2, <1>3, <1>5, <1>6, <1>7, <1>8, <1>9, <1>10, <1>11, <1>12, <1>13,
     <1>14, <1>15, <1>16, <1>17, <1>18, <1>19, <1>20
  DEF Next, Handler, Launcher, Monitor

-----------------------------------------------------------------------------
(* Every step keeps Undisturbed, unless it disturbs.                       *)

\* A step that changes neither the options nor what runs.
LEMMA Frame ==
  ASSUME UNCHANGED <<options, launchVars, rule>>
  PROVE  /\ OneAfterTheOther' <=> OneAfterTheOther
         /\ (Serving' <=> Serving) /\ (Halted' <=> Halted) /\ (Stopped' <=> Stopped)
BY DEF launchVars, OneAfterTheOther, Serving, Halted, Stopped, Launching

\* Nothing is being launched once the command has ended.
LEMMA HaltedIsQuiet ==
  ASSUME OneAfterTheOther, cmd = 0 \/ Halted PROVE ~Launching
BY DEF OneAfterTheOther, Halted, Launching, Launches

\* The steps of a handler that leave options and relay alone.
LEMMA HandlerWaits ==
  ASSUME TypeOK, Undisturbed, deactivateHealthMonitor \/ activateHealthMonitor
  PROVE  Undisturbed'
<1>1. /\ UNCHANGED <<options, launchVars, rule, monitor, request, restart>>
      /\ requests' = requests
  BY DEF deactivateHealthMonitor, activateHealthMonitor, history
<1>2. /\ OneAfterTheOther' <=> OneAfterTheOther
      /\ (Serving' <=> Serving) /\ (Halted' <=> Halted) /\ (Stopped' <=> Stopped)
  BY <1>1, Frame
<1>3. cmd' = cmd
  BY <1>1 DEF launchVars
<1>4. CASE deactivateHealthMonitor
  BY <1>1, <1>2, <1>3, <1>4
  DEF deactivateHealthMonitor, Undisturbed, HandlerInv, MonitorInv, IdleInv, Changing
<1>5. CASE activateHealthMonitor
  BY <1>1, <1>2, <1>3, <1>5
  DEF activateHealthMonitor, Undisturbed, HandlerInv, MonitorInv, IdleInv, Changing
<1> QED BY <1>4, <1>5

\* Those of the monitor, and of the world.
LEMMA MonitorLooks ==
  ASSUME TypeOK, Undisturbed,
         Tick \/ proxyOk \/ GatewayMoves \/ NetnsRemoved \/ UNCHANGED vars
  PROVE  Undisturbed'
<1>1. UNCHANGED <<options, launchVars, rule, active, handler, request, restart,
                  requests>>
  BY DEF Tick, proxyOk, GatewayMoves, NetnsRemoved, vars, handlerVars,
         monitorVars, launchVars, history
<1>2. /\ OneAfterTheOther' <=> OneAfterTheOther
      /\ (Serving' <=> Serving) /\ (Halted' <=> Halted) /\ (Stopped' <=> Stopped)
  BY <1>1, Frame
<1>3. cmd' = cmd
  BY <1>1 DEF launchVars
<1>4. \/ monitor' = monitor
      \/ /\ monitor = "select" /\ monitor' \in {"ping", "exit"}
         /\ active /\ options # None /\ options.ip # NoIp
      \/ monitor = "ping" /\ monitor' \in {"select", "kill"}
  BY DEF Tick, HasIp, proxyOk, GatewayMoves, NetnsRemoved, vars, monitorVars
<1> QED BY <1>1, <1>2, <1>3, <1>4
        DEF Undisturbed, HandlerInv, MonitorInv, IdleInv, Changing

\* A request comes.
LEMMA ConfigureKeeps ==
  ASSUME TypeOK, Structure, Undisturbed, NEW o \in Configs \cup {None},
         Configure(o)
  PROVE  Undisturbed'
<1>1. /\ UNCHANGED <<launchVars, rule, monitor, active>> /\ handler = "idle"
      /\ request' = o
  BY DEF Configure, monitorVars
<1>2. cmd' = cmd /\ OneAfterTheOther'
  BY <1>1 DEF launchVars, OneAfterTheOther, Undisturbed
<1>3. CASE HasIp /\ (o = None \/ options.config = o)
  <2>1. /\ options' = options /\ restart' = FALSE
        /\ handler' = IF o = None THEN "deactivate" ELSE "activate"
    BY Zenon, <1>3 DEF Configure
  <2>2. /\ (Serving' <=> Serving) /\ (Halted' <=> Halted) /\ (Stopped' <=> Stopped)
    BY <1>1, <2>1, Frame
  <2> QED BY <1>1, <1>2, <1>3, <2>1, <2>2
          DEF HasIp, Undisturbed, HandlerInv, MonitorInv, IdleInv, Changing
<1>4. CASE HasIp /\ o # None /\ options.config # o
  <2>1. /\ options' = [config |-> o, ip |-> NoIp] /\ restart' = TRUE
        /\ handler' = "lookup"
    BY Zenon, <1>4 DEF Configure
  <2>2. [config |-> o, ip |-> NoIp] \in Options
    BY <1>4 DEF Options
  <2>3. options' # None
    BY <2>1, <2>2, RecordAssumption DEF RecordAssumption
  <2> QED BY <1>1, <1>2, <1>4, <2>1, <2>3
          DEF HasIp, Undisturbed, HandlerInv, MonitorInv, IdleInv, Changing
<1>5. CASE ~HasIp
  <2>1. /\ options = None /\ cmd = 0 /\ rule = None /\ monitor = "select"
    BY <1>1, <1>5 DEF HasIp, Undisturbed, HandlerInv
  <2>2. /\ options' = IF o = None THEN None ELSE [config |-> o, ip |-> NoIp]
        /\ restart' = FALSE /\ handler' = "lookup"
    BY Zenon, <1>5 DEF Configure
  <2>3. options' # None => options'.ip = NoIp
    BY <2>2
  <2>4. Stopped'
    BY <1>1, <1>2, <2>1 DEF Stopped
  <2> QED BY <1>1, <1>2, <2>1, <2>2, <2>3, <2>4
          DEF Undisturbed, HandlerInv, MonitorInv, IdleInv, Changing
<1> QED BY <1>3, <1>4, <1>5

\* A lookup succeeds.
LEMMA LookupKeeps ==
  ASSUME TypeOK, Structure, Undisturbed, Lookup \/ MonitorLooksUp, ~disturbed'
  PROVE  Undisturbed'
<1>1. /\ UNCHANGED <<launchVars, rule, request, restart, active, requests>>
      /\ cmd' = cmd
  BY DEF Lookup, MonitorLooksUp, handlerVars, monitorVars, launchVars
<1>2. /\ options = None <=> options' = None
      /\ options # None => options'.ip = gateway
      /\ gateway # NoIp
  BY LookupEffect, InstanceAssumption
  DEF Lookup, MonitorLooksUp, TypeOK, InstanceAssumption
<1>3. OneAfterTheOther' /\ (Halted' <=> Halted) /\ (Stopped' <=> Stopped)
  BY <1>1 DEF launchVars, OneAfterTheOther, Undisturbed, Halted, Stopped
<1>4. CASE Lookup
  <2>1. /\ handler = "lookup" /\ monitor' = monitor
        /\ handler' = IF request = None \/ restart THEN "deactivate" ELSE "activate"
    BY <1>4 DEF Lookup, monitorVars
  <2>2. ~restart => Stopped
    BY <2>1 DEF Undisturbed, HandlerInv, MonitorInv, Changing, Serving
  <2> QED BY <1>1, <1>2, <1>3, <2>1, <2>2
          DEF Undisturbed, HandlerInv, MonitorInv, IdleInv, Changing
<1>5. CASE MonitorLooksUp
  <2>1. monitor = "lookup" /\ monitor' = "start" /\ handler' = handler
    BY <1>5 DEF MonitorLooksUp, handlerVars
  <2> QED BY <1>1, <1>2, <1>3, <2>1
          DEF Undisturbed, HandlerInv, MonitorInv, IdleInv, Changing
<1> QED BY <1>4, <1>5

\* socat is killed while nothing is launched.
LEMMA KillEffect ==
  ASSUME TypeOK, Structure, OneAfterTheOther, HasProcess, KillSocat, ~Launching
  PROVE  OneAfterTheOther' /\ Halted' /\ cmd' = cmd
<1>1. cmd \in 1..launches /\ cmd \in Launches /\ UNCHANGED <<cmd, launcher, launches>>
  BY InstanceAssumption
  DEF HasProcess, KillSocat, TypeOK, Structure, Launches, InstanceAssumption
<1>2. /\ commands'[cmd].state = "reaped"
      /\ \A j \in Launches \ {cmd} : commands'[j] = commands[j]
  BY Zenon, <1>1, SetState DEF KillSocat
<1>3. \A k \in 1..launches : k \in Launches
  BY InstanceAssumption DEF TypeOK, Launches, InstanceAssumption
<1>4. Halted'
  BY <1>1, <1>2 DEF Halted
<1>5. \A k \in 1..launches' : k # cmd' => commands'[k].state = "reaped"
  BY <1>1, <1>2, <1>3 DEF OneAfterTheOther
<1>6. \A k \in Launches : launcher'[k] \notin {"start", "network"}
  BY <1>1 DEF Launching
<1> QED BY <1>1, <1>4, <1>5, <1>6 DEF OneAfterTheOther, Halted

\* A handler or the monitor stops the relay.
LEMMA KillKeeps ==
  ASSUME TypeOK, Structure, Undisturbed, HandlerKills \/ MonitorKills,
         ~disturbed', process' = "up"
  PROVE  Undisturbed'
<1>0. /\ UNCHANGED <<options, active, request, restart, requests>> /\ ~Launching
  BY Zenon DEF HandlerKills, MonitorKills, monitorVars, handlerVars
<1>1. CASE HandlerKills /\ HasProcess
  <2>1. /\ KillSocat /\ handler = "kill" /\ handler' = "unprogram"
        /\ UNCHANGED <<rule, monitor>>
    BY <1>1 DEF HandlerKills, monitorVars
  <2>2. OneAfterTheOther' /\ Halted' /\ cmd' = cmd
    BY <1>0, <1>1, <2>1, KillEffect DEF Undisturbed
  <2> QED BY <1>0, <2>1, <2>2
          DEF Undisturbed, HandlerInv, MonitorInv, IdleInv, Changing
<1>2. CASE HandlerKills /\ ~HasProcess
  <2>1. /\ UNCHANGED launchVars /\ handler = "kill" /\ handler' = "idle"
        /\ rule' = None /\ monitor' = monitor
    BY <1>2 DEF HandlerKills, monitorVars
  <2>2. cmd = 0
    BY <1>0, <1>2 DEF HasProcess, Undisturbed, OneAfterTheOther, Launching, TypeOK,
                      Structure, Launches
  <2>3. OneAfterTheOther' /\ cmd' = cmd
    BY <2>1 DEF launchVars, Undisturbed, OneAfterTheOther
  <2>4. Stopped'
    BY <2>1, <2>2, <2>3 DEF Stopped
  <2>5. request = None /\ ~Changing
    BY <2>1, <2>2 DEF Undisturbed, HandlerInv
  <2>6. options = None
    BY <2>2, <2>5 DEF Undisturbed, HandlerInv
  <2> QED BY <1>0, <2>1, <2>2, <2>3, <2>4, <2>5, <2>6
          DEF Undisturbed, HandlerInv, MonitorInv, IdleInv, Changing
<1>3. CASE MonitorKills
  <2>1. /\ HasProcess /\ KillSocat /\ UNCHANGED <<rule, handler>>
        /\ monitor \in {"kill", "exit"}
        /\ monitor' \in {"unprogram", "unprogramAndExit"}
    BY <1>3 DEF MonitorKills, handlerVars
  <2>2. OneAfterTheOther' /\ Halted' /\ cmd' = cmd
    BY <1>0, <2>1, KillEffect DEF Undisturbed
  <2> QED BY <1>0, <2>1, <2>2
          DEF Undisturbed, HandlerInv, MonitorInv, IdleInv, Changing
<1> QED BY <1>1, <1>2, <1>3

\* The rule is deleted.
LEMMA UnprogramKeeps ==
  ASSUME TypeOK, Structure, Undisturbed, HandlerUnprograms \/ MonitorUnprograms,
         process' = "up"
  PROVE  Undisturbed'
<1>1. /\ UNCHANGED <<options, launchVars, active, request, restart, requests>>
      /\ rule' = None /\ cmd' = cmd
  BY DEF HandlerUnprograms, MonitorUnprograms, monitorVars, handlerVars, history,
         launchVars
<1>2. OneAfterTheOther' /\ (Halted' <=> Halted) /\ (Halted => Stopped')
  BY <1>1 DEF launchVars, Undisturbed, OneAfterTheOther, Halted, Stopped
<1>3. CASE HandlerUnprograms
  <2>1. /\ handler = "unprogram" /\ monitor' = monitor
        /\ handler' = IF request = None THEN "idle" ELSE "activate"
    BY <1>3 DEF HandlerUnprograms, monitorVars
  <2> QED BY <1>1, <1>2, <2>1
          DEF Undisturbed, HandlerInv, MonitorInv, IdleInv, Changing
<1>4. CASE MonitorUnprograms
  <2>1. /\ monitor = "unprogram" /\ monitor' = "lookup" /\ handler' = handler
    BY <1>4 DEF MonitorUnprograms, handlerVars
  <2> QED BY <1>1, <1>2, <2>1
          DEF Undisturbed, HandlerInv, MonitorInv, IdleInv, Changing
<1> QED BY <1>3, <1>4

\* A start finds socat running, or creates a command for the options.
LEMMA StartEffect ==
  ASSUME TypeOK, Structure, OneAfterTheOther, startInternal, ~Launching,
         options # None \/ socatRunning, UNCHANGED <<options, rule>>
  PROVE  /\ OneAfterTheOther' /\ cmd' # 0
         /\ \/ socatRunning /\ UNCHANGED launchVars
            \/ cmd # 0 => Halted
         /\ ~socatRunning /\ options.ip # NoIp /\ rule = None => Serving'
<1>1. CASE socatRunning
  <2>1. UNCHANGED launchVars
    BY <1>1 DEF startInternal
  <2> QED BY <1>1, <2>1, Frame DEF socatRunning, launchVars
<1>2. CASE ~socatRunning
  <2>0. options # None
    BY <1>2
  <2>1. /\ launches' = launches + 1 /\ cmd' = launches' /\ launches' \in Launches
        /\ commands'[cmd'] = [config |-> options.config, ip |-> options.ip,
                              state |-> "new"]
        /\ \A k \in Launches : k # cmd' => commands'[k] = commands[k]
        /\ launcher'[cmd'] = "start"
        /\ \A k \in Launches : k # cmd' => launcher'[k] = launcher[k]
    BY <1>2, <2>0, NewCommand
  <2>2. /\ launches \in Nat /\ cmd = launches /\ cmd \in Nat
        /\ \A k \in 1..launches' : k \in Launches
        /\ \A k \in 1..launches' : k # cmd' => k \in 1..launches
        /\ cmd # 0 => cmd \in Launches /\ cmd \in 1..launches
    BY <2>1, InstanceAssumption DEF TypeOK, Structure, Launches, InstanceAssumption
  <2>3. cmd # 0 => Halted
    <3> SUFFICES ASSUME cmd # 0 PROVE commands[cmd].state = "reaped"
      BY DEF Halted
    <3>1. commands[cmd] \in Commands
      BY <2>2 DEF TypeOK, Launches
    <3>2. commands[cmd].state \notin {"running", "exited"}
      BY <1>2 DEF socatRunning
    <3>3. commands[cmd].state # "new"
      BY <2>2 DEF OneAfterTheOther, Launching
    <3> QED BY <3>1, <3>2, <3>3 DEF Commands
  <2>4. \A k \in 1..launches : commands[k].state = "reaped"
    BY <2>2, <2>3 DEF OneAfterTheOther, Halted
  <2>5. /\ commands'[cmd'].state = "new" /\ commands'[cmd'].config = options.config
        /\ commands'[cmd'].ip = options.ip
    BY <2>1
  <2>6. \A k \in Launches : launcher'[k] \in {"start", "network"} => k = cmd'
    BY <2>1 DEF Launching
  <2>7. cmd' # 0
    BY <2>1, <2>2
  <2>8. OneAfterTheOther'
    BY <2>1, <2>2, <2>4, <2>5, <2>6 DEF OneAfterTheOther
  <2>9. options.ip # NoIp /\ rule = None => Serving'
    BY <2>0, <2>1, <2>5, <2>7 DEF Serving, Launching
  <2> QED BY <1>2, <2>3, <2>7, <2>8, <2>9
<1> QED BY <1>1, <1>2

\* A handler starts the relay.
LEMMA HandlerStartsKeeps ==
  ASSUME TypeOK, Structure, Undisturbed, HandlerStarts, ~disturbed'
  PROVE  Undisturbed'
<1>1. /\ UNCHANGED <<options, rule, active, monitor, request, restart, requests>>
      /\ handler = "start" /\ handler' = "idle" /\ startInternal
      /\ ~Launching /\ monitor \in {"select", "ping"}
  BY Zenon DEF HandlerStarts, monitorVars
<1>2. /\ request # None /\ options # None /\ options.ip # NoIp /\ ~Changing
  BY <1>1 DEF Structure, Undisturbed, HandlerInv, Changing
<1>3. Serving \/ Stopped
  BY <1>1, <1>2 DEF Undisturbed, MonitorInv
<1>4. /\ OneAfterTheOther' /\ cmd' # 0
      /\ socatRunning => UNCHANGED launchVars
      /\ ~socatRunning /\ rule = None => Serving'
  BY <1>1, <1>2, StartEffect DEF Undisturbed, Halted, socatRunning
<1>5. Serving'
  <2>1. CASE Serving
    <3>1. commands[cmd].state # "new"
      BY <1>1, <2>1 DEF Undisturbed, OneAfterTheOther, Serving, Launching, TypeOK,
                        Structure, Launches
    <3>2. socatRunning
      BY <2>1, <3>1 DEF Serving, socatRunning
    <3> QED BY <1>1, <1>4, <2>1, <3>2, Frame
  <2>2. CASE Stopped
    <3>1. ~socatRunning /\ rule = None
      BY <2>2 DEF Stopped, Halted, socatRunning
    <3> QED BY <1>4, <3>1
  <2> QED BY <1>3, <2>1, <2>2
<1> QED BY <1>1, <1>2, <1>4, <1>5
        DEF Undisturbed, HandlerInv, MonitorInv, IdleInv, Changing

\* The monitor starts the relay again.
LEMMA MonitorStartsKeeps ==
  ASSUME TypeOK, Structure, Undisturbed, MonitorStarts, ~disturbed',
         process' = "up"
  PROVE  Undisturbed'
<1>1. /\ UNCHANGED <<options, rule, active, handler, request, restart, requests>>
      /\ monitor = "start" /\ monitor' = "select" /\ startInternal /\ ~Launching
      /\ options # None \/ socatRunning
  BY Zenon DEF MonitorStarts, handlerVars
<1>2. /\ options # None /\ handler \notin {"kill", "unprogram"}
      /\ handler = "lookup" => restart
  BY <1>1 DEF Undisturbed, HandlerInv
<1>3. /\ OneAfterTheOther' /\ cmd' # 0
      /\ ~socatRunning /\ options.ip # NoIp /\ rule = None => Serving'
  BY <1>1, <1>2, StartEffect DEF Undisturbed
<1>4. CASE Changing
  BY <1>1, <1>2, <1>3, <1>4
  DEF Undisturbed, HandlerInv, MonitorInv, IdleInv, Changing
<1>5. CASE ~Changing
  <2>1. Stopped /\ handler # "lookup"
    BY <1>1, <1>2, <1>5 DEF Undisturbed, MonitorInv, Changing
  <2>2. ~socatRunning /\ rule = None
    BY <2>1 DEF Stopped, Halted, socatRunning
  <2>3. options.ip # NoIp
    BY <1>2, <2>1 DEF Undisturbed, HandlerInv
  <2>4. Serving'
    BY <1>3, <2>2, <2>3
  <2> QED BY <1>1, <1>2, <1>3, <1>5, <2>4
          DEF Undisturbed, HandlerInv, MonitorInv, IdleInv, Changing
<1> QED BY <1>4, <1>5

\* What a step of a launcher has to keep: it touches the command, the launchers
\* and the rule, and no one's place.
LEMMA LauncherFrame ==
  ASSUME Undisturbed, OneAfterTheOther', cmd # 0,
         UNCHANGED <<options, cmd, monitorVars, handlerVars, requests>>,
         Serving => Serving', Halted <=> Halted', Stopped <=> Stopped'
  PROVE  Undisturbed'
<1>1. UNCHANGED <<active, monitor, handler, request, restart>>
  BY DEF monitorVars, handlerVars
<1>2. options # None
  BY DEF Undisturbed, HandlerInv
<1> QED BY <1>1, <1>2 DEF Undisturbed, HandlerInv, MonitorInv, IdleInv, Changing

\* socat starts: the port is free, as every earlier command has been reaped.
LEMMA LauncherStartsKeeps ==
  ASSUME TypeOK, Structure, Undisturbed, NEW k \in Launches, LauncherStarts(k)
  PROVE  Undisturbed'
<1>1. /\ launcher[k] = "start" /\ k = cmd /\ commands[cmd].state = "new"
      /\ cmd \in 1..launches /\ cmd # 0 /\ launches \in Nat /\ 1..launches \subseteq Launches
      /\ \A j \in 1..launches : j # cmd => commands[j].state = "reaped"
  BY InstanceAssumption DEF LauncherStarts, Undisturbed, OneAfterTheOther, TypeOK,
     Structure, Launches, Idle, InstanceAssumption
<1>2. ~PortTaken
  BY <1>1 DEF PortTaken
<1>3. /\ commands' = [commands EXCEPT ![cmd].state = "running"]
      /\ launcher' = [launcher EXCEPT ![cmd] = "network"]
      /\ UNCHANGED <<options, cmd, launches, monitorVars, handlerVars, rule, requests>>
  BY <1>1, <1>2 DEF LauncherStarts, history
<1>4. /\ commands'[cmd].state = "running"
      /\ commands'[cmd].config = commands[cmd].config
      /\ commands'[cmd].ip = commands[cmd].ip
      /\ \A j \in Launches : j # cmd => commands'[j] = commands[j]
  BY Zenon, <1>1, <1>3, SetState
<1>5. /\ launcher'[cmd] = "network"
      /\ \A j \in Launches : j # cmd => launcher'[j] = launcher[j]
  BY <1>1, <1>3 DEF TypeOK
<1>6. OneAfterTheOther'
  BY <1>1, <1>3, <1>4, <1>5 DEF Undisturbed, OneAfterTheOther
<1>7. Launching /\ Launching'
  BY <1>1, <1>5 DEF Launching
<1>8. Serving => Serving'
  BY <1>1, <1>3, <1>4, <1>7 DEF Serving
<1>9. /\ Halted <=> Halted'
  BY <1>1, <1>3, <1>4 DEF Halted
<1>10. Stopped <=> Stopped'
  BY <1>1, <1>3, <1>4 DEF Stopped, Halted
<1> QED BY <1>1, <1>3, <1>6, <1>8, <1>9, <1>10, LauncherFrame

\* The rule is programmed for the options socat was started with.
LEMMA LauncherProgramsKeeps ==
  ASSUME TypeOK, Structure, Undisturbed, NEW k \in Launches,
         LauncherProgramsNft(k), process' = "up"
  PROVE  Undisturbed'
<1>1. /\ launcher[k] = "network" /\ k = cmd /\ commands[cmd].state = "running"
      /\ cmd # 0 /\ cmd \in Launches
      /\ \A j \in Launches : launcher[j] \in {"start", "network"} => j = cmd
  BY InstanceAssumption
  DEF LauncherProgramsNft, Undisturbed, OneAfterTheOther, Launches, InstanceAssumption
<1>2. /\ launcher' = [launcher EXCEPT ![cmd] = "wait"]
      /\ rule' = IF rule = None /\ options.ip # NoIp THEN options ELSE rule
      /\ UNCHANGED <<options, cmd, commands, launches, monitorVars, handlerVars,
                     requests>>
  BY <1>1 DEF LauncherProgramsNft, history
<1>3. /\ launcher'[cmd] = "wait"
      /\ \A j \in Launches : j # cmd => launcher'[j] = launcher[j]
  BY <1>1, <1>2 DEF TypeOK
<1>4. Launching /\ ~Launching'
  BY <1>1, <1>3 DEF Launching
<1>5. OneAfterTheOther'
  BY <1>1, <1>2, <1>3 DEF Undisturbed, OneAfterTheOther
<1>6. Serving => Serving'
  BY <1>2, <1>4 DEF Serving
<1>7. /\ Halted <=> Halted'
  BY <1>2 DEF Halted
<1>8. Stopped <=> Stopped'
  BY <1>1, <1>2 DEF Stopped, Halted
<1> QED BY <1>1, <1>2, <1>5, <1>6, <1>7, <1>8, LauncherFrame

\* A launcher leaves once its command has ended and been waited for.
LEMMA LauncherWaitsKeeps ==
  ASSUME TypeOK, Structure, Undisturbed, NEW k \in Launches, LauncherWaits(k)
  PROVE  Undisturbed'
<1>1. /\ cmd # 0 /\ cmd \in 1..launches /\ cmd \in Launches
  BY InstanceAssumption DEF LauncherWaits, TypeOK, Structure, Launches, Idle,
     InstanceAssumption
<1>2. commands[cmd].state = "reaped"
  BY <1>1 DEF LauncherWaits, Undisturbed, OneAfterTheOther
<1>3. /\ commands'[cmd].state = "reaped"
      /\ commands'[cmd].config = commands[cmd].config
      /\ commands'[cmd].ip = commands[cmd].ip
      /\ \A j \in Launches : j # cmd => commands'[j] = commands[j]
  BY Zenon, <1>1, SetState DEF LauncherWaits
<1>4. /\ \A j \in Launches : j # k => launcher'[j] = launcher[j]
      /\ launcher[k] = "wait" /\ launcher'[k] = Idle
      /\ UNCHANGED <<options, cmd, launches, monitorVars, handlerVars, rule, requests>>
  BY DEF LauncherWaits, TypeOK, history
<1>5. \A j \in 1..launches : j \in Launches
  BY InstanceAssumption DEF TypeOK, Launches, InstanceAssumption
<1>6. OneAfterTheOther'
  BY <1>1, <1>2, <1>3, <1>4, <1>5 DEF Undisturbed, OneAfterTheOther, Idle
<1>7. ~Serving
  BY <1>2 DEF Serving
<1>8. /\ Halted <=> Halted'
  BY <1>2, <1>3, <1>4 DEF Halted
<1>9. Stopped <=> Stopped'
  BY <1>8, <1>4 DEF Stopped
<1> QED BY <1>1, <1>4, <1>6, <1>7, <1>8, <1>9, LauncherFrame

\* One case per action.
LEMMA UndisturbedNext ==
  ASSUME IInv, [Next]_vars, process' = "up", ~disturbed'
  PROVE  Undisturbed'
<1>1. process = "up" /\ ~disturbed
  BY Zenon DEF IInv, TypeOK, Next, vars, Handler, Monitor, Launcher, Configure, Lookup,
     setProxyIp, deactivateHealthMonitor, HandlerKills, HandlerUnprograms,
     activateHealthMonitor, HandlerStarts, LauncherStarts, LauncherProgramsNft,
     LauncherWaits, Tick, proxyOk, MonitorKills, MonitorUnprograms,
     MonitorLooksUp, MonitorStarts, GatewayMoves, SocatDies, NetnsRemoved, history
<1>2. TypeOK /\ Structure /\ Undisturbed
  BY <1>1 DEF IInv
<1>3. ASSUME NEW o \in Configs \cup {None}, Configure(o) PROVE Undisturbed'
  BY <1>2, <1>3, ConfigureKeeps
<1>4. CASE Handler
  BY <1>2, <1>4, LookupKeeps, HandlerWaits, KillKeeps, UnprogramKeeps,
     HandlerStartsKeeps DEF Handler
<1>5. ASSUME NEW k \in Launches, Launcher(k) PROVE Undisturbed'
  BY <1>2, <1>5, LauncherStartsKeeps, LauncherProgramsKeeps, LauncherWaitsKeeps
  DEF Launcher
<1>6. CASE Monitor
  BY <1>2, <1>6, MonitorLooks, KillKeeps, UnprogramKeeps, LookupKeeps,
     MonitorStartsKeeps DEF Monitor
<1>7. CASE GatewayMoves \/ NetnsRemoved \/ UNCHANGED vars
  BY <1>2, <1>7, MonitorLooks
<1>8. ~SocatDies
  BY DEF SocatDies
<1> QED BY <1>3, <1>4, <1>5, <1>6, <1>7, <1>8 DEF Next

\* The inductive invariant.
LEMMA IInvInvariant == Spec => []IInv
<1>1. Init => IInv
  <2> SUFFICES ASSUME Init PROVE IInv
    OBVIOUS
  <2>1. TypeOK /\ Structure
    <3>1. /\ MaxLaunches \in Nat /\ 0 \in 0..MaxLaunches /\ 0 \in 0..MaxRequests
          /\ 0 \in 0..MaxFaults /\ \A k \in Launches : k > 0
      BY InstanceAssumption DEF Launches, InstanceAssumption
    <3>2. /\ TRUE \in BOOLEAN /\ FALSE \in BOOLEAN
      OBVIOUS
    <3>3. commands \in [Launches -> Commands \cup {None}]
      BY DEF Init
    <3>4. launcher \in [Launches -> {Idle, "start", "network", "wait"}]
      BY DEF Init
    <3>5. active \in BOOLEAN /\ restart \in BOOLEAN /\ netns \in BOOLEAN /\ disturbed \in BOOLEAN
      BY Zenon, <3>2 DEF Init
    <3>6. /\ \A k \in Launches : commands[k] = None
          /\ \A k \in Launches : launcher[k] = Idle
      BY DEF Init
    <3> QED BY <3>1, <3>3, <3>4, <3>5, <3>6 DEF Init, TypeOK, Structure
  <2>2. Undisturbed
    BY DEF Init, Undisturbed, OneAfterTheOther, HandlerInv, MonitorInv, IdleInv,
       Changing, Stopped, Idle
  <2> QED BY <2>1, <2>2 DEF IInv
<1>2. IInv /\ [Next]_vars => IInv'
  BY TypeNext, UndisturbedNext DEF IInv
<1> QED BY <1>1, <1>2, PTL DEF Spec

\* Type correctness of a relay instance, for every number of launches, requests
\* and faults: among it, that no two socat processes listen at the same time.
THEOREM TypeCorrect == Spec => []TypeOK
BY IInvInvariant, PTL DEF IInv

\* A relay instance left alone does what it was last asked: after StartRelay it
\* forwards with the options of that request, after StopRelay nothing listens
\* and no rule is left.
THEOREM Asked == Spec => []DoesAsAsked
<1>1. IInv => DoesAsAsked
  <2> SUFFICES ASSUME IInv, Settled, ~disturbed
               PROVE  IF request # None THEN Forwards(request, options.ip)
                      ELSE rule = None /\ ~PortTaken
    BY DEF DoesAsAsked
  <2>1. TypeOK /\ Structure /\ Undisturbed
    BY DEF IInv, Settled
  <2>2. CASE request # None
    <3>1. Serving /\ ~Launching /\ options # None /\ options.config = request
      BY <2>1, <2>2 DEF Settled, Undisturbed, IdleInv, Structure
    <3>2. cmd \in Launches /\ commands[cmd].state = "running"
      BY <2>1, <3>1, InstanceAssumption DEF Serving, Undisturbed, OneAfterTheOther,
         Launching, TypeOK, Launches, InstanceAssumption
    <3>3. commands[cmd] = [config |-> request, ip |-> options.ip, state |-> "running"]
      <4>1. commands[cmd] \in Commands
        BY <2>1, <3>1, <3>2 DEF TypeOK, Serving, Launches
      <4> QED BY <3>1, <3>2, <4>1 DEF Serving, Commands
    <3>4. rule = [config |-> request, ip |-> options.ip]
      <4>1. options \in Options /\ rule = options
        BY <2>1, <3>1 DEF Serving, TypeOK
      <4> QED BY <3>1, <4>1 DEF Options
    <3> QED BY <2>2, <3>1, <3>3, <3>4 DEF Forwards, Serving
  <2>3. CASE request = None
    <3>1. Stopped
      BY <2>1, <2>3 DEF Settled, Undisturbed, IdleInv
    <3>2. \A k \in 1..launches : commands[k].state = "reaped"
      BY <2>1, <3>1 DEF Stopped, Halted, Undisturbed, OneAfterTheOther, TypeOK,
         Structure
    <3> QED BY <2>3, <3>1, <3>2 DEF Stopped, PortTaken
  <2> QED BY <2>2, <2>3
<1> QED BY <1>1, IInvInvariant, PTL
=============================================================================
