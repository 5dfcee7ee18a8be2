----------------------------- MODULE Processor -----------------------------
(***************************************************************************)
(* The external processor between Envoy and libmodsecurity.  Envoy opens a *)
(* stream for a request and sends it the request's headers, its body if it *)
(* has one and, once the application has answered, the response's headers. *)
(* It holds the traffic back until each of them is answered.  Process      *)
(* handles a stream in a goroutine of its own, with a transaction of       *)
(* libmodsecurity that it has to release when the stream ends, in whatever *)
(* way it ends: answered, blocked, timed out, cancelled or broken.         *)
(*                                                                         *)
(* Goroutines share protectionCache, a Go map without a lock, with the     *)
(* ruleset watcher.  Go may end a process that reads a map during a write. *)
(*                                                                         *)
(* Envoy, by the filter the gateway gives it, and libmodsecurity are       *)
(* external: a phase intervenes or it does not.                            *)
(***************************************************************************)
EXTENDS Naturals

CONSTANTS
  Streams,    \* requests
  MaxCrashes  \* bound: deaths of the processor

ASSUME ProcessorAssumption == MaxCrashes \in Nat

VARIABLES
  envoy,       \* envoy[s]: the phase it waits for, or where the request is
  body,        \* body[s]: whether the request has a body
  toProcessor, \* toProcessor[s]: what the stream holds for Process
  toEnvoy,     \* toEnvoy[s]: the answer it holds for Envoy
  closed,      \* closed[s]: whether Envoy has closed the stream
  process,     \* process[s]: where Process is
  transaction, \* transaction[s]: that of its evalRequest
  up,          \* whether the processor runs
  cacheWrite,  \* whether the watcher writes to protectionCache
  evaluated,   \* history: evaluated[s], the phases libmodsecurity has seen
  intervened,  \* history: intervened[s], those it has intervened in
  crashes

procVars == <<envoy, body, toProcessor, toEnvoy, closed, process, transaction, up,
          cacheWrite, evaluated, intervened, crashes>>

Phases == {"requestHeaders", "requestBody", "responseHeaders"}

ProcInit ==
  /\ envoy = [s \in Streams |-> "new"]
  /\ body \in [Streams -> BOOLEAN]
  /\ toProcessor = [s \in Streams |-> "nothing"]
  /\ toEnvoy = [s \in Streams |-> "nothing"]
  /\ closed = [s \in Streams |-> FALSE]
  /\ process = [s \in Streams |-> "none"]
  /\ transaction = [s \in Streams |-> "none"]
  /\ up = TRUE /\ cacheWrite = FALSE
  /\ evaluated = [s \in Streams |-> {}] /\ intervened = [s \in Streams |-> {}]
  /\ crashes = 0

\* Mutant: FailureModeAllow is set.
BrokenAllowed(e) == IF e = "responseHeaders" THEN "answered" ELSE "upstream"

\* What a stream that fails means to the request Envoy holds back:
\* FailureModeAllow is not set.
Broken(e) == "failed"

-----------------------------------------------------------------------------
(* Process.                                                                *)

\* Mutant: nothing destroys the transaction.
ReturnKeeps(s) ==
  /\ process' = [process EXCEPT ![s] = "returned"]
  /\ toProcessor' = [toProcessor EXCEPT ![s] = "nothing"]
  /\ UNCHANGED transaction

\* Process returns; the deferred function destroys the transaction if there
\* is one.
Return(s) ==
  /\ process' = [process EXCEPT ![s] = "returned"]
  /\ toProcessor' = [toProcessor EXCEPT ![s] = "nothing"]
  /\ transaction' = [transaction EXCEPT ![s] = IF @ = "live" THEN "destroyed"
                                               ELSE @]

\* Mutant: a phase that intervenes gets no answer.
EvaluateSilent(s, phase, hit) ==
  /\ process[s] = "recv" /\ toProcessor[s] = phase
  /\ toProcessor' = [toProcessor EXCEPT ![s] = "nothing"]
  /\ transaction' = IF phase = "requestHeaders"
                    THEN [transaction EXCEPT ![s] = "live"] ELSE transaction
  /\ evaluated' = [evaluated EXCEPT ![s] = @ \cup {phase}]
  /\ intervened' = [intervened EXCEPT ![s] = IF hit THEN @ \cup {phase} ELSE @]
  /\ process' = [process EXCEPT ![s] = IF hit THEN "recv" ELSE "continue"]
  /\ UNCHANGED <<envoy, body, toEnvoy, closed, up, cacheWrite, crashes>>

\* The case of Process for a phase.  The request's headers start the
\* transaction; hit says whether libmodsecurity intervenes.
Evaluate(s, phase, hit) ==
  /\ process[s] = "recv" /\ toProcessor[s] = phase
  /\ toProcessor' = [toProcessor EXCEPT ![s] = "nothing"]
  /\ transaction' = IF phase = "requestHeaders"
                    THEN [transaction EXCEPT ![s] = "live"] ELSE transaction
  /\ evaluated' = [evaluated EXCEPT ![s] = @ \cup {phase}]
  /\ intervened' = [intervened EXCEPT ![s] = IF hit THEN @ \cup {phase} ELSE @]
  /\ process' = [process EXCEPT ![s] = IF hit THEN "enrich" ELSE "continue"]
  /\ UNCHANGED <<envoy, body, toEnvoy, closed, up, cacheWrite, crashes>>

\* Every goroutine of the processor ends and every stream breaks.
Dies ==
  /\ up' = FALSE /\ cacheWrite' = FALSE
  /\ crashes' = crashes + 1
  /\ process' = [s \in Streams |-> IF process[s] = "none" THEN "none"
                                   ELSE "returned"]
  /\ transaction' = [s \in Streams |-> IF transaction[s] = "live"
                                       THEN "destroyed" ELSE transaction[s]]
  /\ toEnvoy' = [s \in Streams |-> "nothing"]
  /\ toProcessor' = [s \in Streams |-> "nothing"]
  /\ envoy' = [s \in Streams |-> IF envoy[s] \in Phases \cup {"upstream"}
                                 THEN Broken(envoy[s]) ELSE envoy[s]]
  /\ UNCHANGED <<body, closed, evaluated, intervened>>

\* interventionResponse: a page that shows a captcha needs the protection
\* from protectionCache.
EnrichWithInterventionContext(s) ==
  /\ process[s] = "enrich"
  /\ process' = [process EXCEPT ![s] = "immediate"]
  /\ UNCHANGED <<envoy, body, toProcessor, toEnvoy, closed, transaction, up,
                 cacheWrite, evaluated, intervened, crashes>>

\* The read of the map meets the watcher's write.
ConcurrentMapAccess(s) ==
  /\ process[s] = "enrich" /\ cacheWrite /\ crashes < MaxCrashes
  /\ Dies

\* stream.Send, which may fail, or not, once Envoy has closed the stream.
Send(s) ==
  /\ process[s] \in {"continue", "immediate"}
  /\ \/ /\ process' = [process EXCEPT ![s] = "recv"]
        /\ toEnvoy' = IF closed[s] THEN toEnvoy
                      ELSE [toEnvoy EXCEPT ![s] = process[s]]
        /\ UNCHANGED <<toProcessor, transaction>>
     \/ closed[s] /\ Return(s) /\ UNCHANGED toEnvoy
  /\ UNCHANGED <<envoy, body, closed, up, cacheWrite, evaluated, intervened,
                 crashes>>

\* stream.Recv returns io.EOF, or an error before what was still to come.
RecvEnd(s) ==
  /\ process[s] = "recv" /\ closed[s]
  /\ Return(s)
  /\ UNCHANGED <<envoy, body, toEnvoy, closed, up, cacheWrite, evaluated,
                 intervened, crashes>>

\* getProtectionRules begins and ends to write a protection to the cache.
WriteProtectionCache ==
  /\ up
  /\ cacheWrite' = ~cacheWrite
  /\ UNCHANGED <<envoy, body, toProcessor, toEnvoy, closed, process, transaction,
                 up, evaluated, intervened, crashes>>

Crash ==
  /\ up /\ crashes < MaxCrashes
  /\ Dies

Restart ==
  /\ ~up
  /\ up' = TRUE
  /\ UNCHANGED <<envoy, body, toProcessor, toEnvoy, closed, process, transaction,
                 cacheWrite, evaluated, intervened, crashes>>

-----------------------------------------------------------------------------
(* Envoy.                                                                  *)

rest == <<body, transaction, up, cacheWrite, evaluated, intervened, crashes>>

SendPhase(s, phase) ==
  /\ envoy' = [envoy EXCEPT ![s] = phase]
  /\ toProcessor' = [toProcessor EXCEPT ![s] = phase]

\* Envoy is done with the stream.
Close(s, outcome) ==
  /\ envoy' = [envoy EXCEPT ![s] = outcome]
  /\ closed' = [closed EXCEPT ![s] = TRUE]
  /\ toEnvoy' = [toEnvoy EXCEPT ![s] = "nothing"]

\* A request comes in.
Open(s) ==
  /\ envoy[s] = "new"
  /\ \/ /\ up
        /\ SendPhase(s, "requestHeaders")
        /\ process' = [process EXCEPT ![s] = "recv"]
     \/ /\ ~up
        /\ envoy' = [envoy EXCEPT ![s] = Broken("requestHeaders")]
        /\ UNCHANGED <<toProcessor, process>>
  /\ UNCHANGED <<toEnvoy, closed, rest>>

\* Envoy may go on with what it held back.
Continue(s) ==
  /\ toEnvoy[s] = "continue"
  /\ \/ /\ envoy[s] = "requestHeaders" /\ body[s]
        /\ SendPhase(s, "requestBody")
        /\ toEnvoy' = [toEnvoy EXCEPT ![s] = "nothing"]
        /\ UNCHANGED closed
     \/ /\ (envoy[s] = "requestHeaders" /\ ~body[s]) \/ envoy[s] = "requestBody"
        /\ envoy' = [envoy EXCEPT ![s] = "upstream"]
        /\ toEnvoy' = [toEnvoy EXCEPT ![s] = "nothing"]
        /\ UNCHANGED <<toProcessor, closed>>
     \/ /\ envoy[s] = "responseHeaders"
        /\ Close(s, "answered")
        /\ UNCHANGED toProcessor
  /\ UNCHANGED <<process, rest>>

\* Envoy sends the client the response it got instead.
Block(s) ==
  /\ toEnvoy[s] = "immediate"
  /\ Close(s, "blocked")
  /\ UNCHANGED <<toProcessor, process, rest>>

\* The application answers, or Envoy does for it.
Responds(s) ==
  /\ envoy[s] = "upstream"
  /\ SendPhase(s, "responseHeaders")
  /\ UNCHANGED <<toEnvoy, closed, process, rest>>

\* No answer within MessageTimeout.
MessageTimeout(s) ==
  /\ envoy[s] \in Phases
  /\ Close(s, Broken(envoy[s]))
  /\ UNCHANGED <<toProcessor, process, rest>>

\* The client gives up.
Cancel(s) ==
  /\ envoy[s] \in Phases \cup {"upstream"}
  /\ Close(s, "cancelled")
  /\ UNCHANGED <<toProcessor, process, rest>>

-----------------------------------------------------------------------------
Process(s) ==
  \/ \E phase \in Phases, hit \in BOOLEAN : Evaluate(s, phase, hit)
  \/ EnrichWithInterventionContext(s) \/ Send(s) \/ RecvEnd(s)

Envoy(s) == Continue(s) \/ Block(s) \/ Responds(s)

ProcNext ==
  \/ \E s \in Streams : \/ Process(s) \/ ConcurrentMapAccess(s)
                        \/ Open(s) \/ Envoy(s) \/ MessageTimeout(s) \/ Cancel(s)
  \/ WriteProtectionCache \/ Crash \/ Restart

ProcSpec == ProcInit /\ [][ProcNext]_procVars

\* Goroutines run, Envoy goes on, and applications answer.  Nothing is
\* assumed of timeouts: Process has to answer by itself.
ProcFairSpec ==
  ProcSpec /\ \A s \in Streams : WF_procVars(Process(s)) /\ WF_procVars(Envoy(s))

-----------------------------------------------------------------------------
(* What the processor must provide.                                        *)

\* The streams are well formed, and Process uses a transaction only between
\* its creation and its destruction.
ProcTypeOK ==
  /\ envoy \in [Streams -> Phases \cup {"new", "upstream", "answered", "blocked",
                                        "failed", "cancelled"}]
  /\ body \in [Streams -> BOOLEAN]
  /\ toProcessor \in [Streams -> Phases \cup {"nothing"}]
  /\ toEnvoy \in [Streams -> {"nothing", "continue", "immediate"}]
  /\ closed \in [Streams -> BOOLEAN]
  /\ process \in [Streams -> {"none", "recv", "enrich", "immediate", "continue",
                              "returned"}]
  /\ transaction \in [Streams -> {"none", "live", "destroyed"}]
  /\ up \in BOOLEAN /\ cacheWrite \in BOOLEAN
  /\ evaluated \in [Streams -> SUBSET Phases]
  /\ intervened \in [Streams -> SUBSET Phases]
  /\ crashes \in 0..MaxCrashes
  /\ \A s \in Streams :
       /\ process[s] \in {"enrich", "immediate", "continue"}
            => transaction[s] = "live"
       /\ toProcessor[s] \in Phases \ {"requestHeaders"}
            => transaction[s] = "live"

\* No request reaches the application before libmodsecurity has seen its
\* headers and its body and let them pass, and no response the client before
\* it has seen the headers, whatever fails, is late or is given up: answers
\* belong to the phase Envoy waits for, and what breaks fails closed.
NothingPassesUnevaluated ==
  \A s \in Streams :
    /\ envoy[s] \in {"upstream", "responseHeaders", "answered"}
         => /\ "requestHeaders" \in evaluated[s]
            /\ body[s] => "requestBody" \in evaluated[s]
            /\ intervened[s] \subseteq {"responseHeaders"}
    /\ envoy[s] = "answered"
         => "responseHeaders" \in evaluated[s] /\ intervened[s] = {}

\* Why NothingPassesUnevaluated holds, of a stream s in use: what it holds is
\* about the phase Envoy waits for, and nothing was blocked before.
InUse(s) == envoy[s] \in Phases \cup {"new", "upstream"}

AtWork(s) == process[s] \in {"enrich", "immediate", "continue"}

Matching(s) ==
  /\ ~closed[s]
  /\ envoy[s] = "new" => process[s] = "none"
  /\ toProcessor[s] # "nothing" => toProcessor[s] = envoy[s] /\ intervened[s] = {}
  /\ AtWork(s) => toEnvoy[s] = "nothing"
  /\ AtWork(s) \/ toEnvoy[s] # "nothing"
       => /\ toProcessor[s] = "nothing"
          /\ envoy[s] \in Phases /\ envoy[s] \in evaluated[s]
          /\ transaction[s] = "live"
  /\ process[s] = "continue" \/ toEnvoy[s] = "continue"
       => envoy[s] \notin intervened[s]

LetPass(s) ==
  /\ envoy[s] \in {"requestBody", "upstream", "responseHeaders"}
       => "requestHeaders" \in evaluated[s] /\ transaction[s] = "live"
  /\ envoy[s] \in {"new", "upstream"}
       => toProcessor[s] = "nothing" /\ intervened[s] = {}
  /\ envoy[s] \in Phases => intervened[s] \subseteq {envoy[s]}

StreamInv ==
  \A s \in Streams :
    /\ InUse(s) => Matching(s) /\ LetPass(s)
    /\ envoy[s] = "answered" => toProcessor[s] = "nothing"

ProcInv == ProcTypeOK /\ StreamInv /\ NothingPassesUnevaluated

\* Process releases every transaction, however the stream ends.
TransactionsDestroyed ==
  \A s \in Streams : transaction[s] = "live" ~> transaction[s] = "destroyed"

\* Every request that comes in comes to an end, without the help of timeouts.
RequestsEnd ==
  \A s \in Streams :
    envoy[s] = "requestHeaders"
      ~> envoy[s] \in {"answered", "blocked", "failed", "cancelled"}
=============================================================================
