-------------------------- MODULE NetmikoSessions --------------------------
(***************************************************************************)
(* Running commands or a template on network devices: the Netmiko page of  *)
(* the web client (use-netmiko-execution.ts), the requests it posts and    *)
(* the service that works through the devices of each (routers/network/    *)
(* automation/netmiko.py, services/network/automation/).                   *)
(*                                                                         *)
(* The page names each execution by a fresh session id and cancels it by   *)
(* that id.  A service keeps the ids it has cancelled in a registry of its *)
(* own, and every request is handled by a service of its own.  The page    *)
(* sets isExecuting and currentSessionId together; one variable stands for *)
(* both.                                                                   *)
(***************************************************************************)
EXTENDS Naturals, FiniteSets

CONSTANTS
  Session,           \* the ids the page draws, one per execution
  NoSession,
  Device,            \* the selected devices
  HasIP,             \* those with a primary IP address
  Workers            \* threads of a service's pool

ASSUME DeviceAssumption ==
  /\ NoSession \notin Session
  /\ IsFiniteSet(Device) /\ HasIP \subseteq Device
  /\ Workers \in Nat \ {0}

VARIABLES
  currentSessionId,  \* of the execution the page waits for
  isCancelling,
  shown,             \* the session whose results the page shows
  mode,              \* what each session executes
  call,              \* the request that executes each session
  cancelCall,        \* the request that cancels it
  abandoned,         \* sessions whose answer reaches no page any more
  state,             \* of each device in each session
  cancelled          \* the registry of each request's service

pageVars == <<currentSessionId, isCancelling, shown, abandoned>>
vars == <<pageVars, mode, call, cancelCall, state, cancelled>>

Mode == {"commands", "template", "dryrun", "sync"}
\* What becomes of a device; one that is omitted has no entry in the results.
Final == {"ok", "failed", "cancelled", "omitted"}
Service == {"execute", "cancel"} \X Session

Init ==
  /\ currentSessionId = NoSession
  /\ isCancelling = FALSE
  /\ shown = NoSession
  /\ mode = [s \in Session |-> "commands"]
  /\ call = [s \in Session |-> "none"]
  /\ cancelCall = [s \in Session |-> "none"]
  /\ abandoned = {}
  /\ state = [s \in Session |-> [d \in Device |-> "idle"]]
  /\ cancelled = [v \in Service |-> {}]

----------------------------------------------------------------------------
\* The page.  Its button is disabled while it waits for an execution.
Execute(s, m) ==
  /\ call[s] = "none"
  /\ currentSessionId' = s
  /\ shown' = NoSession
  /\ mode' = [mode EXCEPT ![s] = m]
  /\ call' = [call EXCEPT ![s] = "open"]
  /\ state' = [state EXCEPT ![s] = [d \in Device |-> "waiting"]]
  /\ UNCHANGED <<isCancelling, abandoned, cancelCall, cancelled>>

\* Mutant: the button stays enabled.
StartExecutionAlways(s, m) == Execute(s, m)

StartExecution(s, m) == currentSessionId = NoSession /\ Execute(s, m)

executeCommands(s) == StartExecution(s, "commands")

\* The page's dry run switch and the template's own mode select among these.
executeTemplate(s) ==
  \E m \in {"template", "dryrun", "sync"} : StartExecution(s, m)

cancelExecution ==
  /\ currentSessionId # NoSession
  /\ ~isCancelling
  /\ isCancelling' = TRUE
  /\ cancelCall' = [cancelCall EXCEPT ![currentSessionId] = "open"]
  /\ UNCHANGED <<currentSessionId, shown, abandoned, mode, call, state,
                 cancelled>>

\* Mutant: the finally forgets the cancel button.
FinallyStillCancelling ==
  /\ currentSessionId' = NoSession
  /\ UNCHANGED isCancelling

\* The finally of both executions.
Finally ==
  /\ currentSessionId' = NoSession
  /\ isCancelling' = FALSE

\* Mutant: an execution the page had lost sight of reports to it all the same.
ResultsOfAnyArrive ==
  /\ \E s \in Session : call[s] = "answered" /\ shown' = s
  /\ Finally
  /\ UNCHANGED <<abandoned, mode, call, cancelCall, state, cancelled>>

ResultsArrive ==
  /\ currentSessionId # NoSession
  /\ call[currentSessionId] = "answered"
  /\ shown' = currentSessionId
  /\ Finally
  /\ UNCHANGED <<abandoned, mode, call, cancelCall, state, cancelled>>

\* The connection is lost, and an error is shown; the execution goes on.
AnswerLost ==
  /\ currentSessionId # NoSession
  /\ abandoned' = abandoned \cup {currentSessionId}
  /\ Finally
  /\ UNCHANGED <<shown, mode, call, cancelCall, state, cancelled>>

\* Other devices are selected: the results of the earlier ones are put away.
resetResults ==
  /\ shown # NoSession
  /\ shown' = NoSession
  /\ UNCHANGED <<currentSessionId, isCancelling, abandoned, mode, call, cancelCall,
                 state, cancelled>>

\* The user opens another page and returns: the hook starts afresh.
LeavePage ==
  /\ currentSessionId # NoSession \/ shown # NoSession
  /\ abandoned' = abandoned \cup ({currentSessionId} \ {NoSession})
  /\ shown' = NoSession
  /\ Finally
  /\ UNCHANGED <<mode, call, cancelCall, state, cancelled>>

----------------------------------------------------------------------------
\* The services.  build_netmiko_service makes one for each request.
ServiceOf(request, s) == <<request, s>>

\* Mutant: the cancellation takes the request of the execution for its own.
CancelServedOther(s) ==
  /\ cancelCall[s] = "open"
  /\ call' = [call EXCEPT ![s] = "lost"]
  /\ cancelled' = [cancelled EXCEPT ![ServiceOf("cancel", s)] = @ \cup {s}]
  /\ UNCHANGED <<pageVars, mode, cancelCall, state>>

CancelServed(s) ==
  /\ cancelCall[s] = "open"
  /\ cancelCall' = [cancelCall EXCEPT ![s] = "answered"]
  /\ cancelled' = [cancelled EXCEPT ![ServiceOf("cancel", s)] = @ \cup {s}]
  /\ UNCHANGED <<pageVars, mode, call, state>>

\* The request is lost: an alert, nothing else.
CancelLost(s) ==
  /\ cancelCall[s] = "open"
  /\ cancelCall' = [cancelCall EXCEPT ![s] = "lost"]
  /\ UNCHANGED <<pageVars, mode, call, state, cancelled>>

is_cancelled(s) == s \in cancelled[ServiceOf("execute", s)]

\* Commands run on as many devices at once as the pool has threads, templates
\* on one device after the other.
Width(s) == IF mode[s] = "commands" THEN Workers ELSE 1
Running(s) == {d \in Device : state[s][d] = "running"}
SetState(s, d, v) == state' = [state EXCEPT ![s][d] = v]

Turn(s, d) ==
  /\ call[s] = "open" /\ state[s][d] = "waiting"
  /\ Cardinality(Running(s)) < Width(s)

\* Mutant: a device without an address is left waiting.
StartDeviceWithIP(s, d) ==
  /\ Turn(s, d) /\ mode[s] # "sync" /\ d \in HasIP
  /\ SetState(s, d, IF is_cancelled(s) THEN "cancelled" ELSE "running")
  /\ UNCHANGED <<pageVars, mode, call, cancelCall, cancelled>>

\* A device's turn comes: what was cancelled or cannot be reached is not
\* connected to.  Commands leave a device without an address out of the results,
\* a template reports it as failed, and a dry run ends with the rendering, which
\* needs no address.
StartDevice(s, d) ==
  /\ Turn(s, d) /\ mode[s] # "sync"
  /\ SetState(s, d,
       IF d \notin HasIP /\ mode[s] = "commands" THEN "omitted"
       ELSE IF is_cancelled(s) THEN "cancelled"
       ELSE IF mode[s] = "dryrun" THEN "ok"
       ELSE IF d \notin HasIP THEN "failed" ELSE "running")
  /\ UNCHANGED <<pageVars, mode, call, cancelCall, cancelled>>

\* Nautobot has no such device, or the template does not render.
PrepareFails(s, d) ==
  /\ Turn(s, d) /\ mode[s] \in {"template", "dryrun"}
  /\ SetState(s, d, "failed")
  /\ UNCHANGED <<pageVars, mode, call, cancelCall, cancelled>>

FinishDevice(s, d) ==
  /\ state[s][d] = "running"
  /\ \E v \in {"ok", "failed"} : SetState(s, d, v)
  /\ UNCHANGED <<pageVars, mode, call, cancelCall, cancelled>>

\* A template of the sync mode is rendered for all devices and handed to a job,
\* or in a dry run to none.  One device that does not render or parse fails the
\* rest, and only what was rendered has an entry.
ExecuteAndSync(s) ==
  /\ call[s] = "open" /\ mode[s] = "sync"
  /\ \E d \in Device : state[s][d] = "waiting"
  /\ \E rendered \in SUBSET Device, success \in BOOLEAN :
       /\ success => rendered = Device
       /\ state' = [state EXCEPT ![s] =
            [d \in Device |-> IF d \notin rendered THEN "omitted"
                              ELSE IF success THEN "ok" ELSE "failed"]]
  /\ UNCHANGED <<pageVars, mode, call, cancelCall, cancelled>>

AllDone(s) == \A d \in Device : state[s][d] \in Final

\* Mutant: the answer does not wait for the devices under way.
AnswerExecutionEarly(s) ==
  /\ call[s] = "open"
  /\ \A d \in Device : state[s][d] # "waiting"
  /\ call' = [call EXCEPT ![s] = "answered"]
  /\ cancelled' = [cancelled EXCEPT ![ServiceOf("execute", s)] = @ \ {s}]
  /\ UNCHANGED <<pageVars, mode, cancelCall, state>>

AnswerExecution(s) ==
  /\ call[s] = "open"
  /\ AllDone(s)
  /\ call' = [call EXCEPT ![s] = "answered"]
  /\ cancelled' = [cancelled EXCEPT ![ServiceOf("execute", s)] = @ \ {s}]
  /\ UNCHANGED <<pageVars, mode, cancelCall, state>>

----------------------------------------------------------------------------
Page ==
  \/ \E s \in Session : executeCommands(s) \/ executeTemplate(s)
  \/ cancelExecution \/ ResultsArrive \/ AnswerLost \/ resetResults \/ LeavePage

Serves(s) ==
  \/ \E d \in Device : \/ StartDevice(s, d) \/ PrepareFails(s, d)
                       \/ FinishDevice(s, d)
  \/ ExecuteAndSync(s) \/ AnswerExecution(s)

Next ==
  \/ Page
  \/ \E s \in Session : Serves(s) \/ CancelServed(s) \/ CancelLost(s)

Spec == Init /\ [][Next]_vars

\* Connections time out, so every device gets its turn and ends it, and an
\* answer that is not lost arrives.
FairSpec ==
  /\ Spec
  /\ \A s \in Session : WF_vars(Serves(s))
  /\ WF_vars(ResultsArrive)

----------------------------------------------------------------------------
TypeOK ==
  /\ currentSessionId \in Session \cup {NoSession}
  /\ isCancelling \in BOOLEAN
  /\ shown \in Session \cup {NoSession}
  /\ mode \in [Session -> Mode]
  /\ call \in [Session -> {"none", "open", "answered"}]
  /\ cancelCall \in [Session -> {"none", "open", "answered", "lost"}]
  /\ abandoned \subseteq Session
  /\ state \in [Session -> [Device -> {"idle", "waiting", "running"} \cup Final]]
  /\ cancelled \in [Service -> SUBSET Session]

\* Devices are worked on for one execution at a time, unless the page lost
\* sight of the other one: an answer that was lost, or a page that was left.
OneSessionAtATime ==
  \A s1, s2 \in Session :
    call[s1] = "open" /\ call[s2] = "open" /\ s1 # s2
      => s1 \in abandoned \/ s2 \in abandoned

\* What a decided device of an execution may have come to.
OutcomeDue(s, d) ==
  /\ mode[s] = "commands" => (state[s][d] = "omitted" <=> d \notin HasIP)
  /\ mode[s] = "template" => (state[s][d] = "ok" => d \in HasIP)
  /\ mode[s] \in {"template", "dryrun"} => state[s][d] # "omitted"
  /\ mode[s] = "sync" =>
       (state[s][d] = "ok" => \A e \in Device : state[s][e] = "ok")

\* The results a page shows are the last word on the execution: its request is
\* answered and none of its devices is waiting or worked on.  Commands leave out
\* the devices without an address and no other; a template or its dry run leaves
\* out none; a template is reported as run only on devices with an address; and
\* a template that is synced succeeds on all devices or on none.
ShownResultsFinal ==
  shown # NoSession =>
    /\ call[shown] = "answered"
    /\ AllDone(shown)
    /\ \A d \in Device : OutcomeDue(shown, d)

\* The cancel button says "Cancelling" only for an execution that is waited
\* for and whose cancellation was posted: it never outlives one execution to
\* block the next.
CancellingThisSession ==
  isCancelling => /\ currentSessionId # NoSession
                  /\ cancelCall[currentSessionId] # "none"

\* The page and its services implement DeviceBatches: no device's outcome is
\* revised, and an execution that was given up, by a lost answer or by leaving
\* the page, never has its results shown over those of a later one.
Outcomes(s) ==
  [d \in Device |-> IF state[s][d] \in Final THEN state[s][d] ELSE "none"]

Batches == INSTANCE DeviceBatches WITH
  Batch <- Session, NoBatch <- NoSession,
  asked <- {s \in Session : call[s] # "none"},
  outcome <- [s \in Session |-> Outcomes(s)],
  awaited <- currentSessionId

ImplementsBatches == Batches!Spec

\* Every execution the page waits for comes to an end, whatever the devices,
\* the template and the cancel button do: none is waited for for ever.
ExecutionEnds ==
  \A s \in Session : []<>(currentSessionId # s)

\* "Devices that haven't started execution yet will be marked as cancelled"
\* (cancel_execution in routers/network/automation/netmiko.py): once the
\* cancellation is answered, no device of the session is started.
CancelStopsWaiting ==
  [][\A s \in Session, d \in Device :
       cancelCall[s] = "answered" /\ state[s][d] = "waiting"
         => state'[s][d] # "running"]_vars
=============================================================================
