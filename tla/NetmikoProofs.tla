--------------------------- MODULE NetmikoProofs ---------------------------
(***************************************************************************)
(* The safety of the Netmiko page and its services, for any devices, any   *)
(* number of executions and any width of the pool, and that together they  *)
(* implement DeviceBatches.                                                *)
(***************************************************************************)
EXTENDS NetmikoSessions, TLAPS

\* An execution under way is the one the page waits for, or one it lost
\* sight of.
OpenIsWatched ==
  \A s \in Session : call[s] = "open" => s = currentSessionId \/ s \in abandoned

\* Only commands and templates connect, to devices with an address; what a device
\* came to is what its mode allows; and no device of an execution that is answered
\* is still under way.
DevicesInOrder ==
  \A s \in Session :
    /\ call[s] = "answered" => AllDone(s)
    /\ \A d \in Device :
         /\ state[s][d] = "running" =>
              mode[s] \in {"commands", "template"} /\ d \in HasIP
         /\ state[s][d] \in Final => OutcomeDue(s, d)

ShownIsAnswered == shown # NoSession => call[shown] = "answered"

IInv ==
  /\ TypeOK
  /\ OpenIsWatched
  /\ DevicesInOrder
  /\ ShownIsAnswered
  /\ CancellingThisSession

LEMMA InitIInv == Init => IInv
<1> SUFFICES ASSUME Init PROVE IInv
  OBVIOUS
<1>1. TypeOK
  BY DEF Init, TypeOK, Mode, Service
<1>2. OpenIsWatched /\ DevicesInOrder /\ ShownIsAnswered /\ CancellingThisSession
  BY DEF Init, OpenIsWatched, DevicesInOrder, ShownIsAnswered,
         CancellingThisSession, Final
<1> QED
  BY <1>1, <1>2 DEF IInv

----------------------------------------------------------------------------
\* A step of the page keeps the invariant: it changes no device of an
\* execution that has begun.
LEMMA ExecuteStep ==
  ASSUME IInv, NEW s \in Session, NEW m \in Mode, StartExecution(s, m)
  PROVE  IInv'
<1> USE DEF StartExecution, Execute
<1>1. TypeOK'
  BY DEF IInv, TypeOK
<1>2. OpenIsWatched'
  BY DeviceAssumption DEF IInv, TypeOK, OpenIsWatched
<1>3. DevicesInOrder'
  BY DEF IInv, TypeOK, DevicesInOrder, OutcomeDue, AllDone, Final
<1>4. ShownIsAnswered' /\ CancellingThisSession'
  BY DEF IInv, ShownIsAnswered, CancellingThisSession
<1> QED
  BY <1>1, <1>2, <1>3, <1>4 DEF IInv

LEMMA CancelStep == IInv /\ cancelExecution => IInv'
<1> SUFFICES ASSUME IInv, cancelExecution PROVE IInv'
  OBVIOUS
<1> USE DEF cancelExecution
<1>1. TypeOK'
  BY DEF IInv, TypeOK
<1>2. OpenIsWatched' /\ ShownIsAnswered'
  BY DEF IInv, OpenIsWatched, ShownIsAnswered
<1>3. DevicesInOrder'
  BY DEF IInv, DevicesInOrder, OutcomeDue, AllDone, Final
<1>4. CancellingThisSession'
  BY DEF IInv, TypeOK, CancellingThisSession
<1> QED
  BY <1>1, <1>2, <1>3, <1>4 DEF IInv

\* An execution ends for the page: with its answer, or without.
LEMMA FinallyStep ==
  ASSUME IInv, ResultsArrive \/ AnswerLost \/ resetResults \/ LeavePage
  PROVE  IInv'
<1> USE DEF ResultsArrive, AnswerLost, resetResults, LeavePage, Finally
<1>1. TypeOK'
  BY DEF IInv, TypeOK
<1>2. OpenIsWatched'
  BY DEF IInv, OpenIsWatched
<1>3. DevicesInOrder'
  BY DEF IInv, DevicesInOrder, OutcomeDue, AllDone, Final
<1>4. ShownIsAnswered' /\ CancellingThisSession'
  BY DEF IInv, ShownIsAnswered, CancellingThisSession
<1> QED
  BY <1>1, <1>2, <1>3, <1>4 DEF IInv

----------------------------------------------------------------------------
\* A cancellation touches its own request and registry only.
LEMMA CancelServedStep ==
  ASSUME IInv, NEW s \in Session, CancelServed(s) \/ CancelLost(s)
  PROVE  IInv'
<1> USE DEF CancelServed, CancelLost, ServiceOf, pageVars
<1>1. TypeOK'
  <2>1. cancelCall' \in [Session -> {"none", "open", "answered", "lost"}]
    BY DEF IInv, TypeOK
  <2>2. cancelled' \in [Service -> SUBSET Session]
    <3>1. CASE CancelServed(s)
      <4>1. cancelled' = [cancelled EXCEPT
                            ![ServiceOf("cancel", s)] = @ \cup {s}]
        BY <3>1
      <4>2. cancelled \in [Service -> SUBSET Session]
        BY DEF IInv, TypeOK
      <4> QED
        BY <4>1, <4>2
    <3>2. CASE CancelLost(s)
      BY <3>2 DEF IInv, TypeOK
    <3> QED
      BY <3>1, <3>2
  <2> QED
    BY <2>1, <2>2 DEF IInv, TypeOK
<1>2. OpenIsWatched' /\ ShownIsAnswered'
  BY DEF IInv, OpenIsWatched, ShownIsAnswered
<1>3. DevicesInOrder'
  BY DEF IInv, DevicesInOrder, OutcomeDue, AllDone, Final
<1>4. CancellingThisSession'
  BY DEF IInv, TypeOK, CancellingThisSession
<1> QED
  BY <1>1, <1>2, <1>3, <1>4 DEF IInv

\* A step that changes nothing but the devices of one session keeps the rest.
LEMMA DeviceStep ==
  ASSUME IInv, DevicesInOrder',
         state' \in [Session -> [Device -> {"idle", "waiting", "running"} \cup Final]],
         UNCHANGED <<pageVars, mode, call, cancelCall, cancelled>>
  PROVE  IInv'
<1> USE DEF pageVars
<1>1. TypeOK'
  BY DEF IInv, TypeOK
<1>2. OpenIsWatched' /\ ShownIsAnswered' /\ CancellingThisSession'
  BY DEF IInv, OpenIsWatched, ShownIsAnswered, CancellingThisSession
<1> QED
  BY <1>1, <1>2 DEF IInv

LEMMA OneDeviceStep ==
  ASSUME IInv, NEW s \in Session, NEW d \in Device,
         NEW v \in {"running"} \cup Final, SetState(s, d, v),
         call[s] = "answered" => v \in Final,
         mode[s] # "sync",
         v = "running" => mode[s] \in {"commands", "template"} /\ d \in HasIP,
         v = "ok" => mode[s] = "dryrun" \/ d \in HasIP,
         v # "running" /\ mode[s] = "commands" => (v = "omitted" <=> d \notin HasIP),
         v = "omitted" => mode[s] = "commands",
         UNCHANGED <<pageVars, mode, call, cancelCall, cancelled>>
  PROVE  IInv'
<1> USE DEF SetState
<1>1. state' \in [Session -> [Device -> {"idle", "waiting", "running"} \cup Final]]
  BY DEF IInv, TypeOK
<1>2. DevicesInOrder'
  <2>1. state'[s][d] = v /\ mode' = mode /\ call' = call
    BY DEF IInv, TypeOK, pageVars
  <2>2. \A e \in Device : e # d => state'[s][e] = state[s][e]
    BY DEF IInv, TypeOK
  <2>3. \A r \in Session : r # s => state'[r] = state[r]
    BY DEF IInv, TypeOK
  <2>4. v \in Final => OutcomeDue(s, d)'
    BY <2>1 DEF OutcomeDue, Final
  <2> QED
    BY <2>1, <2>2, <2>3, <2>4 DEF IInv, DevicesInOrder, OutcomeDue, AllDone
<1> QED
  BY <1>1, <1>2, DeviceStep

LEMMA ServesStep ==
  ASSUME IInv, NEW s \in Session, Serves(s)
  PROVE  IInv'
<1>1. ASSUME NEW d \in Device, StartDevice(s, d) \/ PrepareFails(s, d)
      PROVE  IInv'
  <2>1. PICK v \in {"running"} \cup Final :
          /\ SetState(s, d, v)
          /\ mode[s] # "sync"
          /\ v = "running" => mode[s] \in {"commands", "template"} /\ d \in HasIP
          /\ v = "ok" => mode[s] = "dryrun"
          /\ v # "running" /\ mode[s] = "commands" => (v = "omitted" <=> d \notin HasIP)
          /\ v = "omitted" => mode[s] = "commands"
    BY <1>1 DEF StartDevice, PrepareFails, Final, IInv, TypeOK, Mode
  <2>2. call[s] = "open" /\ UNCHANGED <<pageVars, mode, call, cancelCall, cancelled>>
    BY <1>1 DEF StartDevice, PrepareFails, Turn
  <2> QED
    BY <2>1, <2>2, OneDeviceStep
<1>2. ASSUME NEW d \in Device, FinishDevice(s, d)
      PROVE  IInv'
  <2>1. PICK v \in {"ok", "failed"} : SetState(s, d, v)
    BY <1>2 DEF FinishDevice
  <2>2. mode[s] \in {"commands", "template"} /\ d \in HasIP
    BY <1>2 DEF IInv, DevicesInOrder, FinishDevice
  <2> QED
    BY <1>2, <2>1, <2>2, OneDeviceStep DEF FinishDevice, Final
<1>3. CASE ExecuteAndSync(s)
  <2>0. PICK rendered \in SUBSET Device, success \in BOOLEAN :
          /\ success => rendered = Device
          /\ state' = [state EXCEPT ![s] =
               [d \in Device |-> IF d \notin rendered THEN "omitted"
                                 ELSE IF success THEN "ok" ELSE "failed"]]
    BY <1>3 DEF ExecuteAndSync
  <2> DEFINE f == [d \in Device |-> IF d \notin rendered THEN "omitted"
                                    ELSE IF success THEN "ok" ELSE "failed"]
  <2>1. /\ state' = [state EXCEPT ![s] = f] /\ f \in [Device -> Final]
        /\ \A d, e \in Device : f[d] = "ok" => f[e] = "ok"
    BY <2>0 DEF Final
  <2> HIDE DEF f
  <2>2. state' \in [Session -> [Device -> {"idle", "waiting", "running"} \cup Final]]
    BY <2>1 DEF IInv, TypeOK, Final
  <2>3. DevicesInOrder'
    <3>1. state'[s] = f /\ \A r \in Session : r # s => state'[r] = state[r]
      BY <2>1 DEF IInv, TypeOK
    <3>2. mode[s] = "sync" /\ mode' = mode /\ call' = call /\ call[s] = "open"
      BY <1>3 DEF ExecuteAndSync
    <3>3. \A d \in Device : OutcomeDue(s, d)'
      BY <2>1, <3>1, <3>2 DEF OutcomeDue
    <3>4. \A d \in Device : state'[s][d] # "running"
      BY <2>1, <3>1 DEF Final
    <3>5. \A r \in Session, d \in Device :
            r # s /\ OutcomeDue(r, d) => OutcomeDue(r, d)'
      BY <3>1, <3>2 DEF OutcomeDue
    <3> QED
      BY <3>1, <3>2, <3>3, <3>4, <3>5 DEF IInv, DevicesInOrder, AllDone
  <2> QED
    BY <1>3, <2>2, <2>3, DeviceStep DEF ExecuteAndSync
<1>4. CASE AnswerExecution(s)
  <2> USE <1>4 DEF AnswerExecution, ServiceOf, pageVars
  <2>1. TypeOK'
    BY DEF IInv, TypeOK, Service
  <2>2. OpenIsWatched' /\ ShownIsAnswered' /\ CancellingThisSession'
    BY DEF IInv, TypeOK, OpenIsWatched, ShownIsAnswered, CancellingThisSession
  <2>3. DevicesInOrder'
    BY DEF IInv, TypeOK, DevicesInOrder, OutcomeDue, AllDone
  <2> QED
    BY <2>1, <2>2, <2>3 DEF IInv
<1> QED
  BY <1>1, <1>2, <1>3, <1>4 DEF Serves

LEMMA StepIInv == IInv /\ [Next]_vars => IInv'
<1> SUFFICES ASSUME IInv, [Next]_vars PROVE IInv'
  OBVIOUS
<1>1. CASE Page
  <2>1. ASSUME NEW s \in Session, executeCommands(s) \/ executeTemplate(s)
        PROVE  IInv'
    BY <2>1, ExecuteStep DEF executeCommands, executeTemplate, Mode
  <2> QED
    BY <1>1, <2>1, CancelStep, FinallyStep DEF Page
<1>2. ASSUME NEW s \in Session, Serves(s) \/ CancelServed(s) \/ CancelLost(s)
      PROVE  IInv'
  BY <1>2, ServesStep, CancelServedStep
<1>3. CASE UNCHANGED vars
  BY <1>3 DEF IInv, TypeOK, OpenIsWatched, DevicesInOrder, ShownIsAnswered,
              CancellingThisSession, OutcomeDue, AllDone, vars, pageVars
<1> QED
  BY <1>1, <1>2, <1>3 DEF Next

----------------------------------------------------------------------------
\* The inductive invariant holds in every reachable state: it is what the
\* page's guard, its finally and the services' bookkeeping keep together.
THEOREM Invariant == Spec => []IInv
<1> QED
  BY InitIInv, StepIInv, PTL DEF Spec

\* Type correctness of the page, the requests and the devices of the services.
THEOREM TypeCorrect == Spec => []TypeOK
<1>1. IInv => TypeOK
  BY DEF IInv
<1> QED
  BY <1>1, Invariant, PTL

\* The disabled button keeps executions apart: two are under way only when
\* the page lost sight of one.
THEOREM OneAtATime == Spec => []OneSessionAtATime
<1>1. IInv => OneSessionAtATime
  BY DEF IInv, OpenIsWatched, OneSessionAtATime
<1> QED
  BY <1>1, Invariant, PTL

\* The results a page shows are final, and tell of each device what its mode
\* allows: whom commands leave out, who was connected to, and that a sync succeeds
\* on all devices or on none.
THEOREM ResultsAreFinal == Spec => []ShownResultsFinal
<1>1. IInv => ShownResultsFinal
  BY DEF IInv, TypeOK, ShownIsAnswered, DevicesInOrder, ShownResultsFinal, AllDone
<1> QED
  BY <1>1, Invariant, PTL

\* A cancellation never outlives the execution it was posted for.
THEOREM CancellingIsCurrent == Spec => []CancellingThisSession
<1>1. IInv => CancellingThisSession
  BY DEF IInv
<1> QED
  BY <1>1, Invariant, PTL

----------------------------------------------------------------------------
(* The page and its services implement DeviceBatches.                      *)

\* No device is touched before its execution is asked for, and in the sync mode
\* all devices get their outcome at once.
UnaskedIdle ==
  \A s \in Session : call[s] = "none" => \A d \in Device : state[s][d] = "idle"

SyncAtOnce ==
  \A s \in Session :
    mode[s] = "sync" /\ call[s] # "none" =>
      (\A d \in Device : state[s][d] = "waiting") \/ AllDone(s)

BInv == IInv /\ UnaskedIdle /\ SyncAtOnce

\* Steps of the page and of cancellations begin one execution at most, and touch
\* no device of another.
LEMMA PageBInv ==
  ASSUME BInv, IInv',
         \/ Page
         \/ \E s \in Session : CancelServed(s) \/ CancelLost(s)
         \/ UNCHANGED vars
  PROVE  UnaskedIdle' /\ SyncAtOnce'
<1> USE DEF BInv, UnaskedIdle, SyncAtOnce, AllDone
<1>1. ASSUME NEW s \in Session, NEW m \in Mode, StartExecution(s, m)
      PROVE  UnaskedIdle' /\ SyncAtOnce'
  <2>1. /\ call'[s] = "open" /\ \A d \in Device : state'[s][d] = "waiting"
        /\ \A r \in Session : r # s =>
             call'[r] = call[r] /\ mode'[r] = mode[r] /\ state'[r] = state[r]
    BY <1>1 DEF StartExecution, Execute, IInv, TypeOK
  <2> QED
    BY <2>1
<1>2. ASSUME UNCHANGED <<call, mode, state>> PROVE UnaskedIdle' /\ SyncAtOnce'
  BY <1>2
<1> QED
  BY <1>1, <1>2
  DEF Page, executeCommands, executeTemplate, Mode, cancelExecution, ResultsArrive,
      AnswerLost, resetResults, LeavePage, CancelServed, CancelLost, vars

\* A device's turn and its end: never in the sync mode.
LEMMA DeviceBInv ==
  ASSUME BInv, NEW s \in Session, NEW d \in Device,
         StartDevice(s, d) \/ PrepareFails(s, d) \/ FinishDevice(s, d)
  PROVE  /\ UnaskedIdle' /\ SyncAtOnce'
         /\ call[s] # "none" /\ state[s][d] \notin Final
         /\ \E v \in {"running"} \cup Final : SetState(s, d, v)
         /\ UNCHANGED <<pageVars, mode, call>>
<1>1. /\ UNCHANGED <<pageVars, mode, call>>
      /\ mode[s] # "sync" /\ state[s][d] \in {"waiting", "running"}
      /\ \E v \in {"running"} \cup Final : SetState(s, d, v)
  BY DEF StartDevice, PrepareFails, FinishDevice, Turn, Final, BInv, IInv, DevicesInOrder
<1>2. call[s] # "none"
  BY <1>1 DEF BInv, UnaskedIdle
<1>3. \A r \in Session : r # s => state'[r] = state[r]
  BY <1>1 DEF SetState, BInv, IInv, TypeOK
<1> QED
  BY <1>1, <1>2, <1>3 DEF BInv, UnaskedIdle, SyncAtOnce, AllDone, Final

LEMMA StepBInv == BInv /\ [Next]_vars => BInv'
<1> SUFFICES ASSUME BInv, [Next]_vars PROVE BInv'
  OBVIOUS
<1>1. IInv'
  BY StepIInv DEF BInv
<1>2. ASSUME NEW s \in Session, ExecuteAndSync(s) PROVE UnaskedIdle' /\ SyncAtOnce'
  <2>1. /\ UNCHANGED <<mode, call>> /\ call[s] = "open"
        /\ \A d \in Device : state'[s][d] \in Final
        /\ \A r \in Session : r # s => state'[r] = state[r]
    BY <1>2 DEF ExecuteAndSync, BInv, IInv, TypeOK, Final
  <2> QED
    BY <2>1 DEF BInv, UnaskedIdle, SyncAtOnce, AllDone
<1>3. ASSUME NEW s \in Session, AnswerExecution(s) PROVE UnaskedIdle' /\ SyncAtOnce'
  <2>1. /\ UNCHANGED <<mode, state>> /\ call[s] = "open"
        /\ \A r \in Session : call'[r] # "none" <=> call[r] # "none"
    BY <1>3 DEF AnswerExecution, BInv, IInv, TypeOK
  <2> QED
    BY <2>1 DEF BInv, UnaskedIdle, SyncAtOnce, AllDone
<1> QED
  BY <1>1, <1>2, <1>3, PageBInv, DeviceBInv DEF BInv, Next, Serves

LEMMA InitBInv == Init => BInv
BY InitIInv DEF Init, BInv, UnaskedIdle, SyncAtOnce

----------------------------------------------------------------------------
\* The steps of the page are steps of the batches.
LEMMA PageMaps ==
  ASSUME BInv, Page
  PROVE  [Batches!Next]_(Batches!vars)
<1> USE DEF Batches!Next, Batches!vars
<1>1. ASSUME NEW s \in Session, NEW m \in Mode, StartExecution(s, m)
      PROVE  Batches!Ask(s)
  <2>1. {r \in Session : call'[r] # "none"} = {r \in Session : call[r] # "none"} \cup {s}
    BY <1>1 DEF StartExecution, Execute, BInv, IInv, TypeOK
  <2>2. \A r \in Session : Outcomes(r)' = Outcomes(r)
    <3>1. Outcomes(s)' = Outcomes(s)
      BY <1>1 DEF StartExecution, Execute, BInv, IInv, TypeOK, UnaskedIdle, Outcomes, Final
    <3>2. \A r \in Session : r # s => state'[r] = state[r]
      BY <1>1 DEF StartExecution, Execute, BInv, IInv, TypeOK
    <3> QED
      BY <3>1, <3>2 DEF Outcomes
  <2> QED
    BY <1>1, <2>1, <2>2 DEF StartExecution, Execute, Batches!Ask
<1>2. CASE cancelExecution
  BY <1>2 DEF cancelExecution, Outcomes
<1>3. CASE ResultsArrive
  <2>1. currentSessionId \in Session /\ AllDone(currentSessionId)
    BY <1>3 DEF ResultsArrive, BInv, IInv, TypeOK, DevicesInOrder
  <2>2. \A d \in Device : Outcomes(currentSessionId)[d] # "none"
    BY <2>1 DEF AllDone, Outcomes, Final
  <2>3. Batches!Show
    BY <1>3, <2>1, <2>2 DEF ResultsArrive, Finally, Batches!Show, Batches!Decided, Outcomes
  <2> QED
    BY <2>3
<1>4. CASE AnswerLost \/ LeavePage
  <2>1. Batches!GiveUp
    BY <1>4 DEF AnswerLost, LeavePage, Finally, Batches!GiveUp, Outcomes
  <2> QED
    BY <2>1
<1>5. CASE resetResults
  <2>1. Batches!PutAway
    BY <1>5 DEF resetResults, Batches!PutAway, Outcomes
  <2> QED
    BY <2>1
<1> QED
  BY <1>1, <1>2, <1>3, <1>4, <1>5 DEF Page, executeCommands, executeTemplate, Mode

\* What the services do to the devices of an execution decides some of them, and
\* revises none.
LEMMA DecisionMaps ==
  ASSUME BInv, NEW s \in Session, call[s] # "none",
         UNCHANGED <<pageVars, call>>,
         \A r \in Session : r # s => state'[r] = state[r],
         \A d \in Device : state[s][d] \in Final => state'[s][d] = state[s][d]
  PROVE  Batches!Decide(s)
<1> DEFINE o == [r \in Session |-> Outcomes(r)]
<1>1. o'[s] \in [Device -> Final \cup {"none"}]
  BY DEF Outcomes
<1>2. o' = [o EXCEPT ![s] = o'[s]]
  BY DEF Outcomes
<1>3. \A d \in Device : o[s][d] # "none" => o'[s][d] = o[s][d]
  BY DEF Outcomes
<1>4. s \in {r \in Session : call[r] # "none"}
  OBVIOUS
<1> QED
  BY <1>1, <1>2, <1>3, <1>4 DEF Batches!Decide, Batches!Decided, pageVars

LEMMA ServesMaps ==
  ASSUME BInv, NEW s \in Session, Serves(s)
  PROVE  [Batches!Next]_(Batches!vars)
<1>1. ASSUME NEW d \in Device,
             StartDevice(s, d) \/ PrepareFails(s, d) \/ FinishDevice(s, d)
      PROVE  Batches!Decide(s)
  <2>1. PICK v \in {"running"} \cup Final : SetState(s, d, v)
    BY <1>1, DeviceBInv
  <2>2. /\ \A r \in Session : r # s => state'[r] = state[r]
        /\ \A e \in Device : e # d => state'[s][e] = state[s][e]
    BY <2>1 DEF SetState, BInv, IInv, TypeOK
  <2> QED
    BY <1>1, <2>2, DeviceBInv, DecisionMaps
<1>2. CASE ExecuteAndSync(s)
  <2>1. /\ UNCHANGED <<pageVars, call>> /\ call[s] # "none"
        /\ \A r \in Session : r # s => state'[r] = state[r]
    BY <1>2 DEF ExecuteAndSync, BInv, IInv, TypeOK
  <2>2. \A d \in Device : state[s][d] = "waiting"
    BY <1>2 DEF ExecuteAndSync, BInv, SyncAtOnce, AllDone, Final
  <2> QED
    BY <2>1, <2>2, DecisionMaps DEF Batches!Next, Final
<1>3. CASE AnswerExecution(s)
  <2>1. {r \in Session : call'[r] # "none"} = {r \in Session : call[r] # "none"}
    BY <1>3 DEF AnswerExecution, BInv, IInv, TypeOK
  <2> QED
    BY <1>3, <2>1 DEF AnswerExecution, Batches!vars, pageVars, Outcomes
<1> QED
  BY <1>1, <1>2, <1>3 DEF Serves, Batches!Next

\* A page, its executions and their devices implement DeviceBatches: outcomes
\* are not revised, and none is shown but those of the execution waited for.
THEOREM Implements == Spec => ImplementsBatches
<1>1. Init => Batches!Init
  BY DEF Init, Batches!Init, Outcomes, Final
<1>2. BInv /\ [Next]_vars => [Batches!Next]_(Batches!vars)
  <2> SUFFICES ASSUME BInv, [Next]_vars PROVE [Batches!Next]_(Batches!vars)
    OBVIOUS
  <2>1. ASSUME NEW s \in Session, CancelServed(s) \/ CancelLost(s)
        PROVE  UNCHANGED Batches!vars
    BY <2>1 DEF CancelServed, CancelLost, Batches!vars, pageVars, Outcomes
  <2>2. CASE UNCHANGED vars
    BY <2>2 DEF vars, Batches!vars, pageVars, Outcomes
  <2> QED
    BY <2>1, <2>2, PageMaps, ServesMaps DEF Next
<1> QED
  BY <1>1, <1>2, InitBInv, StepBInv, PTL DEF Spec, ImplementsBatches, Batches!Spec
=============================================================================
