------------------------ MODULE AgentCommandsProofs ------------------------
(***************************************************************************)
(* The safety of the command protocol, for any number of commands and any  *)
(* number of forgotten heartbeats: every command is executed at most once, *)
(* what is recorded of it is true, and the protocol implements RemoteCalls.*)
(***************************************************************************)
EXTENDS AgentCommands, TLAPS

\* The parts of the type invariant, by the group of variables they speak of.
ServiceTypeOK ==
  /\ shown \in BOOLEAN
  /\ request \in [Command -> {"none", "asked", "sending", "waiting", "done"}]
  /\ waits \subseteq Command
  /\ answer \in [Command -> Outcome \cup {"none", "offline", "pending", "timeout"}]
  /\ row \in [Command -> Outcome \cup {"none", "pending", "timeout"}]

RedisTypeOK ==
  /\ mail \in [Command -> SUBSET Command]
  /\ key \in {"none", "online", "offline"}
  /\ ttl \in BOOLEAN /\ reachable \in BOOLEAN

RunTypeOK ==
  /\ agent \in {"down", "fresh", "idle", "registered", "listening", "stopping"}
  /\ exiting \in BOOLEAN /\ beating \in BOOLEAN
  /\ orphans \in 0..MaxOrphans

WorkTypeOK ==
  /\ inbox \in Seq(Command) /\ busy \in Command \cup {NoCommand}
  /\ finished \in BOOLEAN /\ (finished => busy # NoCommand)
  /\ result \in [Command -> Outcome \cup {"none"}]
  /\ executed \in [Command -> Nat]

LEMMA TypeOKParts ==
  TypeOK <=> ServiceTypeOK /\ RedisTypeOK /\ RunTypeOK /\ WorkTypeOK
BY DEF TypeOK, ServiceTypeOK, RedisTypeOK, RunTypeOK, WorkTypeOK

\* A heartbeat is forgotten only where there is room for one more.
OrphansBounded ==
  /\ agent = "idle" /\ beating => orphans < MaxOrphans
  /\ agent \in {"down", "fresh"} => ~beating

\* A command has left the backend, and its row is written.
IsSent(c) == request[c] \in {"waiting", "done"} /\ row[c] # "none"

\* The agent's subscription holds each command once, to be executed yet.
InboxFresh ==
  \A i \in 1..Len(inbox) :
    /\ IsSent(inbox[i]) /\ executed[inbox[i]] = 0 /\ inbox[i] # busy
    /\ \A j \in 1..Len(inbox) : inbox[i] = inbox[j] => i = j

\* The agent executes the command it took, once.
BusyCounted ==
  busy # NoCommand => /\ IsSent(busy)
                      /\ executed[busy] = (IF finished THEN 1 ELSE 0)

\* Before it is sent, nothing happens to a command.
UnsentUntouched ==
  \A c \in Command :
    request[c] \in {"none", "asked", "sending"} =>
      executed[c] = 0 /\ row[c] = "none" /\ answer[c] = "none"

\* What was executed has a result; only such commands are responded to.
ResultsKnown ==
  /\ \A c \in Command :
       /\ executed[c] \in {0, 1}
       /\ executed[c] = 1 => result[c] \in Outcome /\ row[c] # "none"
  /\ \A c \in Command : \A r \in mail[c] : executed[r] = 1

IInv ==
  /\ ServiceTypeOK /\ RedisTypeOK /\ RunTypeOK /\ WorkTypeOK
  /\ OrphansBounded
  /\ InboxFresh
  /\ BusyCounted
  /\ UnsentUntouched
  /\ ResultsKnown
  /\ SuccessWasExecuted
  /\ PendingExplained

LEMMA InitIInv == Init => IInv
<1> SUFFICES ASSUME Init PROVE IInv
  OBVIOUS
<1> USE AgentAssumption DEF Init
<1>1. ServiceTypeOK
  BY DEF ServiceTypeOK
<1>2. RedisTypeOK
  BY DEF RedisTypeOK
<1>5. OrphansBounded
  BY DEF OrphansBounded
<1>6. RunTypeOK
  <2>1. orphans \in 0..MaxOrphans
    OBVIOUS
  <2> QED
    BY <2>1 DEF RunTypeOK
<1>7. WorkTypeOK
  <2>1. inbox \in Seq(Command)
    OBVIOUS
  <2>2. busy \in Command \cup {NoCommand} /\ finished \in BOOLEAN /\ (finished => busy # NoCommand)
    OBVIOUS
  <2> QED
    BY <2>1, <2>2 DEF WorkTypeOK
<1>3. InboxFresh /\ BusyCounted /\ UnsentUntouched /\ ResultsKnown
  BY DEF InboxFresh, BusyCounted, UnsentUntouched, ResultsKnown
<1>4. SuccessWasExecuted /\ PendingExplained
  BY DEF SuccessWasExecuted, PendingExplained
<1> QED
  BY <1>1, <1>2, <1>3, <1>4, <1>5, <1>6, <1>7 DEF IInv

----------------------------------------------------------------------------
\* A step that concerns only the page, Redis and the agent's threads: no
\* command comes nearer to the agent.
LEMMA IdleStep ==
  ASSUME IInv, shown' \in BOOLEAN, RedisTypeOK',
         RunTypeOK', OrphansBounded',
         UNCHANGED <<request, waits, answer, row, mail, busy, finished, result,
                     executed>>,
         inbox' = inbox \/ inbox' = <<>>
  PROVE  IInv'
<1>1. ServiceTypeOK' /\ WorkTypeOK'
  <2>1. ServiceTypeOK'
    BY DEF IInv, ServiceTypeOK
  <2>2. inbox' \in Seq(Command)
    <3>1. inbox \in Seq(Command) /\ <<>> \in Seq(Command)
      BY DEF IInv, WorkTypeOK
    <3> QED
      BY <3>1
  <2>3. finished' \in BOOLEAN /\ (finished' => busy' # NoCommand)
    BY DEF IInv, WorkTypeOK
  <2>4. /\ busy' \in Command \cup {NoCommand}
        /\ result' \in [Command -> Outcome \cup {"none"}]
        /\ executed' \in [Command -> Nat]
    BY DEF IInv, WorkTypeOK
  <2> QED
    BY <2>1, <2>2, <2>3, <2>4 DEF WorkTypeOK
<1>2. InboxFresh' /\ BusyCounted'
  BY DEF IInv, InboxFresh, BusyCounted, IsSent
<1>3. UnsentUntouched' /\ ResultsKnown' /\ SuccessWasExecuted' /\ PendingExplained'
  BY DEF IInv, UnsentUntouched, ResultsKnown, SuccessWasExecuted, PendingExplained
<1> QED
  BY <1>1, <1>2, <1>3 DEF IInv

LEMMA RedisStep ==
  ASSUME IInv,
         PollList \/ update_heartbeat \/ Expire \/ Disconnect \/ Reconnect
  PROVE  IInv'
<1>0. UNCHANGED <<agent, exiting, beating, orphans>>
  BY DEF PollList, update_heartbeat, Expire, Disconnect, Reconnect, agentVars, runVars
<1> USE DEF PollList, update_heartbeat, MarkOnline, Expire, Disconnect,
            Reconnect, serviceVars, redisVars, runVars, workVars, agentVars
<1>1. shown' \in BOOLEAN /\ RedisTypeOK'
  BY DEF IInv, ServiceTypeOK, RedisTypeOK
<1>2. RunTypeOK' /\ OrphansBounded'
  BY <1>0 DEF IInv, RunTypeOK, OrphansBounded
<1> QED
  BY <1>1, <1>2, IdleStep

LEMMA LifeStep ==
  ASSUME IInv,
         \/ Starts \/ Register \/ Subscribe \/ EndsListening \/ AgentError
         \/ Stops \/ Signalled
  PROVE  IInv'
<1>2. RunTypeOK' /\ OrphansBounded'
  <2> USE DEF Starts, Register, Subscribe, EndsListening, AgentError, Stops,
              Signalled, agentVars, runVars
  <2>1. /\ agent' \in {"down", "fresh", "idle", "registered", "listening", "stopping"}
        /\ exiting' \in BOOLEAN
    BY DEF IInv, RunTypeOK
  <2>2. beating' \in BOOLEAN
    BY DEF IInv, RunTypeOK
  <2>3. orphans' \in 0..MaxOrphans
    BY AgentAssumption DEF IInv, RunTypeOK, OrphansBounded
  <2>4. OrphansBounded'
    BY AgentAssumption DEF IInv, RunTypeOK, OrphansBounded
  <2> QED
    BY <2>1, <2>2, <2>3, <2>4 DEF RunTypeOK
<1> USE DEF Starts, Register, MarkOnline, Subscribe, EndsListening, MarkOffline,
            AgentError, Stops, Signalled, serviceVars, redisVars, runVars, workVars, agentVars
<1>1. shown' \in BOOLEAN /\ RedisTypeOK'
  BY DEF IInv, ServiceTypeOK, RedisTypeOK
<1>3. UNCHANGED <<request, waits, answer, row, mail, busy, finished, result,
                  executed>>
      /\ (inbox' = inbox \/ inbox' = <<>>)
  OBVIOUS
<1> QED
  BY <1>1, <1>2, <1>3, IdleStep
----------------------------------------------------------------------------
\* A step of one request keeps the invariant when it takes back nothing that
\* was sent and records no success but an executed one.
LEMMA RequestStep ==
  ASSUME IInv, NEW c \in Command,
         NEW q \in {"asked", "sending", "waiting", "done"},
         NEW a \in Outcome \cup {"none", "offline", "pending", "timeout"},
         NEW w \in Outcome \cup {"none", "pending", "timeout"},
         request' = [request EXCEPT ![c] = q],
         answer' = [answer EXCEPT ![c] = a],
         row' = [row EXCEPT ![c] = w],
         UNCHANGED shown, waits' \subseteq Command,
         mail' \in [Command -> SUBSET Command],
         \A d \in Command : mail'[d] \subseteq mail[d],
         request[c] \in {"waiting", "done"} => q \in {"waiting", "done"} /\ w # "none",
         q \in {"asked", "sending"} => w = "none" /\ a = "none",
         "success" \in {w, a} => executed[c] = 1 /\ result[c] = "success",
         q = "done" => w = a \/ (w = "none" /\ a \in {"offline", "error"}),
         UNCHANGED <<key, ttl, reachable, runVars, busy, finished, result, executed>>,
         \/ UNCHANGED inbox
         \/ /\ inbox' = Append(inbox, c) /\ request[c] = "sending"
            /\ q \in {"waiting", "done"} /\ w # "none"
  PROVE  IInv'
<1>1. ServiceTypeOK' /\ RedisTypeOK' /\ RunTypeOK' /\ OrphansBounded'
  <2>1. ServiceTypeOK'
    BY DEF IInv, ServiceTypeOK
  <2>2. RedisTypeOK'
    BY DEF IInv, RedisTypeOK
  <2>3. RunTypeOK' /\ OrphansBounded'
    BY DEF IInv, RunTypeOK, OrphansBounded, runVars
  <2> QED
    BY <2>1, <2>2, <2>3
<1>2. inbox \in Seq(Command) /\ inbox' \in Seq(Command)
  <2>1. inbox \in Seq(Command)
    BY DEF IInv, WorkTypeOK
  <2>2. inbox' = inbox \/ inbox' = Append(inbox, c)
    OBVIOUS
  <2> QED
    BY <2>1, <2>2
<1>3. WorkTypeOK'
  BY <1>2 DEF IInv, WorkTypeOK
<1>4. \A d \in Command : IsSent(d) => IsSent(d)'
  BY DEF IInv, ServiceTypeOK, IsSent
<1>5. request[c] = "sending" => ~IsSent(c) /\ executed[c] = 0
  BY DEF IInv, UnsentUntouched, IsSent
<1>6. InboxFresh'
  <2>1. \A i \in 1..Len(inbox) : inbox[i] \in Command
    BY <1>2
  <2>2. CASE UNCHANGED inbox
    BY <1>4, <2>1, <2>2 DEF IInv, InboxFresh
  <2>3. CASE /\ inbox' = Append(inbox, c) /\ request[c] = "sending"
             /\ q \in {"waiting", "done"} /\ w # "none"
    <3>1. /\ Len(inbox') = Len(inbox) + 1 /\ Len(inbox) \in Nat
          /\ inbox'[Len(inbox) + 1] = c
          /\ \A i \in 1..Len(inbox) : inbox'[i] = inbox[i]
      BY <1>2, <2>3
    <3>2. IsSent(c)' /\ c # busy /\ executed[c] = 0
      <4>1. IsSent(c)'
        BY <2>3 DEF IInv, ServiceTypeOK, IsSent
      <4>2. c # busy
        BY <1>5, <2>3, AgentAssumption DEF IInv, BusyCounted
      <4> QED
        BY <1>5, <2>3, <4>1, <4>2
    <3>3. \A i \in 1..Len(inbox) : inbox[i] # c
      BY <1>5, <2>3 DEF IInv, InboxFresh
    <3>4. ASSUME NEW i \in 1..Len(inbox')
          PROVE  /\ IsSent(inbox[i])' /\ executed'[inbox'[i]] = 0 /\ inbox'[i] # busy'
                 /\ \A j \in 1..Len(inbox') : inbox'[i] = inbox'[j] => i = j
      <4>1. CASE i \in 1..Len(inbox)
        <5>1. inbox'[i] = inbox[i] /\ inbox[i] \in Command
          BY <2>1, <3>1, <4>1
        <5>2. IsSent(inbox[i]) /\ executed[inbox[i]] = 0 /\ inbox[i] # busy
          BY <4>1 DEF IInv, InboxFresh
        <5>3. IsSent(inbox[i])'
          BY <5>1, <5>2, <1>4 DEF IsSent
        <5>4. \A j \in 1..Len(inbox') : inbox'[i] = inbox'[j] => i = j
          <6>1. \A j \in 1..Len(inbox) : inbox[i] = inbox[j] => i = j
            BY <4>1 DEF IInv, InboxFresh
          <6>2. \A j \in 1..Len(inbox') : j \in 1..Len(inbox) \/ inbox'[j] = c
            BY <3>1
          <6> QED
            BY <3>1, <3>3, <4>1, <6>1, <6>2
        <5> QED
          BY <5>1, <5>2, <5>3, <5>4
      <4>2. CASE i = Len(inbox) + 1
        <5>1. IsSent(inbox[i])'
          BY <3>1, <3>2, <4>2 DEF IsSent
        <5> QED
          BY <3>1, <3>2, <3>3, <4>2, <5>1
      <4> QED
        BY <3>1, <4>1, <4>2
    <3> QED
      BY <3>4 DEF InboxFresh
  <2> QED
    BY <2>2, <2>3
<1>7. BusyCounted'
  BY <1>4 DEF IInv, WorkTypeOK, BusyCounted, IsSent
<1>8. UnsentUntouched' /\ ResultsKnown'
  <2>1. request[c] \in {"none", "asked", "sending", "waiting", "done"}
    BY DEF IInv, ServiceTypeOK
  <2>2. UnsentUntouched'
    BY <2>1 DEF IInv, ServiceTypeOK, UnsentUntouched
  <2>3. executed[c] = 1 => w # "none"
    BY <2>1 DEF IInv, UnsentUntouched
  <2>4. ResultsKnown'
    BY <2>3 DEF IInv, ServiceTypeOK, ResultsKnown
  <2> QED
    BY <2>2, <2>4
<1>9. SuccessWasExecuted' /\ PendingExplained'
  BY DEF IInv, ServiceTypeOK, SuccessWasExecuted, PendingExplained
<1> QED
  BY <1>1, <1>3, <1>6, <1>7, <1>8, <1>9 DEF IInv
\* A request that goes on keeps its subscription, and one that returns ends it.
LEMMA SubscriptionEnds ==
  ASSUME IInv, NEW c \in Command,
         UNCHANGED <<waits, mail>> \/ \E a : Return(c, a)
  PROVE  /\ waits' \subseteq Command
         /\ mail' \in [Command -> SUBSET Command]
         /\ \A d \in Command : mail'[d] \subseteq mail[d]
BY DEF IInv, ServiceTypeOK, RedisTypeOK, Return

LEMMA AskStep ==
  ASSUME IInv, NEW c \in Command, Ask(c) \/ check_agent_online(c)
  PROVE  IInv'
<1> USE DEF Return, redisVars, agentVars, workVars
<1>1. /\ request \in [Command -> {"none", "asked", "sending", "waiting", "done"}]
      /\ answer \in [Command -> Outcome \cup {"none", "offline", "pending", "timeout"}]
      /\ row \in [Command -> Outcome \cup {"none", "pending", "timeout"}]
      /\ mail \in [Command -> SUBSET Command] /\ waits \subseteq Command
  BY DEF IInv, ServiceTypeOK, RedisTypeOK
<1>2. /\ row = [row EXCEPT ![c] = row[c]]
      /\ answer = [answer EXCEPT ![c] = answer[c]]
  BY <1>1
<1>3. row[c] = "none" /\ answer[c] = "none"
  BY DEF IInv, UnsentUntouched, Ask, check_agent_online
<1>4. CASE Ask(c)
  <2>1. /\ request' = [request EXCEPT ![c] = "asked"] /\ request[c] = "none"
        /\ waits' \subseteq Command
        /\ UNCHANGED <<shown, answer, row, mail, key, ttl, reachable, runVars,
                      inbox, busy, finished, result, executed>>
    BY <1>1, <1>4 DEF Ask
  <2>2. /\ answer' = [answer EXCEPT ![c] = "none"]
        /\ row' = [row EXCEPT ![c] = "none"]
    BY <1>2, <1>3, <2>1
  <2> QED
    BY <1>1, <1>3, <2>1, <2>2, RequestStep
<1>5. CASE check_agent_online(c)
  <2>1. PICK q \in {"sending", "done"} :
          /\ request' = [request EXCEPT ![c] = q]
          /\ answer' = [answer EXCEPT ![c] = IF q = "done" THEN "offline" ELSE "none"]
    BY <1>2, <1>3, <1>5 DEF check_agent_online
  <2>2. /\ request[c] = "asked"
        /\ UNCHANGED <<shown, row, key, ttl, reachable, runVars,
                      inbox, busy, finished, result, executed>>
    BY <1>5 DEF check_agent_online
  <2>3. /\ waits' \subseteq Command
        /\ mail' \in [Command -> SUBSET Command]
        /\ \A d \in Command : mail'[d] \subseteq mail[d]
    <3>1. UNCHANGED <<waits, mail>> \/ \E a : Return(c, a)
      BY <1>5 DEF check_agent_online
    <3> QED
      BY <3>1, SubscriptionEnds
  <2>4. row' = [row EXCEPT ![c] = "none"]
    BY <1>2, <1>3, <2>2
  <2> QED
    <3>1. CASE q = "sending"
      <4>1. /\ request' = [request EXCEPT ![c] = "sending"]
            /\ answer' = [answer EXCEPT ![c] = "none"]
        BY <2>1, <3>1
      <4> QED
        BY <2>2, <2>3, <2>4, <4>1, RequestStep
    <3>2. CASE q = "done"
      <4>1. /\ request' = [request EXCEPT ![c] = "done"]
            /\ answer' = [answer EXCEPT ![c] = "offline"]
        BY <2>1, <3>2
      <4> QED
        BY <2>2, <2>3, <2>4, <4>1, RequestStep
    <3> QED
      BY <3>1, <3>2
<1> QED
  BY <1>4, <1>5

\* The row is written before the message is published.
LEMMA SendStep ==
  ASSUME IInv, NEW c \in Command,
         CannotSend(c) \/ send_command(c) \/ PublishFails(c)
  PROVE  IInv'
<1> USE DEF Return, redisVars, agentVars, workVars
<1>1. /\ request \in [Command -> {"none", "asked", "sending", "waiting", "done"}]
      /\ answer \in [Command -> Outcome \cup {"none", "offline", "pending", "timeout"}]
      /\ mail \in [Command -> SUBSET Command] /\ waits \subseteq Command
  BY DEF IInv, ServiceTypeOK, RedisTypeOK
<1>2. request[c] = "sending" /\ row[c] = "none" /\ answer[c] = "none"
  BY DEF IInv, UnsentUntouched, CannotSend, send_command, PublishFails
<1>5. /\ waits' \subseteq Command
      /\ mail' \in [Command -> SUBSET Command]
      /\ \A d \in Command : mail'[d] \subseteq mail[d]
  <2>1. UNCHANGED <<waits, mail>> \/ \E a : Return(c, a)
    BY DEF CannotSend, send_command, PublishFails
  <2> QED
    BY <2>1, SubscriptionEnds
<1>6. CASE CannotSend(c)
  <2>1. /\ request' = [request EXCEPT ![c] = "done"]
        /\ answer' = [answer EXCEPT ![c] = "error"]
        /\ UNCHANGED <<shown, row, key, ttl, reachable, runVars, inbox, busy,
                      finished, result, executed>>
    BY <1>6 DEF CannotSend
  <2>2. row' = [row EXCEPT ![c] = "none"]
    BY <1>2, <2>1 DEF IInv, ServiceTypeOK
  <2> QED
    BY <1>1, <1>2, <1>5, <2>1, <2>2, RequestStep DEF Outcome
<1>3. CASE send_command(c)
  <2>1. PICK q \in {"waiting", "done"} :
          /\ request' = [request EXCEPT ![c] = q]
          /\ answer' = [answer EXCEPT ![c] = IF q = "done" THEN "pending" ELSE "none"]
    <3>1. answer = [answer EXCEPT ![c] = "none"]
      BY <1>1, <1>2
    <3> QED
      BY <1>3, <3>1 DEF send_command
  <2>2. /\ row' = [row EXCEPT ![c] = "pending"]
        /\ inbox' = inbox \/ inbox' = Append(inbox, c)
        /\ UNCHANGED <<shown, key, ttl, reachable, runVars, busy,
                      finished, result, executed>>
    BY <1>3 DEF send_command, Published
  <2> QED
    BY <1>1, <1>2, <1>5, <2>1, <2>2, RequestStep
<1>4. CASE PublishFails(c)
  <2>1. /\ request' = [request EXCEPT ![c] = "done"]
        /\ answer' = [answer EXCEPT ![c] = "error"]
        /\ row' = [row EXCEPT ![c] = "error"]
        /\ inbox' = inbox \/ inbox' = Append(inbox, c)
        /\ UNCHANGED <<shown, key, ttl, reachable, runVars, busy,
                      finished, result, executed>>
    BY <1>4 DEF PublishFails, Published
  <2> QED
    BY <1>1, <1>2, <1>5, <2>1, RequestStep DEF Outcome
<1> QED
  BY <1>3, <1>4, <1>6

\* A wait ends with the command's own response, or without one.
LEMMA WaitStep ==
  ASSUME IInv, NEW c \in Command, drain_response(c) \/ GiveUp(c)
  PROVE  IInv'
<1> USE DEF Return, agentVars, workVars
<1>1. /\ request \in [Command -> {"none", "asked", "sending", "waiting", "done"}]
      /\ answer \in [Command -> Outcome \cup {"none", "offline", "pending", "timeout"}]
      /\ row \in [Command -> Outcome \cup {"none", "pending", "timeout"}]
      /\ mail \in [Command -> SUBSET Command] /\ waits \subseteq Command
  BY DEF IInv, ServiceTypeOK, RedisTypeOK
<1>2. request[c] = "waiting"
      /\ UNCHANGED <<shown, key, ttl, reachable, runVars, inbox, busy,
                     finished, result, executed>>
  BY DEF drain_response, GiveUp
<1>3. mail' \in [Command -> SUBSET Command]
      /\ \A d \in Command : mail'[d] \subseteq mail[d]
      /\ waits' \subseteq Command
  BY <1>1 DEF drain_response, GiveUp
<1>4. CASE GiveUp(c)
  <2>1. PICK o \in {"timeout", "error"} :
          /\ row' = [row EXCEPT ![c] = o]
          /\ request' = [request EXCEPT ![c] = "done"]
          /\ answer' = [answer EXCEPT ![c] = o]
    BY <1>4 DEF GiveUp
  <2> QED
    BY <1>1, <1>2, <1>3, <2>1, RequestStep DEF Outcome
<1>5. ASSUME drain_response(c), NEW r \in mail[c], r # c,
             UNCHANGED <<row, request, answer>>
      PROVE  IInv'
  <2>1. ServiceTypeOK' /\ RedisTypeOK' /\ RunTypeOK' /\ OrphansBounded'
    <3>1. ServiceTypeOK' /\ RedisTypeOK'
      BY <1>2, <1>3, <1>5 DEF IInv, ServiceTypeOK, RedisTypeOK
    <3>2. RunTypeOK' /\ OrphansBounded'
      BY <1>2 DEF IInv, RunTypeOK, OrphansBounded, runVars
    <3> QED
      BY <3>1, <3>2
  <2>2. WorkTypeOK'
    BY <1>2 DEF IInv, WorkTypeOK
  <2>3. InboxFresh' /\ BusyCounted'
    BY <1>2, <1>5 DEF IInv, InboxFresh, BusyCounted, IsSent
  <2>4. UnsentUntouched' /\ ResultsKnown' /\ SuccessWasExecuted' /\ PendingExplained'
    BY <1>2, <1>3, <1>5
    DEF IInv, UnsentUntouched, ResultsKnown, SuccessWasExecuted, PendingExplained
  <2> QED
    BY <2>1, <2>2, <2>3, <2>4 DEF IInv
<1>6. ASSUME c \in mail[c], row' = [row EXCEPT ![c] = result[c]],
             request' = [request EXCEPT ![c] = "done"],
             answer' = [answer EXCEPT ![c] = result[c]]
      PROVE  IInv'
  <2>1. executed[c] = 1 /\ result[c] \in Outcome /\ "none" \notin Outcome
    BY <1>6 DEF IInv, ResultsKnown, Outcome
  <2>2. row[c] # "none"
    BY <2>1 DEF IInv, ResultsKnown
  <2> QED
    BY <1>1, <1>2, <1>3, <1>6, <2>1, <2>2, RequestStep
<1> QED
  BY <1>4, <1>5, <1>6 DEF drain_response
----------------------------------------------------------------------------
\* The agent takes a command, executes it and responds.
LEMMA WorkStep ==
  ASSUME IInv, handle_message \/ execute \/ Respond \/ Killed
  PROVE  IInv'
<1> USE DEF serviceVars, redisVars, runVars
<1>1. ServiceTypeOK' /\ UNCHANGED <<request, answer, row, waits>>
  BY DEF IInv, ServiceTypeOK, handle_message, execute, Respond, Killed
<1>2. /\ inbox \in Seq(Command) /\ busy \in Command \cup {NoCommand}
      /\ executed \in [Command -> Nat]
      /\ result \in [Command -> Outcome \cup {"none"}]
      /\ mail \in [Command -> SUBSET Command]
  BY DEF IInv, WorkTypeOK, RedisTypeOK
<1>3. PendingExplained'
  BY <1>1 DEF IInv, PendingExplained
<1>4. CASE handle_message
  <2>1. /\ inbox # <<>> /\ inbox' = Tail(inbox)
        /\ busy' = Head(inbox) \/ busy' = NoCommand
        /\ busy = NoCommand
        /\ UNCHANGED <<redisVars, runVars, finished, result, executed>>
    BY <1>4 DEF handle_message
  <2>2. /\ RedisTypeOK' /\ RunTypeOK' /\ OrphansBounded'
        /\ UnsentUntouched' /\ ResultsKnown' /\ SuccessWasExecuted'
    <3>1. RedisTypeOK' /\ RunTypeOK' /\ OrphansBounded'
      BY <2>1 DEF IInv, RedisTypeOK, RunTypeOK, OrphansBounded
    <3>2. UnsentUntouched' /\ ResultsKnown' /\ SuccessWasExecuted'
      BY <1>1, <2>1 DEF IInv, UnsentUntouched, ResultsKnown, SuccessWasExecuted
    <3> QED
      BY <3>1, <3>2
  <2>3. /\ inbox' \in Seq(Command) /\ Head(inbox) \in Command
        /\ Len(inbox) \in Nat \ {0} /\ Len(inbox') = Len(inbox) - 1
        /\ \A i \in 1..Len(inbox') : i + 1 \in 2..Len(inbox) /\ inbox'[i] = inbox[i + 1]
        /\ Head(inbox) = inbox[1]
    BY <1>2, <2>1
  <2>4. ~finished
    BY <2>1 DEF IInv, WorkTypeOK
  <2>5. WorkTypeOK'
    <3>1. busy' \in Command \cup {NoCommand} /\ inbox' \in Seq(Command)
      BY <2>1, <2>3
    <3>2. finished' = finished /\ ~finished'
      BY <2>1, <2>4
    <3> QED
      BY <1>2, <2>1, <3>1, <3>2 DEF IInv, WorkTypeOK
  <2>6. BusyCounted'
    <3>1. IsSent(inbox[1]) /\ executed[inbox[1]] = 0
      BY <2>3 DEF IInv, InboxFresh
    <3>2. busy' = inbox[1] \/ busy' = NoCommand
      BY <2>1, <2>3
    <3> QED
      BY <1>1, <2>1, <2>4, <3>1, <3>2 DEF BusyCounted, IsSent
  <2>7. InboxFresh'
    <3>1. ASSUME NEW i \in 1..Len(inbox')
          PROVE  /\ IsSent(inbox[i])' /\ executed'[inbox'[i]] = 0 /\ inbox'[i] # busy'
                 /\ \A j \in 1..Len(inbox') : inbox'[i] = inbox'[j] => i = j
      <4>1. i + 1 \in 1..Len(inbox) /\ 1 \in 1..Len(inbox) /\ i + 1 # 1
        BY <2>3
      <4>2. /\ IsSent(inbox[i + 1]) /\ executed[inbox[i + 1]] = 0
            /\ inbox[i + 1] # inbox[1] /\ inbox[i + 1] # NoCommand
            /\ \A j \in 1..Len(inbox) : inbox[i + 1] = inbox[j] => i + 1 = j
        BY <2>1, <4>1 DEF IInv, InboxFresh
      <4>3. inbox'[i] = inbox[i + 1]
        BY <2>3
      <4>4. IsSent(inbox[i])'
        BY <1>1, <4>2, <4>3 DEF IsSent
      <4>5. inbox'[i] # busy'
        BY <2>1, <2>3, <4>2, <4>3
      <4>6. ASSUME NEW j \in 1..Len(inbox'), inbox'[i] = inbox'[j] PROVE i = j
        <5>1. j + 1 \in 1..Len(inbox) /\ inbox'[j] = inbox[j + 1]
          BY <2>3
        <5> QED
          BY <4>2, <4>3, <4>6, <5>1
      <4> QED
        BY <2>1, <4>2, <4>3, <4>4, <4>5, <4>6
    <3> QED
      BY <3>1 DEF InboxFresh
  <2> QED
    BY <1>1, <1>3, <2>2, <2>5, <2>6, <2>7 DEF IInv
<1>5. CASE execute
  <2>1. PICK o \in Outcome :
          /\ busy # NoCommand /\ ~finished /\ finished' = TRUE
          /\ executed' = [executed EXCEPT ![busy] = @ + 1]
          /\ result' = [result EXCEPT ![busy] = o]
          /\ UNCHANGED <<redisVars, runVars, inbox, busy>>
    BY <1>5 DEF execute
  <2>2. busy \in Command /\ IsSent(busy) /\ executed[busy] = 0
    BY <1>2, <2>1 DEF IInv, BusyCounted
  <2>3. RedisTypeOK' /\ RunTypeOK' /\ OrphansBounded'
    BY <2>1 DEF IInv, RedisTypeOK, RunTypeOK, OrphansBounded
  <2>4. /\ executed' \in [Command -> Nat]
        /\ result' \in [Command -> Outcome \cup {"none"}]
        /\ executed'[busy] = 1 /\ result'[busy] = o
        /\ \A c \in Command \ {busy} :
             executed'[c] = executed[c] /\ result'[c] = result[c]
    BY <1>2, <2>1, <2>2
  <2>5. WorkTypeOK'
    BY <1>2, <2>1, <2>4 DEF WorkTypeOK
  <2>6. InboxFresh'
    <3>1. \A i \in 1..Len(inbox) : inbox[i] \in Command
      BY <1>2
    <3> QED
      BY <1>1, <2>1, <2>4, <3>1 DEF IInv, InboxFresh, IsSent
  <2>7. BusyCounted'
    BY <1>1, <2>1, <2>2, <2>4 DEF BusyCounted, IsSent
  <2>8. request[busy] \in {"waiting", "done"} /\ row[busy] # "none"
    BY <2>2 DEF IsSent
  <2>9. UnsentUntouched'
    BY <1>1, <2>4, <2>8 DEF IInv, UnsentUntouched
  <2>10. ResultsKnown'
    <3>1. \A c \in Command :
            /\ executed'[c] \in {0, 1}
            /\ executed'[c] = 1 => result'[c] \in Outcome /\ row'[c] # "none"
      BY <1>1, <2>4, <2>8 DEF IInv, ResultsKnown
    <3>2. \A c \in Command : \A r \in mail'[c] : executed'[r] = 1
      BY <1>2, <2>1, <2>4 DEF IInv, ResultsKnown, redisVars
    <3> QED
      BY <3>1, <3>2 DEF ResultsKnown
  <2>11. SuccessWasExecuted'
    BY <1>1, <2>2, <2>4 DEF IInv, SuccessWasExecuted
  <2> QED
    BY <1>1, <1>3, <2>3, <2>5, <2>6, <2>7, <2>9, <2>10, <2>11 DEF IInv
<1>6. CASE Respond
  <2>1. /\ finished /\ busy' = NoCommand /\ ~finished'
        /\ finished' \in BOOLEAN
        /\ mail' \in [Command -> SUBSET Command]
        /\ \A c \in Command : mail'[c] \subseteq mail[c] \cup {busy}
        /\ UNCHANGED <<key, ttl, reachable, runVars, inbox, result, executed>>
    <3>1. finished => busy \in Command
      BY <1>2 DEF IInv, WorkTypeOK
    <3> QED
      BY <1>2, <1>6, <3>1 DEF Respond
  <2>2. busy # NoCommand /\ executed[busy] = 1
    BY <2>1 DEF IInv, WorkTypeOK, BusyCounted
  <2>3. RedisTypeOK' /\ RunTypeOK' /\ OrphansBounded'
    BY <2>1 DEF IInv, RedisTypeOK, RunTypeOK, OrphansBounded, runVars
  <2>4. WorkTypeOK'
    BY <1>2, <2>1 DEF WorkTypeOK
  <2>5. InboxFresh' /\ BusyCounted'
    <3>1. \A i \in 1..Len(inbox) : inbox[i] # NoCommand
      BY <1>2, AgentAssumption
    <3> QED
      BY <1>1, <2>1, <3>1 DEF IInv, InboxFresh, BusyCounted, IsSent
  <2>6. UnsentUntouched' /\ SuccessWasExecuted'
    BY <1>1, <2>1 DEF IInv, UnsentUntouched, SuccessWasExecuted
  <2>7. ResultsKnown'
    BY <1>1, <2>1, <2>2 DEF IInv, ResultsKnown
  <2> QED
    BY <1>1, <1>3, <2>3, <2>4, <2>5, <2>6, <2>7 DEF IInv
<1>7. CASE Killed
  <2>1. /\ agent' = "down" /\ ~beating' /\ beating' \in BOOLEAN /\ orphans' = 0
        /\ inbox' = <<>> /\ busy' = NoCommand
        /\ ~finished' /\ finished' \in BOOLEAN
        /\ ~exiting' /\ exiting' \in BOOLEAN
        /\ UNCHANGED <<mail, key, ttl, reachable, result, executed>>
    BY <1>7 DEF Killed
  <2>2. RedisTypeOK'
    BY <2>1 DEF IInv, RedisTypeOK
  <2>3. RunTypeOK' /\ OrphansBounded'
    <3>1. orphans' \in 0..MaxOrphans
      BY <2>1, AgentAssumption
    <3> QED
      BY <2>1, <3>1 DEF RunTypeOK, OrphansBounded
  <2>4. WorkTypeOK'
    <3>1. inbox' \in Seq(Command)
      BY <2>1
    <3> QED
      BY <1>2, <2>1, <3>1 DEF WorkTypeOK
  <2>5. InboxFresh' /\ BusyCounted'
    BY <2>1 DEF InboxFresh, BusyCounted
  <2>6. UnsentUntouched' /\ ResultsKnown' /\ SuccessWasExecuted'
    BY <1>1, <2>1 DEF IInv, UnsentUntouched, ResultsKnown, SuccessWasExecuted
  <2> QED
    BY <1>1, <1>3, <2>2, <2>3, <2>4, <2>5, <2>6 DEF IInv
<1> QED
  BY <1>4, <1>5, <1>6, <1>7

LEMMA StepIInv == IInv /\ [Next]_vars => IInv'
<1> SUFFICES ASSUME IInv, [Next]_vars PROVE IInv'
  OBVIOUS
<1>1. ASSUME NEW c \in Command, Serves(c) PROVE IInv'
  BY <1>1, AskStep, SendStep, WaitStep DEF Serves
<1>2. ASSUME NEW c \in Command, Ask(c) PROVE IInv'
  BY <1>2, AskStep
<1>3. CASE AgentRuns
  BY <1>3, WorkStep, LifeStep DEF AgentRuns
<1>4. CASE UNCHANGED vars
  <2>1. /\ shown' \in BOOLEAN
        /\ RedisTypeOK' /\ RunTypeOK' /\ OrphansBounded'
    BY <1>4 DEF IInv, ServiceTypeOK, RedisTypeOK, RunTypeOK, OrphansBounded,
                vars, serviceVars, redisVars, agentVars, runVars
  <2> QED
    BY <1>4, <2>1, IdleStep
    DEF vars, serviceVars, redisVars, agentVars, runVars, workVars
<1> QED
  BY <1>1, <1>2, <1>3, <1>4, WorkStep, LifeStep, RedisStep DEF Next

----------------------------------------------------------------------------
\* The inductive invariant: a command is in one place on its way, and its row
\* and its result follow it.
THEOREM Invariant == Spec => []IInv
<1> QED
  BY InitIInv, StepIInv, PTL DEF Spec

\* Type correctness: in particular no more heartbeats are forgotten than the
\* bound says.
THEOREM TypeCorrect == Spec => []TypeOK
<1>1. IInv => TypeOK
  BY TypeOKParts DEF IInv
<1> QED
  BY <1>1, Invariant, PTL

\* What is recorded and answered as a success was executed successfully.
THEOREM SuccessIsTrue == Spec => []SuccessWasExecuted
<1>1. IInv => SuccessWasExecuted
  BY DEF IInv
<1> QED
  BY <1>1, Invariant, PTL

\* A command is executed at most once, and never before its row is written.
THEOREM OnceAndRecorded == Spec => []ExecutedOnceAndRecorded
<1>1. IInv => ExecutedOnceAndRecorded
  <2>1. \A n \in {0, 1} : n <= 1
    OBVIOUS
  <2> QED
    BY <2>1 DEF IInv, ResultsKnown, ExecutedOnceAndRecorded
<1> QED
  BY <1>1, Invariant, PTL

\* The history says of a returned request what its caller was told.
THEOREM HistoryIsTrue == Spec => []PendingExplained
<1>1. IInv => PendingExplained
  BY DEF IInv
<1> QED
  BY <1>1, Invariant, PTL

----------------------------------------------------------------------------
(* The protocol implements RemoteCalls. *)

\* Who waits was told nothing, and the record says so.
WaitingIsPending ==
  \A c \in Command : request[c] = "waiting" => row[c] = "pending" /\ answer[c] = "none"

\* A result comes from an execution.
ResultsExecuted == \A c \in Command : executed[c] = 0 => result[c] = "none"

CInv == IInv /\ WaitingIsPending /\ ResultsExecuted

\* Steps of the agent but execute, and of Redis, leave what a caller sees alone.
LEMMA Unseen ==
  ASSUME \/ PollList \/ Register \/ Subscribe \/ handle_message \/ Respond
         \/ EndsListening \/ Stops \/ Starts \/ AgentError \/ Signalled \/ Killed
         \/ update_heartbeat \/ Expire \/ Disconnect \/ Reconnect
         \/ UNCHANGED vars
  PROVE  UNCHANGED <<request, row, answer, result, executed>>
  BY DEF PollList, Register, Subscribe, handle_message, Respond, EndsListening, Stops,
     Starts, AgentError, Signalled, Killed, update_heartbeat, Expire, Disconnect,
     Reconnect, vars, serviceVars, redisVars, agentVars, workVars

LEMMA StepCInv == CInv /\ [Next]_vars => CInv'
<1> SUFFICES ASSUME CInv, [Next]_vars PROVE CInv'
  OBVIOUS
<1> USE DEF CInv
<1>1. IInv'
  BY StepIInv
<1>2. ASSUME UNCHANGED <<request, row, answer, result, executed>>
      PROVE  WaitingIsPending' /\ ResultsExecuted'
  BY <1>2 DEF WaitingIsPending, ResultsExecuted
<1>3. CASE execute
  <2>1. /\ UNCHANGED <<request, row, answer>> /\ busy \in Command
        /\ \A c \in Command : c # busy => executed'[c] = executed[c] /\ result'[c] = result[c]
        /\ executed'[busy] # 0
    BY <1>3 DEF execute, IInv, WorkTypeOK, serviceVars
  <2> QED
    BY <1>1, <2>1 DEF WaitingIsPending, ResultsExecuted
<1>4. ASSUME NEW c \in Command, Ask(c) \/ Serves(c)
      PROVE  WaitingIsPending' /\ ResultsExecuted'
  <2>1. UNCHANGED <<result, executed>>
    BY <1>4 DEF Ask, Serves, check_agent_online, CannotSend, send_command, PublishFails,
       drain_response, GiveUp, agentVars, workVars
  <2>2. \A d \in Command : d # c =>
          request'[d] = request[d] /\ row'[d] = row[d] /\ answer'[d] = answer[d]
    BY <1>4 DEF Ask, Serves, check_agent_online, CannotSend, send_command, PublishFails,
       drain_response, GiveUp, Return, IInv, ServiceTypeOK
  <2>3. request[c] = "sending" => answer[c] = "none"
    BY DEF IInv, UnsentUntouched
  <2>4. request'[c] = "waiting" => row'[c] = "pending" /\ answer'[c] = "none"
    BY <1>4, <2>3
    DEF Ask, Serves, check_agent_online, CannotSend, send_command, PublishFails, drain_response,
        GiveUp, Return, IInv, ServiceTypeOK, WaitingIsPending
  <2> QED
    BY <2>1, <2>2, <2>4 DEF WaitingIsPending, ResultsExecuted
<1> QED
  BY <1>1, <1>2, <1>3, <1>4, Unseen DEF Next, AgentRuns

\* Every step of a request is one of its record and its answer, or a stutter.
LEMMA RequestMaps ==
  ASSUME CInv, NEW c \in Command, Ask(c) \/ Serves(c)
  PROVE  Calls!Next \/ UNCHANGED Calls!vars
<1> USE DEF CInv, Calls!vars
<1>1. UNCHANGED result
  BY DEF Ask, Serves, check_agent_online, CannotSend, send_command, PublishFails, drain_response,
     GiveUp, agentVars, workVars
<1>2. /\ request[c] \in {"asked", "sending"} => Calls!New(c)
      /\ request[c] = "waiting" => Calls!Awaited(c)
  BY DEF IInv, UnsentUntouched, WaitingIsPending, Calls!New, Calls!Awaited
<1>3. CASE Ask(c)
  BY <1>1, <1>3 DEF Ask
<1>4. CASE check_agent_online(c)
  <2>1. UNCHANGED answer \/ Calls!Refuse(c)
    BY <1>1, <1>2, <1>4 DEF check_agent_online, Return, Calls!Refuse
  <2> QED
    BY <1>1, <1>4, <2>1 DEF check_agent_online, Calls!Next
<1>9. CASE CannotSend(c)
  <2>1. Calls!Refuse(c)
    BY <1>1, <1>2, <1>9 DEF CannotSend, Return, Calls!Refuse
  <2> QED
    BY <2>1 DEF Calls!Next
<1>5. CASE send_command(c)
  <2>1. Calls!Send(c)
    BY <1>1, <1>2, <1>5 DEF send_command, Return, Calls!Send
  <2> QED
    BY <2>1 DEF Calls!Next
<1>6. CASE PublishFails(c)
  <2>1. Calls!SendFails(c)
    BY <1>1, <1>2, <1>6 DEF PublishFails, Return, Calls!SendFails, Calls!Conclude
  <2> QED
    BY <2>1 DEF Calls!Next
<1>7. CASE drain_response(c)
  <2>1. c \in mail[c] => result[c] # "none"
    BY DEF IInv, ResultsKnown, Outcome
  <2>2. UNCHANGED <<row, answer>> \/ Calls!Answered(c)
    BY <1>1, <1>2, <1>7, <2>1 DEF drain_response, Return, Calls!Answered, Calls!Conclude
  <2> QED
    BY <1>1, <2>2 DEF Calls!Next
<1>8. CASE GiveUp(c)
  <2>1. Calls!Abandoned(c)
    BY <1>1, <1>2, <1>8 DEF GiveUp, Return, Calls!Abandoned, Calls!Conclude
  <2> QED
    BY <2>1 DEF Calls!Next
<1> QED
  BY <1>3, <1>4, <1>5, <1>6, <1>7, <1>8, <1>9 DEF Serves

\* The protocol implements RemoteCalls: what a caller was told, the record keeps,
\* and no command is executed twice, or after it was refused.
THEOREM Implements == Spec => ImplementsCalls
<1>1. Init => Calls!Init
  BY DEF Init, Calls!Init
<1>2. Init => CInv
  BY InitIInv DEF Init, CInv, WaitingIsPending, ResultsExecuted
<1>3. CInv /\ [Next]_vars => [Calls!Next]_(Calls!vars)
  <2> SUFFICES ASSUME CInv, [Next]_vars PROVE Calls!Next \/ UNCHANGED Calls!vars
    OBVIOUS
  <2>1. CASE execute
    <3>1. busy \in Command /\ row[busy] # "none" /\ result[busy] = "none"
      BY <2>1 DEF execute, CInv, IInv, WorkTypeOK, BusyCounted, IsSent, ResultsExecuted
    <3>2. Calls!Execute(busy)
      BY <2>1, <3>1 DEF execute, Calls!Execute, serviceVars
    <3> QED
      BY <3>1, <3>2 DEF Calls!Next
  <2>2. ASSUME UNCHANGED <<request, row, answer, result, executed>>
        PROVE  UNCHANGED Calls!vars
    BY <2>2 DEF Calls!vars
  <2> QED
    BY <2>1, <2>2, RequestMaps, Unseen DEF Next, AgentRuns
<1> QED
  BY <1>1, <1>2, <1>3, StepCInv, PTL DEF Spec, ImplementsCalls, Calls!Spec
=============================================================================
