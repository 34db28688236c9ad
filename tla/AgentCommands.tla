--------------------------- MODULE AgentCommands ---------------------------
(***************************************************************************)
(* Commands to a remote Cockpit agent: the Agents page that lists it, the  *)
(* backend that sends a command and waits (cockpit_agent_service.py), the  *)
(* agent that executes it (scripts/cockpit_agent_git) and its heartbeat.   *)
(*                                                                         *)
(* They talk by Redis: a channel of commands, a channel of responses and a *)
(* key with a time to live that says whether the agent is online.  Who is  *)
(* not subscribed when a message is published never sees it.               *)
(***************************************************************************)
EXTENDS Naturals, Sequences

CONSTANTS
  Command,           \* the commands, one request each
  NoCommand,
  MaxOrphans         \* bounds the heartbeat threads an agent forgets

ASSUME AgentAssumption ==
  NoCommand \notin Command /\ MaxOrphans \in Nat

VARIABLES
  shown,             \* does the page show the agent online?
  request,           \* the steps of each command's request
  waits,             \* the commands whose request waits for the response
  answer,            \* what each request returned
  row,               \* each command's status in cockpit_agent_commands
  mail,              \* responses that reached each request's subscription
  key,               \* the status in the agent's key, "none" without a key
  ttl,               \* does the key expire?
  reachable,         \* does the agent reach Redis?
  agent,             \* the agent's main loop
  exiting,           \* it was told to stop
  beating,           \* its heartbeat thread runs
  orphans,           \* so many earlier ones still run
  inbox,             \* commands its subscription holds
  busy,              \* the command it executes
  finished,          \* it has, and the response is still to be sent
  result,            \* of each command on the agent
  executed           \* how often it was executed

serviceVars == <<shown, request, waits, answer, row>>
redisVars == <<mail, key, ttl, reachable>>
runVars == <<agent, exiting, beating, orphans>>
workVars == <<inbox, busy, finished, result, executed>>
agentVars == <<runVars, workVars>>
vars == <<serviceVars, redisVars, agentVars>>

Outcome == {"success", "error"}

Init ==
  /\ shown = FALSE /\ key = "none" /\ ttl = FALSE
  /\ request = [c \in Command |-> "none"]
  /\ waits = {}
  /\ answer = [c \in Command |-> "none"]
  /\ row = [c \in Command |-> "none"]
  /\ mail = [c \in Command |-> {}]
  /\ reachable = TRUE
  /\ agent = "down" /\ exiting = FALSE /\ beating = FALSE /\ orphans = 0
  /\ inbox = <<>> /\ busy = NoCommand /\ finished = FALSE
  /\ result = [c \in Command |-> "none"]
  /\ executed = [c \in Command |-> 0]

----------------------------------------------------------------------------
\* The page polls the list; its buttons are enabled for an agent shown online.
PollList ==
  /\ shown' = (key = "online")
  /\ UNCHANGED <<request, waits, answer, row, redisVars, agentVars>>

Ask(c) ==
  /\ shown /\ request[c] = "none"
  /\ request' = [request EXCEPT ![c] = "asked"]
  /\ \E w \in {waits, waits \cup {c}} : waits' = w
  /\ UNCHANGED <<shown, answer, row, redisVars, agentVars>>

\* A request that waited ends its subscription with it.
Return(c, a) ==
  /\ request' = [request EXCEPT ![c] = "done"]
  /\ answer' = [answer EXCEPT ![c] = a]
  /\ waits' = waits \ {c}
  /\ mail' = [mail EXCEPT ![c] = {}]

\* A key that expires lives no longer than an online status is believed; one
\* without an expiry may have grown too old.  A request that waits subscribes
\* before it sends.
check_agent_online(c) ==
  /\ request[c] = "asked"
  /\ \/ /\ key = "online"
        /\ request' = [request EXCEPT ![c] = "sending"]
        /\ UNCHANGED <<answer, waits, mail>>
     \/ /\ key # "online" \/ ~ttl
        /\ Return(c, "offline")
  /\ UNCHANGED <<shown, row, key, ttl, reachable, agentVars>>

\* The agent has no shared secret, or the row cannot be written.
CannotSend(c) ==
  /\ request[c] = "sending"
  /\ Return(c, "error")
  /\ UNCHANGED <<shown, row, key, ttl, reachable, agentVars>>

\* A message reaches the agent only if it listens now.
Published(c) ==
  inbox' = IF agent = "listening" /\ reachable THEN Append(inbox, c) ELSE inbox

send_command(c) ==
  /\ request[c] = "sending"
  /\ row' = [row EXCEPT ![c] = "pending"]
  /\ \/ /\ c \in waits
        /\ request' = [request EXCEPT ![c] = "waiting"]
        /\ UNCHANGED <<answer, waits, mail>>
     \/ c \notin waits /\ Return(c, "pending")
  /\ Published(c)
  /\ UNCHANGED <<shown, key, ttl, reachable, runVars, busy, finished, result,
                 executed>>

\* The backend's connection fails, perhaps after Redis took the message.
PublishFails(c) ==
  /\ request[c] = "sending"
  /\ row' = [row EXCEPT ![c] = "error"]
  /\ Return(c, "error")
  /\ Published(c) \/ UNCHANGED inbox
  /\ UNCHANGED <<shown, key, ttl, reachable, runVars, busy, finished, result,
                 executed>>

\* Mutant: whatever response comes is taken for ours.
DrainAnyResponse(c) ==
  /\ request[c] = "waiting"
  /\ \E r \in mail[c] :
       row' = [row EXCEPT ![c] = result[r]] /\ Return(c, result[r])
  /\ UNCHANGED <<shown, key, ttl, reachable, agentVars>>

\* The subscription carries the responses to all commands of the agent.
drain_response(c) ==
  /\ request[c] = "waiting"
  /\ \E r \in mail[c] :
       \/ /\ r = c
          /\ row' = [row EXCEPT ![c] = result[c]] /\ Return(c, result[c])
       \/ /\ r # c
          /\ mail' = [mail EXCEPT ![c] = @ \ {r}]
          /\ UNCHANGED <<row, request, answer, waits>>
  /\ UNCHANGED <<shown, key, ttl, reachable, agentVars>>

\* Mutant: a wait that ends without a response leaves the row alone.
GiveUpSilently(c) ==
  /\ request[c] = "waiting"
  /\ \E o \in {"timeout", "error"} : Return(c, o)
  /\ UNCHANGED <<shown, row, key, ttl, reachable, agentVars>>

\* Mutant: only a response to something ends the wait.
GiveUpWhenAnswered(c) ==
  /\ request[c] = "waiting" /\ mail[c] # {}
  /\ \E o \in {"timeout", "error"} :
       row' = [row EXCEPT ![c] = o] /\ Return(c, o)
  /\ UNCHANGED <<shown, key, ttl, reachable, agentVars>>

\* Mutant: the caller is told, and the subscription kept for a late response.
GiveUpAndListen(c) ==
  /\ request[c] = "waiting"
  /\ \E o \in {"timeout", "error"} :
       /\ row' = [row EXCEPT ![c] = o]
       /\ answer' = [answer EXCEPT ![c] = o]
  /\ UNCHANGED <<shown, request, waits, redisVars, agentVars>>

\* The time is over, or the backend's own connection breaks.
GiveUp(c) ==
  /\ request[c] = "waiting"
  /\ \E o \in {"timeout", "error"} :
       row' = [row EXCEPT ![c] = o] /\ Return(c, o)
  /\ UNCHANGED <<shown, key, ttl, reachable, agentVars>>

----------------------------------------------------------------------------
\* The agent.
Starts ==
  /\ agent = "down"
  /\ agent' = "fresh"
  /\ UNCHANGED <<serviceVars, redisVars, exiting, beating, orphans, workVars>>

\* hset on the key, and then expire, unless the agent is killed, or loses Redis,
\* in between: a key that had an expiry keeps it, a new one gets none.
MarkOnline ==
  /\ key' = "online"
  /\ ttl' \in {TRUE, key # "none" /\ ttl}

\* Mutant: every registration leaves a heartbeat behind.
RegisterLeaving ==
  /\ agent \in {"fresh", "idle"} /\ ~exiting /\ reachable
  /\ agent' = "registered"
  /\ MarkOnline \/ UNCHANGED <<key, ttl>>
  /\ beating' = TRUE
  /\ orphans' = orphans + 1
  /\ UNCHANGED <<serviceVars, mail, reachable, exiting, workVars>>

\* It connects, registers itself, which may fail and is only logged then, starts
\* a heartbeat, and then subscribes.
Register ==
  /\ agent \in {"fresh", "idle"} /\ ~exiting /\ reachable
  /\ agent' = "registered"
  /\ MarkOnline \/ UNCHANGED <<key, ttl>>
  /\ beating' = TRUE
  /\ orphans' = orphans + (IF beating THEN 1 ELSE 0)
  /\ UNCHANGED <<serviceVars, mail, reachable, exiting, workVars>>

Subscribe ==
  /\ agent = "registered" /\ reachable
  /\ agent' = "listening"
  /\ inbox' = <<>>
  /\ UNCHANGED <<serviceVars, redisVars, exiting, beating, orphans, busy,
                 finished, result, executed>>

\* Mutant: a command stays in the inbox until its response is sent.
HandleMessageKept ==
  /\ agent = "listening" /\ ~exiting /\ busy = NoCommand /\ inbox # <<>>
  /\ \/ busy' = Head(inbox) /\ UNCHANGED inbox
     \/ inbox' = Tail(inbox) /\ UNCHANGED busy
  /\ UNCHANGED <<serviceVars, redisVars, runVars, finished, result, executed>>

\* A message that is not signed as it must be, or too old, is dropped.
handle_message ==
  /\ agent = "listening" /\ ~exiting /\ busy = NoCommand /\ inbox # <<>>
  /\ inbox' = Tail(inbox)
  /\ busy' \in {Head(inbox), NoCommand}
  /\ UNCHANGED <<serviceVars, redisVars, runVars, finished, result, executed>>

execute ==
  /\ busy # NoCommand /\ ~finished
  /\ finished' = TRUE
  /\ executed' = [executed EXCEPT ![busy] = @ + 1]
  /\ \E o \in Outcome : result' = [result EXCEPT ![busy] = o]
  /\ UNCHANGED <<serviceVars, redisVars, runVars, inbox, busy>>

\* Published to those who wait now; a response that cannot be is only logged.
Respond ==
  /\ finished
  /\ busy' = NoCommand /\ finished' = FALSE
  /\ mail' = [c \in Command |->
       IF reachable /\ c \in waits /\ request[c] # "asked"
       THEN mail[c] \cup {busy} ELSE mail[c]]
  /\ UNCHANGED <<serviceVars, key, ttl, reachable, runVars, inbox, result,
                 executed>>

\* hset on the key, with or without success; it makes a key that had expired.
MarkOffline ==
  \/ UNCHANGED <<key, ttl>>
  \/ /\ reachable
     /\ key' = "offline"
     /\ ttl' = (key # "none" /\ ttl)

\* A lost connection or a signal ends the loop: the key first, then the thread.
EndsListening ==
  /\ \/ agent \in {"registered", "listening"} /\ ~reachable
     \/ agent \in {"idle", "listening"} /\ exiting
  /\ busy = NoCommand
  /\ MarkOffline
  /\ agent' = "stopping"
  /\ inbox' = <<>>
  /\ UNCHANGED <<serviceVars, mail, reachable, exiting, beating, orphans, busy,
                 finished, result, executed>>

\* Any other error starts over and leaves the heartbeat running.
AgentError ==
  /\ agent \in {"registered", "listening"} /\ busy = NoCommand
  /\ orphans < MaxOrphans
  /\ agent' = "idle"
  /\ inbox' = <<>>
  /\ UNCHANGED <<serviceVars, redisVars, exiting, beating, orphans, busy,
                 finished, result, executed>>

Stops ==
  /\ agent = "stopping" \/ (agent = "fresh" /\ exiting)
  /\ beating' = FALSE
  /\ agent' = IF exiting THEN "down" ELSE "idle"
  /\ orphans' = IF exiting THEN 0 ELSE orphans
  /\ exiting' = FALSE
  /\ UNCHANGED <<serviceVars, redisVars, workVars>>

Signalled ==
  /\ agent # "down" /\ ~exiting
  /\ exiting' = TRUE
  /\ UNCHANGED <<serviceVars, redisVars, agent, beating, orphans, workVars>>

Killed ==
  /\ agent # "down"
  /\ agent' = "down" /\ exiting' = FALSE /\ beating' = FALSE /\ orphans' = 0
  /\ inbox' = <<>> /\ busy' = NoCommand /\ finished' = FALSE
  /\ UNCHANGED <<serviceVars, redisVars, result, executed>>

----------------------------------------------------------------------------
\* Redis and the network.
\* Mutant: the heartbeat renews the expiry and leaves the status to Register.
BeatRenewsOnly ==
  /\ beating \/ orphans > 0
  /\ reachable
  /\ ttl' = (key # "none") /\ UNCHANGED key
  /\ UNCHANGED <<serviceVars, mail, reachable, agentVars>>

update_heartbeat ==
  /\ beating \/ orphans > 0
  /\ reachable
  /\ MarkOnline
  /\ UNCHANGED <<serviceVars, mail, reachable, agentVars>>

\* The key outlives three heartbeats, so it expires only when none arrives.
Expire ==
  /\ key # "none" /\ ttl
  /\ ~(reachable /\ (beating \/ orphans > 0))
  /\ key' = "none" /\ ttl' = FALSE
  /\ UNCHANGED <<serviceVars, mail, reachable, agentVars>>

\* What is published meanwhile is lost; the client subscribes again by itself
\* when it is soon reconnected.
Disconnect ==
  /\ reachable
  /\ reachable' = FALSE
  /\ inbox' = <<>>
  /\ UNCHANGED <<serviceVars, mail, key, ttl, runVars, busy, finished, result,
                 executed>>

Reconnect ==
  /\ ~reachable
  /\ reachable' = TRUE
  /\ UNCHANGED <<serviceVars, mail, key, ttl, agentVars>>

----------------------------------------------------------------------------
Serves(c) ==
  \/ check_agent_online(c)
  \/ CannotSend(c) \/ send_command(c) \/ PublishFails(c)
  \/ drain_response(c) \/ GiveUp(c)

AgentRuns ==
  \/ Register \/ Subscribe \/ handle_message \/ execute \/ Respond
  \/ EndsListening \/ Stops

Next ==
  \/ PollList
  \/ \E c \in Command : Ask(c) \/ Serves(c)
  \/ AgentRuns \/ Starts \/ AgentError \/ Signalled \/ Killed
  \/ update_heartbeat \/ Expire \/ Disconnect \/ Reconnect

Spec == Init /\ [][Next]_vars

\* The page polls, a request goes on and its wait is limited, threads run and
\* keys expire; nothing is promised of the network or of whoever runs the agent.
FairSpec ==
  /\ Spec
  /\ WF_vars(PollList)
  /\ \A c \in Command : WF_vars(Serves(c))
  /\ WF_vars(AgentRuns)
  /\ WF_vars(update_heartbeat) /\ WF_vars(Expire)

----------------------------------------------------------------------------
TypeOK ==
  /\ shown \in BOOLEAN /\ key \in {"none", "online", "offline"}
  /\ ttl \in BOOLEAN /\ reachable \in BOOLEAN
  /\ request \in [Command -> {"none", "asked", "sending", "waiting", "done"}]
  /\ waits \subseteq Command
  /\ answer \in [Command -> Outcome \cup {"none", "offline", "pending", "timeout"}]
  /\ row \in [Command -> Outcome \cup {"none", "pending", "timeout"}]
  /\ mail \in [Command -> SUBSET Command]
  /\ agent \in {"down", "fresh", "idle", "registered", "listening",
                "stopping"}
  /\ exiting \in BOOLEAN /\ beating \in BOOLEAN
  /\ orphans \in 0..MaxOrphans
  /\ inbox \in Seq(Command) /\ busy \in Command \cup {NoCommand}
  /\ finished \in BOOLEAN /\ (finished => busy # NoCommand)
  /\ result \in [Command -> Outcome \cup {"none"}]
  /\ executed \in [Command -> Nat]

\* A command recorded and answered as successful was executed by the agent,
\* successfully, whatever other responses came meanwhile.
SuccessWasExecuted ==
  \A c \in Command :
    "success" \in {row[c], answer[c]} => executed[c] = 1 /\ result[c] = "success"

\* A command is executed at most once, and only after its row was written, so
\* that the history shows everything the agent was made to do.
ExecutedOnceAndRecorded ==
  \A c \in Command : executed[c] <= 1 /\ (executed[c] = 1 => row[c] # "none")

\* A command that stays "pending" in the history is one nobody waits for; the
\* others have in their row what their request returned, or have none because the
\* request ended before one was written.
PendingExplained ==
  \A c \in Command :
    request[c] = "done" => \/ row[c] = answer[c]
                           \/ row[c] = "none" /\ answer[c] \in {"offline", "error"}

\* The protocol implements RemoteCalls: a command is executed at most once, after
\* it was recorded, and what its caller was told stands in the history, although
\* the agent may execute it, and respond, before or after that.
Calls == INSTANCE RemoteCalls WITH
  Command <- Command, Result <- Outcome,
  recorded <- row, result <- result, told <- answer
ImplementsCalls == Calls!Spec

\* Every request returns, whatever happens to the agent and its connection: none
\* is out for ever.
RequestsReturn ==
  \A c \in Command : []<>(request[c] \in {"none", "done"})

\* An agent's key that says "online" and never expires: the agent was cut off
\* between the two calls that write it.
StuckOnline == key = "online" /\ ~ttl

\* The page tells in the end what is true: an agent that is gone for good is no
\* longer shown online, although a last heartbeat may come after it marked itself
\* offline, unless the last it did was to write a key and not its expiry; one that
\* listens on undisturbed is shown online.
PageFollowsAgent ==
  /\ <>[](agent = "down") => <>[]~shown \/ <>[]StuckOnline
  /\ <>[](agent = "listening" /\ reachable /\ ~exiting) => <>[]shown
=============================================================================
