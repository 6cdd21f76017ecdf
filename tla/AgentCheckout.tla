--------------------------- MODULE AgentCheckout ---------------------------
(***************************************************************************)
(* The mock agent (clients/mock-agent/mock_agent/workflow.py) over the     *)
(* gateway.  An agent is a graph of nodes run in order: build the cart     *)
(* from the inventory and pricing servers, create an intent, have the      *)
(* operator approve, confirm, authorize, fulfil.  Each node sends one      *)
(* request and waits for its answer; an error, or no answer in time,       *)
(* raises and ends the graph, while the gateway may still serve what was   *)
(* sent.  Nothing is sent twice.                                           *)
(*                                                                         *)
(* An agent's requests are served by the slot of its name, for the intent  *)
(* of its name.  Several agents, and the gateway's failures and restarts,  *)
(* interleave.                                                             *)
(***************************************************************************)
EXTENDS Gateway, Amounts

CONSTANT Price  \* the unit price of what an agent is to buy, 0 if the servers do not know it

Agents == Slots

Charge == [a \in Agents |-> AmountCents(Price[a])]  \* the amount of its order

(* The transcript that an agent builds of the answer of /intents and       *)
(* signs.                                                                  *)
Transcript(a) == [intent |-> a, nonce |-> a, signed |-> TRUE, text |-> "approved"]

ASSUME AgentConstants ==
  /\ Intents = Agents
  /\ Transcripts = {Transcript(a) : a \in Agents}
  /\ Keys = {}
  /\ Price \in [Agents -> Nat]
  /\ \A a \in Agents : Policy[a] = EvaluatePolicy(Charge[a], RiskSignals)

VARIABLES agent,  \* for each agent, its node and what it holds
          sent    \* for each agent, the request on its way to the gateway

agentVars == <<vars, agent, sent>>

Nodes == {"build_cart", "create_intent", "confirm", "authorize", "fulfil", "end", "raised"}
Endpoints == {"confirm", "authorize", "fulfil"}

(* waits: it waits for an answer.  approved: the operator has typed y.     *)
(* authorization: the id in the answer of /authorize, or 0.                *)
AgentTypeOK ==
  /\ agent \in [Agents -> [node : Nodes, waits : BOOLEAN, approved : BOOLEAN,
                           authorization : Nat]]
  /\ sent \in [Agents -> Endpoints \union {"nothing"}]

AgentInit ==
  /\ Init
  /\ agent = [a \in Agents |->
       [node |-> "build_cart", waits |-> FALSE, approved |-> FALSE, authorization |-> 0]]
  /\ sent = [a \in Agents |-> "nothing"]

-----------------------------------------------------------------------------
(* The operations of the agent.                                            *)
Is(a, node) == agent[a].node = node /\ ~agent[a].waits

(* fetch_inventory and fetch_price; 404 for an unknown SKU.                *)
BuildCart(a) ==
  /\ Is(a, "build_cart")
  /\ agent' = [agent EXCEPT ![a].node = IF Price[a] = 0 THEN "raised" ELSE "create_intent"]
  /\ UNCHANGED <<vars, sent>>

PostIntents(a) ==
  /\ Is(a, "create_intent")
  /\ CreateIntent(a)
  /\ agent' = [agent EXCEPT ![a].node = "confirm"]
  /\ UNCHANGED sent

\* Mutant: the request goes out whatever the operator types.
Approve_Unasked(a) == Is(a, "confirm") /\ agent' = [agent EXCEPT ![a].waits = TRUE]

(* The operator types y at the preview of the order.                       *)
Approve(a) ==
  /\ Is(a, "confirm")
  /\ agent' = [agent EXCEPT ![a].approved = TRUE, ![a].waits = TRUE]

PostConfirm(a) ==
  /\ Approve(a)
  /\ sent' = [sent EXCEPT ![a] = "confirm"]
  /\ UNCHANGED vars

Post(a, endpoint) ==
  /\ Is(a, endpoint)
  /\ agent' = [agent EXCEPT ![a].waits = TRUE]
  /\ sent' = [sent EXCEPT ![a] = endpoint]
  /\ UNCHANGED vars

(* The operator does not approve, a lookup or a connection fails, or an    *)
(* answer is not there within the ten seconds of the client.               *)
Raise(a) ==
  /\ agent[a].node \notin {"end", "raised"}
  /\ agent' = [agent EXCEPT ![a].node = "raised", ![a].waits = FALSE]
  /\ UNCHANGED <<vars, sent>>

AgentStep(a) == \/ BuildCart(a) \/ PostIntents(a) \/ PostConfirm(a)
                \/ Post(a, "authorize") \/ Post(a, "fulfil")

-----------------------------------------------------------------------------
(* The gateway serves what the agents sent.                                *)
Asked(a, endpoint) ==
  [endpoint |-> endpoint, key |-> None, intent |-> a, transcript |-> Transcript(a),
   rest |-> None]

Accepts(a, endpoint) ==
  CASE endpoint = "confirm"   -> Matches(Asked(a, endpoint)) /\ ~Nonce!Seen(a)
    [] endpoint = "authorize" -> Authorizable(Asked(a, endpoint))
    [] endpoint = "fulfil"    -> Fulfillable(a, agent[a].authorization)

Arrives(a, endpoint) ==
  /\ req[a] = Free
  /\ sent[a] = endpoint
  /\ sent' = [sent EXCEPT ![a] = "nothing"]

\* Mutant: what is not in an answer yet is kept as a null.
Ok_Null(a, node, authorization) ==
  agent' = IF agent[a].waits
           THEN [agent EXCEPT ![a].node = node, ![a].waits = FALSE,
                              ![a].authorization = IF node = "fulfil" THEN authorization ELSE None]
           ELSE agent

(* 200, to an agent that still waits: its next node runs.                  *)
Ok(a, node, authorization) ==
  agent' = IF agent[a].waits
           THEN [agent EXCEPT ![a].node = node, ![a].waits = FALSE,
                              ![a].authorization = authorization]
           ELSE agent

\* Mutants: a request that failed is sent again; its status is not looked at.
Error_Retried(S) ==
  agent' = [a \in Agents |-> IF a \in S /\ agent[a].waits
                             THEN [agent[a] EXCEPT !.waits = FALSE] ELSE agent[a]]

Error_Unraised(S) ==
  agent' = [a \in Agents |->
    IF a \in S /\ agent[a].waits
    THEN [agent[a] EXCEPT !.waits = FALSE,
            !.node = [confirm |-> "authorize", authorize |-> "fulfil", fulfil |-> "end"][@]]
    ELSE agent[a]]

(* raise_for_status, or the connection is closed: those of the agents that *)
(* still wait raise.                                                       *)
Error(S) ==
  agent' = [a \in Agents |-> IF a \in S /\ agent[a].waits
                             THEN [agent[a] EXCEPT !.node = "raised", !.waits = FALSE]
                             ELSE agent[a]]

(* A handler refuses; without a key that leaves the gateway as it is.      *)
Refused(a) ==
  /\ \E endpoint \in Endpoints : Arrives(a, endpoint) /\ ~Accepts(a, endpoint)
  /\ Error({a})
  /\ UNCHANGED vars

Accepted(a) ==
  /\ \/ /\ Arrives(a, "confirm") /\ ConfirmSigned(a)
        /\ req'[a].ask = Asked(a, "confirm")
     \/ /\ Arrives(a, "authorize") /\ AuthorizeAllowed(a)
        /\ req'[a].ask = Asked(a, "authorize")
     \/ /\ Arrives(a, "fulfil") /\ FulfilGets(a)
        /\ req'[a].ask.intent = a /\ req'[a].body = agent[a].authorization
  /\ UNCHANGED agent

GoesOn(a) ==
  /\ \/ AppendSelect(a) \/ AppendFlush(a) \/ AppendCommit(a)
     \/ PspConfirms(a) \/ FulfilWrites(a)
  /\ UNCHANGED <<agent, sent>>

Answers(a) ==
  /\ \/ SetTranscriptHash(a) /\ Ok(a, "authorize", 0)
     \/ SetAuthorization(a) /\ Ok(a, "fulfil", req[a].body)
     \/ SetFulfilled(a) /\ Ok(a, "end", agent[a].authorization)
  /\ UNCHANGED sent

Breaks(a) ==
  /\ PspDeclines(a) \/ PspAnswerLost(a) \/ FulfilExpired(a) \/ Fail(a)
  /\ Error({a})
  /\ UNCHANGED sent

Serve(a) == Refused(a) \/ Accepted(a) \/ GoesOn(a) \/ Answers(a) \/ Breaks(a)

\* Mutant: the agents are not told that their connections are gone.
GatewayRestarts_Silent ==
  /\ Restart
  /\ sent' = [a \in Agents |-> "nothing"]
  /\ UNCHANGED agent

(* Every connection to the gateway is closed.                              *)
GatewayRestarts ==
  /\ Restart
  /\ Error(Agents)
  /\ sent' = [a \in Agents |-> "nothing"]

TimePasses == Tick /\ UNCHANGED <<agent, sent>>

AgentNext ==
  \/ \E a \in Agents : AgentStep(a) \/ Raise(a) \/ Serve(a)
  \/ TimePasses
  \/ GatewayRestarts

AgentSpec == AgentInit /\ [][AgentNext]_agentVars

(* The operator answers the prompt, an agent runs its nodes, and the       *)
(* gateway serves what arrives.  No timeout is counted on.                 *)
FairAgentSpec ==
  AgentSpec /\ \A a \in Agents : WF_agentVars(AgentStep(a)) /\ WF_agentVars(Serve(a))

-----------------------------------------------------------------------------
(* What the gateway told an agent, it stands by: the next request of an    *)
(* agent that was answered 200 is refused for one reason only, its intent  *)
(* has expired.  No other request, no eviction of a nonce, no failure and  *)
(* no restart makes the gateway refuse it.                                 *)
ToldIsHonoured ==
  \A a \in Agents :
    (/\ agent[a].node \in Endpoints
     /\ ~agent[a].waits \/ sent[a] = agent[a].node
     /\ Open(a)) => Accepts(a, agent[a].node)

(* An agent whose graph ran to its end has its order: its consent is in    *)
(* the ledger, what it was authorized for is a payment for that consent,   *)
(* and one set of receipts shows it.                                       *)
EndMeansDone ==
  \A a \in Agents : agent[a].node = "end" =>
    /\ Transcript(a) \in Logged
    /\ intents[a].auth = agent[a].authorization
    /\ \E c \in payments : /\ c.transcript = Transcript(a)
                           /\ c.auth = agent[a].authorization
    /\ files[a] = <<Transcript(a)>>
    /\ intents[a].fulfilled

(* Whatever fails, restarts, is evicted or answered too late: an agent's   *)
(* order is consented to once, paid for once, and has one set of receipts. *)
ChargedOnce ==
  \A a \in Agents :
    /\ Cardinality({e \in entries : e.content.intent = a}) <= 1
    /\ Cardinality({c \in payments : c.intent = a}) <= 1
    /\ Len(files[a]) <= 1

(* An order is paid for only after the operator approved its preview, and  *)
(* the amount is the total of the preview or a cent less.                  *)
ChargedAsApproved ==
  \A c \in payments :
    /\ agent[c.intent].approved
    /\ Charge[c.intent] \in {Price[c.intent], Price[c.intent] - 1}

(* Every checkout comes to its end: no agent waits for ever for a request  *)
(* that was lost with the gateway, refused, or never got its turn.         *)
EveryCheckoutEnds == \A a \in Agents : <>(agent[a].node \in {"end", "raised"})
=============================================================================
