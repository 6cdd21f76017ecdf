------------------------ MODULE AgentCheckoutProofs ------------------------
(***************************************************************************)
(* Proofs about AgentCheckout, for any number of agents, any prices, any   *)
(* lifetime and size of the nonce cache, and any failures and restarts.    *)
(***************************************************************************)
EXTENDS AgentCheckout, GatewayOnceProofs

ConsentsOf(a) == {e \in entries : e.content.intent = a}
PaymentsOf(a) == {c \in payments : c.intent = a}

(* Where a handler may stand that serves an endpoint.                      *)
Serving(endpoint) == CASE endpoint = "confirm"   -> {"append", "set_hash"}
                       [] endpoint = "authorize" -> {"psp", "set_auth"}
                       [] endpoint = "fulfil"    -> {"receipts", "set_fulfilled"}

(* An agent has nothing under way, or one request: on its way or being     *)
(* served, while the agent waits for it or has given up.                   *)
OneAtATime(a) ==
  \/ sent[a] = "nothing" /\ req[a] = Free /\ ~agent[a].waits
  \/ \E endpoint \in Endpoints :
       /\ \/ sent[a] = endpoint /\ req[a] = Free
          \/ /\ sent[a] = "nothing" /\ req[a].pc \in Serving(endpoint)
             /\ req[a].ask = Asked(a, endpoint)
       /\ \/ agent[a].node = endpoint /\ agent[a].waits
          \/ agent[a].node = "raised" /\ ~agent[a].waits

(* The agent's request to an endpoint may still come to the gateway.       *)
Earlier(endpoint) == CASE endpoint = "confirm"   -> {"build_cart", "create_intent"}
                       [] endpoint = "authorize" -> {"build_cart", "create_intent", "confirm"}
                       [] endpoint = "fulfil"    -> {"build_cart", "create_intent", "confirm",
                                                     "authorize"}
Ahead(a, endpoint) ==
  \/ sent[a] = endpoint
  \/ agent[a].node \in Earlier(endpoint)
  \/ agent[a].node = endpoint /\ ~agent[a].waits

AtMostOne(S) == \A x, y \in S : x = y

(* What a request does is not done before it comes, and done once.         *)
ConfirmOnce(a) ==
  /\ Ahead(a, "confirm") => \A e \in cache : e.nonce # a
  /\ Ahead(a, "confirm") \/ At(a, "append") => ConsentsOf(a) = {}
  /\ AtMostOne(ConsentsOf(a))
  /\ agent[a].node = "authorize" => intents[a].transcript # None

AuthorizeOnce(a) ==
  /\ Ahead(a, "authorize") \/ At(a, "psp") => PaymentsOf(a) = {}
  /\ AtMostOne(PaymentsOf(a))
  /\ At(a, "set_auth") => req[a].body # 0
  /\ agent[a].node \in {"fulfil", "end"} =>
       intents[a].auth = agent[a].authorization /\ agent[a].authorization # 0

FulfilOnce(a) ==
  /\ Ahead(a, "fulfil") \/ At(a, "receipts") => files[a] = << >> /\ ~intents[a].fulfilled
  /\ files[a] \in {<< >>, <<Transcript(a)>>}
  /\ At(a, "set_fulfilled") => files[a] = <<Transcript(a)>>
  /\ agent[a].node = "end" => files[a] = <<Transcript(a)>> /\ intents[a].fulfilled

(* Without the operator's approval nothing is sent.                        *)
Asks(a) ==
  ~agent[a].approved =>
    /\ sent[a] = "nothing" /\ req[a] = Free /\ ~agent[a].waits
    /\ agent[a].node \in {"build_cart", "create_intent", "confirm", "raised"}
    /\ PaymentsOf(a) = {}

CheckoutOK(a) == OneAtATime(a) /\ ConfirmOnce(a) /\ AuthorizeOnce(a) /\ FulfilOnce(a) /\ Asks(a)

(* The inductive invariant, on top of that of the gateway.                 *)
CheckoutInv == AgentTypeOK /\ \A a \in Agents : CheckoutOK(a)

-----------------------------------------------------------------------------
(* What the agents do at the gateway is what clients may do.               *)
LEMMA AgentStepIsGatewayStep == [AgentNext]_agentVars => [Next]_vars
<1>1. ASSUME NEW a \in Agents, AgentStep(a) \/ Raise(a)
      PROVE  [Next]_vars
  BY <1>1, AgentConstants DEF AgentStep, BuildCart, PostIntents, PostConfirm, Post, Raise, Next
<1>2. ASSUME NEW a \in Agents, Serve(a)
      PROVE  [Next]_vars
  BY <1>2 DEF Serve, Refused, Accepted, GoesOn, Answers, Breaks, Agents, Next, Handler, Confirm,
              Authorize, Fulfil
<1>3. QED
  BY <1>1, <1>2 DEF AgentNext, TimePasses, GatewayRestarts, Next, agentVars, vars

(* The agents are clients like others: whatever is proved of the gateway   *)
(* holds while they use it.                                                *)
THEOREM AgentsUseTheGateway == AgentSpec => Spec
<1>1. AgentInit => Init
  BY DEF AgentInit
<1>2. QED
  BY <1>1, AgentStepIsGatewayStep, PTL DEF AgentSpec, Spec

LEMMA InitCheckout == AgentInit => CheckoutInv
<1> SUFFICES ASSUME AgentInit
             PROVE  CheckoutInv
  OBVIOUS
<1>1. AgentTypeOK
  BY DEF AgentInit, AgentTypeOK, Nodes
<1>2. ASSUME NEW a \in Agents
      PROVE  CheckoutOK(a)
  <2>1. /\ agent[a] = [node |-> "build_cart", waits |-> FALSE, approved |-> FALSE,
                       authorization |-> 0]
        /\ sent[a] = "nothing" /\ req[a] = Free /\ cache = {} /\ entries = {} /\ payments = {}
        /\ files[a] = << >> /\ ~intents[a].fulfilled
    BY <1>2, AgentConstants
       DEF AgentInit, Init, Agents, Nonce!NonceInit, Ledger!LedgerInit
  <2>2. ConsentsOf(a) = {} /\ PaymentsOf(a) = {}
    BY <2>1 DEF ConsentsOf, PaymentsOf
  <2>3. QED
    BY <2>1, <2>2 DEF CheckoutOK, OneAtATime, ConfirmOnce, AuthorizeOnce, FulfilOnce, Asks,
                      AtMostOne, At, Free
<1>3. QED
  BY <1>1, <1>2 DEF CheckoutInv

-----------------------------------------------------------------------------
(* What has to stay for what is true of an agent to stay.                  *)
OrderStays(a) ==
  /\ \A e \in cache' : e.nonce = a => \E f \in cache : f.nonce = a
  /\ ConsentsOf(a)' = ConsentsOf(a)
  /\ PaymentsOf(a)' = PaymentsOf(a)
  /\ intents'[a].transcript = intents[a].transcript
  /\ intents'[a].auth = intents[a].auth
  /\ intents'[a].fulfilled = intents[a].fulfilled
  /\ files'[a] = files[a]

LEMMA AgentKept ==
  ASSUME NEW a \in Agents, CheckoutOK(a), OrderStays(a),
         agent'[a] = agent[a], sent'[a] = sent[a], req'[a] = req[a]
  PROVE  CheckoutOK(a)'
<1> USE DEF OrderStays
<1>1. OneAtATime(a)'
  BY DEF CheckoutOK, OneAtATime, Asked
<1>2. \A endpoint \in Endpoints : Ahead(a, endpoint)' <=> Ahead(a, endpoint)
  BY DEF Ahead
<1>3. ConfirmOnce(a)'
  BY <1>2 DEF CheckoutOK, ConfirmOnce, Endpoints, AtMostOne, At
<1>4. AuthorizeOnce(a)'
  BY <1>2 DEF CheckoutOK, AuthorizeOnce, Endpoints, AtMostOne, At
<1>5. FulfilOnce(a)'
  BY <1>2 DEF CheckoutOK, FulfilOnce, Endpoints, At
<1>6. Asks(a)'
  BY DEF CheckoutOK, Asks
<1>7. QED
  BY <1>1, <1>3, <1>4, <1>5, <1>6 DEF CheckoutOK

(* A request that is being served, and where its agent is.                 *)
LEMMA Held ==
  ASSUME NEW a \in Agents, CheckoutOK(a), req[a] # Free
  PROVE  \E endpoint \in Endpoints :
           /\ sent[a] = "nothing" /\ req[a].pc \in Serving(endpoint)
           /\ req[a].ask = Asked(a, endpoint)
           /\ \/ agent[a].node = endpoint /\ agent[a].waits
              \/ agent[a].node = "raised" /\ ~agent[a].waits
  BY DEF CheckoutOK, OneAtATime

LEMMA Answering ==
  ASSUME NEW a \in Agents, Answers(a)
  PROVE  req[a].pc \in {"set_hash", "set_auth", "set_fulfilled"} /\ req[a] # Free
<1>1. At(a, "set_hash") \/ At(a, "set_auth") \/ At(a, "set_fulfilled")
  BY DEF Answers, SetTranscriptHash, SetAuthorization, SetFulfilled
<1>2. QED
  BY <1>1 DEF At, Free

LEMMA HeldAsk ==
  ASSUME NEW a \in Agents, CheckoutOK(a), req[a] # Free
  PROVE  req[a].ask.intent = a /\ req[a].ask.transcript.intent = a /\ req[a].ask.key = None
<1>1. PICK endpoint \in Endpoints : req[a].ask = Asked(a, endpoint)
  BY Held
<1>2. QED
  BY <1>1 DEF Asked, Transcript

(* What becomes of the agents when answers arrive.                         *)
LEMMA ErrorEffect ==
  ASSUME AgentTypeOK, NEW S, Error(S)
  PROVE  /\ \A a \in Agents :
              IF a \in S /\ agent[a].waits
              THEN /\ agent'[a].node = "raised" /\ agent'[a].waits = FALSE
                   /\ agent'[a].approved = agent[a].approved
                   /\ agent'[a].authorization = agent[a].authorization
              ELSE agent'[a] = agent[a]
         /\ agent' \in [Agents -> [node : Nodes, waits : BOOLEAN, approved : BOOLEAN,
                                   authorization : Nat]]
  BY DEF Error, AgentTypeOK, Nodes

LEMMA OkEffect ==
  ASSUME AgentTypeOK, NEW b \in Agents, NEW node \in Nodes, NEW authorization \in Nat,
         Ok(b, node, authorization)
  PROVE  /\ \A a \in Agents :
              IF a = b /\ agent[a].waits
              THEN /\ agent'[a].node = node /\ agent'[a].waits = FALSE
                   /\ agent'[a].approved = agent[a].approved
                   /\ agent'[a].authorization = authorization
              ELSE agent'[a] = agent[a]
         /\ agent' \in [Agents -> [node : Nodes, waits : BOOLEAN, approved : BOOLEAN,
                                   authorization : Nat]]
  BY DEF Ok, AgentTypeOK, Nodes

(* A step at an agent's slot leaves the orders of the others alone.        *)
LEMMA ServeIsOwn ==
  ASSUME GatewayInv, AgentTypeOK, NEW b \in Agents, CheckoutOK(b), Serve(b),
         NEW a \in Agents, a # b
  PROVE  OrderStays(a) /\ req'[a] = req[a] /\ sent'[a] = sent[a] /\ agent'[a] = agent[a]
<1> USE AgentConstants DEF Agents
<1>0. /\ req \in [Slots -> Request] /\ intents \in [Intents -> OrderIntent]
      /\ files \in [Intents -> Seq(Transcripts)]
      /\ sent \in [Slots -> Endpoints \union {"nothing"}]
  BY DEF GatewayInv, OwnTypeOK, AgentTypeOK
<1>1. CASE Refused(b)
  <2>1. agent'[a] = agent[a]
    <3>1. PICK S : Error(S) /\ a \notin S
      BY <1>1 DEF Refused
    <3>2. QED
      BY <3>1, ErrorEffect
  <2>2. QED
    BY <1>0, <1>1, <2>1 DEF Refused, OrderStays, vars, nonceVars, ledgerVars, orderVars, ConsentsOf,
                      PaymentsOf, Arrives
<1>2. CASE Accepted(b)
  <2>1. agent' = agent /\ sent'[a] = sent[a]
    BY <1>0, <1>2 DEF Accepted, Arrives
  <2>2. CASE ConfirmSigned(b) /\ req'[b].ask = Asked(b, "confirm")
    <3>1. PICK ask \in Pending(b, "confirm") :
            Nonce!Remember(ask.intent) /\ Goto(b, "append", ask, 0)
      BY <2>2 DEF ConfirmSigned
    <3>2. req'[b].ask = ask /\ req'[a] = req[a]
      BY <1>0, <3>1 DEF Goto
    <3>3. ask.intent = b
      BY <2>2, <3>2 DEF Asked
    <3>4. \A e \in cache' : e \in cache \/ e.nonce = b
      <4>1. PICK kept \in Nonce!Kept : cache' = kept \union {Nonce!Used(b)}
        BY <3>1, <3>3 DEF Nonce!Remember
      <4>2. kept \subseteq cache
        BY DEF Nonce!Kept, Nonce!Live
      <4>3. QED
        BY <4>1, <4>2 DEF Nonce!Used
    <3>5. QED
      BY <2>1, <2>2, <3>2, <3>4 DEF ConfirmSigned, OrderStays, ledgerVars, orderVars, ConsentsOf,
                              PaymentsOf
  <2>3. CASE AuthorizeAllowed(b)
    BY <1>0, <2>1, <2>3 DEF AuthorizeAllowed, Goto, OrderStays, nonceVars, ledgerVars, orderVars,
                      ConsentsOf, PaymentsOf
  <2>4. CASE FulfilGets(b)
    BY <1>0, <2>1, <2>4 DEF FulfilGets, Goto, OrderStays, nonceVars, ledgerVars, orderVars,
                      ConsentsOf, PaymentsOf
  <2>5. QED
    BY <1>2, <2>2, <2>3, <2>4 DEF Accepted
<1>3. CASE GoesOn(b)
  <2>1. agent' = agent /\ sent' = sent
    BY <1>3 DEF GoesOn
  <2>2. req[b] # Free
    BY <1>3 DEF GoesOn, AppendSelect, AppendFlush, AppendCommit, PspConfirms, FulfilWrites, At, Free
  <2>3. CASE AppendSelect(b) \/ AppendFlush(b)
    BY <2>1, <2>3 DEF AppendSelect, AppendFlush, Ledger!SelectLatest, Ledger!Flush, OrderStays,
                nonceVars, orderVars, ConsentsOf, PaymentsOf
  <2>4. CASE AppendCommit(b)
    <3>1. append[b].step = "commit" /\ entries' = entries \union {append[b].row}
      BY <2>4 DEF AppendCommit, Ledger!Commit
    <3>2. SessionOK(append[b], req[b])
      BY DEF GatewayInv, FlowInv
    <3>3. append[b].row.content.intent = b
      BY <2>2, <3>1, <3>2, HeldAsk DEF SessionOK, Ledger!Idle
    <3>4. ConsentsOf(a)' = ConsentsOf(a)
      BY <3>1, <3>3 DEF ConsentsOf
    <3>5. req'[a] = req[a]
      BY <1>0, <2>4 DEF AppendCommit, Goto
    <3>6. QED
      BY <2>1, <2>4, <3>4, <3>5 DEF AppendCommit, OrderStays, nonceVars, orderVars, PaymentsOf
  <2>5. CASE PspConfirms(b)
    <3>1. PICK captured \in BOOLEAN :
            payments' = payments \union {PaymentOf(req[b].ask, issued + 1, issued + 1, captured)}
      BY <2>5 DEF PspConfirms
    <3>2. PaymentsOf(a)' = PaymentsOf(a)
      BY <2>2, <3>1, HeldAsk DEF PaymentsOf, PaymentOf
    <3>3. req'[a] = req[a]
      BY <1>0, <2>5 DEF PspConfirms, Goto
    <3>4. QED
      BY <2>1, <2>5, <3>2, <3>3 DEF PspConfirms, OrderStays, nonceVars, ledgerVars, ConsentsOf
  <2>6. CASE FulfilWrites(b)
    <3>1. PICK i, t : i = req[b].ask.intent /\ t = req[b].ask.transcript
      OBVIOUS
    <3>2. GenerateReceipts(i, t) /\ i = b
      BY <2>2, <2>6, <3>1, HeldAsk DEF FulfilWrites
    <3>3. files'[a] = files[a]
      BY <1>0, <3>2 DEF GenerateReceipts
    <3>4. req'[a] = req[a]
      BY <1>0, <2>6 DEF FulfilWrites, Goto
    <3>5. QED
      BY <2>1, <2>6, <3>3, <3>4 DEF FulfilWrites, OrderStays, nonceVars, ledgerVars, ConsentsOf,
                              PaymentsOf
  <2>7. QED
    BY <1>3, <2>3, <2>4, <2>5, <2>6 DEF GoesOn
<1>4. CASE Answers(b)
  <2>1. req[b] # Free
    BY <1>4, Answering
  <2>2. req[b].ask.intent = b /\ req[b].ask.key = None /\ req[b].body \in Nat
    BY <1>0, <2>1, HeldAsk, BusyShape
  <2>3. agent'[a] = agent[a]
    <3>1. agent[b].authorization \in Nat
      BY DEF AgentTypeOK
    <3>2. PICK node \in Nodes, authorization \in Nat : Ok(b, node, authorization)
      BY <1>4, <2>2, <3>1 DEF Answers, Nodes
    <3>3. QED
      BY <3>2, OkEffect
  <2>4. PICK row : UpdateFields(b, row)
    BY <1>4, <2>2 DEF Answers, SetTranscriptHash, SetAuthorization, SetFulfilled
  <2>5. intents'[a] = intents[a]
    BY <1>0, <2>4 DEF UpdateFields
  <2>6. req'[a] = req[a]
    BY <1>0, <1>4 DEF Answers, SetTranscriptHash, SetAuthorization, SetFulfilled, Respond, Leave, Goto
  <2>7. UNCHANGED <<cache, entries, payments, files, sent>>
    BY <1>4 DEF Answers, SetTranscriptHash, SetAuthorization, SetFulfilled, nonceVars, ledgerVars
  <2>8. QED
    BY <2>3, <2>5, <2>6, <2>7 DEF OrderStays, ConsentsOf, PaymentsOf
<1>5. CASE Breaks(b)
  <2>1. agent'[a] = agent[a] /\ sent' = sent
    <3>1. PICK S : Error(S) /\ a \notin S /\ sent' = sent
      BY <1>5 DEF Breaks
    <3>2. QED
      BY <3>1, ErrorEffect
  <2>2. req[b] # Free
    <3>1. ~At(b, "free")
      BY <1>5 DEF Breaks, PspDeclines, PspAnswerLost, FulfilExpired, Fail, At
    <3>2. QED
      BY <3>1 DEF At, Free
  <2>3. req'[a] = req[a]
    BY <1>0, <1>5 DEF Breaks, PspDeclines, PspAnswerLost, FulfilExpired, Fail, Leave
  <2>4. PaymentsOf(a)' = PaymentsOf(a)
    <3>1. CASE PspAnswerLost(b)
      <4>1. /\ payments' = payments \union {PaymentOf(req[b].ask, issued + 1, 0, TRUE)}
            /\ PaymentOf(req[b].ask, issued + 1, 0, TRUE).intent = b
        BY <2>2, <3>1, HeldAsk DEF PspAnswerLost, PaymentOf
      <4>2. QED
        BY <4>1 DEF PaymentsOf
    <3>2. CASE PspDeclines(b) \/ FulfilExpired(b) \/ Fail(b)
      BY <3>2 DEF PspDeclines, FulfilExpired, Fail, orderVars, PaymentsOf
    <3>3. QED
      BY <1>5, <3>1, <3>2 DEF Breaks
  <2>5. UNCHANGED <<cache, entries, intents, files>>
    BY <1>5 DEF Breaks, PspDeclines, PspAnswerLost, FulfilExpired, Fail, nonceVars, ledgerVars, orderVars
  <2>6. QED
    BY <2>1, <2>3, <2>4, <2>5 DEF OrderStays, ConsentsOf
<1>6. QED
  BY <1>1, <1>2, <1>3, <1>4, <1>5 DEF Serve

-----------------------------------------------------------------------------
(* Agents stay well-formed.                                                *)
LEMMA AgentTypeStep ==
  ASSUME GatewayInv, CheckoutInv, AgentNext
  PROVE  AgentTypeOK'
<1> USE AgentConstants DEF Agents
<1>0. /\ AgentTypeOK /\ \A a \in Agents : agent[a].authorization \in Nat
      /\ \A a \in Agents : req[a] \in Request
  BY DEF CheckoutInv, AgentTypeOK, GatewayInv, OwnTypeOK
<1>1. sent' \in [Agents -> Endpoints \union {"nothing"}]
  BY <1>0 DEF AgentTypeOK, AgentNext, AgentStep, BuildCart, PostIntents, PostConfirm, Post, Raise, Serve,
         Refused, Accepted, Arrives, GoesOn, Answers, Breaks, TimePasses, GatewayRestarts, Endpoints
<1>2. \/ agent' = agent
      \/ \E a \in Agents : AgentStep(a) \/ Raise(a)
      \/ \E S : Error(S)
      \/ \E a \in Agents : Answers(a)
  BY DEF AgentNext, Serve, Refused, Accepted, GoesOn, Breaks, TimePasses, GatewayRestarts
<1>3. ASSUME NEW a \in Agents, AgentStep(a) \/ Raise(a)
      PROVE  AgentTypeOK'
  <2>1. CASE BuildCart(a)
    <3>1. PICK node \in Nodes : agent' = [agent EXCEPT ![a].node = node]
      BY <2>1 DEF BuildCart, Nodes
    <3>2. QED
      BY <1>0, <1>1, <3>1 DEF AgentTypeOK
  <2>2. CASE PostIntents(a)
    BY <1>0, <1>1, <2>2 DEF AgentTypeOK, Nodes, PostIntents
  <2>3. CASE PostConfirm(a)
    <3>1. agent' = [agent EXCEPT ![a] = [agent[a] EXCEPT !.approved = TRUE, !.waits = TRUE]]
      BY <2>3 DEF PostConfirm, Approve
    <3> DEFINE new == [agent[a] EXCEPT !.approved = TRUE, !.waits = TRUE]
    <3>2. new \in [node : Nodes, waits : BOOLEAN, approved : BOOLEAN, authorization : Nat]
      BY <1>0 DEF AgentTypeOK
    <3> HIDE DEF new
    <3>3. agent' = [agent EXCEPT ![a] = new]
      BY <3>1 DEF new
    <3>4. QED
      BY <1>0, <1>1, <3>2, <3>3 DEF AgentTypeOK
  <2>4. ASSUME NEW endpoint, Post(a, endpoint)
        PROVE  AgentTypeOK'
    <3>1. PICK yes \in BOOLEAN : agent' = [agent EXCEPT ![a].waits = yes]
      BY <2>4 DEF Post
    <3>2. QED
      BY <1>0, <1>1, <3>1 DEF AgentTypeOK
  <2>5. CASE Raise(a)
    <3> DEFINE new == [agent[a] EXCEPT !.node = "raised", !.waits = FALSE]
    <3>1. agent' = [agent EXCEPT ![a] = new]
      BY <1>0, <2>5 DEF AgentTypeOK, Raise
    <3>2. new \in [node : Nodes, waits : BOOLEAN, approved : BOOLEAN, authorization : Nat]
      BY <1>0 DEF AgentTypeOK, Nodes
    <3> HIDE DEF new
    <3>3. QED
      BY <1>0, <1>1, <3>1, <3>2 DEF AgentTypeOK
  <2>6. QED
    BY <1>3, <2>1, <2>2, <2>3, <2>4, <2>5 DEF AgentStep
<1>4. ASSUME NEW S, Error(S)
      PROVE  AgentTypeOK'
  BY <1>0, <1>1, <1>4, ErrorEffect DEF AgentTypeOK
<1>5. ASSUME NEW a \in Agents, Answers(a)
      PROVE  AgentTypeOK'
  <2>1. req[a].body \in Nat
    BY <1>0, <1>5, BusyShape, Answering
  <2>2. PICK node \in Nodes, authorization \in Nat : Ok(a, node, authorization)
    BY <1>0, <1>5, <2>1 DEF Answers, Nodes
  <2>3. QED
    BY <1>0, <1>1, <2>2, OkEffect DEF AgentTypeOK
<1>6. QED
  BY <1>0, <1>1, <1>2, <1>3, <1>4, <1>5 DEF AgentTypeOK

(* A request ends without an answer, or with an error.                     *)
LEMMA RequestEnds ==
  ASSUME AgentTypeOK, NEW a \in Agents, CheckoutOK(a),
         sent'[a] = "nothing", req'[a] = Free,
         IF agent[a].waits
         THEN /\ agent'[a].node = "raised" /\ agent'[a].waits = FALSE
              /\ agent'[a].approved = agent[a].approved
              /\ agent'[a].authorization = agent[a].authorization
         ELSE agent'[a] = agent[a],
         \A e \in cache' : e.nonce = a => \E f \in cache : f.nonce = a,
         ConsentsOf(a)' = ConsentsOf(a),
         \/ PaymentsOf(a)' = PaymentsOf(a)
         \/ At(a, "psp") /\ AtMostOne(PaymentsOf(a)'),
         intents'[a] = intents[a], files'[a] = files[a]
  PROVE  CheckoutOK(a)'
<1> USE DEF At, Free
<1>1. At(a, "psp") => /\ sent[a] = "nothing"
                      /\ \/ agent[a].node = "authorize" /\ agent[a].waits
                         \/ agent[a].node = "raised" /\ ~agent[a].waits
  BY Held DEF Serving, Endpoints
<1>2. \A endpoint \in Endpoints : Ahead(a, endpoint)' => Ahead(a, endpoint)
  BY DEF Ahead, Earlier, Endpoints
<1>3. OneAtATime(a)'
  BY DEF OneAtATime, AgentTypeOK
<1>4. ConfirmOnce(a)'
  BY <1>2 DEF CheckoutOK, ConfirmOnce, Endpoints, AtMostOne
<1>5. AuthorizeOnce(a)'
  BY <1>1, <1>2 DEF CheckoutOK, AuthorizeOnce, Endpoints, AtMostOne, Ahead, Earlier
<1>6. FulfilOnce(a)'
  BY <1>2 DEF CheckoutOK, FulfilOnce, Endpoints
<1>7. Asks(a)'
  BY DEF CheckoutOK, Asks
<1>8. QED
  BY <1>3, <1>4, <1>5, <1>6, <1>7 DEF CheckoutOK

(* The steps of an agent.                                                  *)
LEMMA OwnAgentStep ==
  ASSUME AgentTypeOK, GatewayInv, NEW a \in Agents, CheckoutOK(a), AgentStep(a) \/ Raise(a)
  PROVE  CheckoutOK(a)'
<1> USE AgentConstants DEF Agents
<1>1. /\ sent[a] \in Endpoints \union {"nothing"} /\ sent \in [Agents -> Endpoints \union {"nothing"}]
      /\ agent[a] \in [node : Nodes, waits : BOOLEAN, approved : BOOLEAN, authorization : Nat]
      /\ intents \in [Intents -> OrderIntent]
  BY DEF AgentTypeOK, GatewayInv, OwnTypeOK
<1>2. ~agent[a].waits /\ agent[a].node # "raised" => sent[a] = "nothing" /\ req[a] = Free
  BY DEF CheckoutOK, OneAtATime
<1>3. /\ req' = req /\ cache' = cache /\ entries' = entries /\ payments' = payments
      /\ files' = files /\ intents'[a].transcript = intents[a].transcript
      /\ intents'[a].auth = intents[a].auth /\ intents'[a].fulfilled = intents[a].fulfilled
  BY <1>1 DEF AgentStep, BuildCart, PostIntents, CreateIntent, NewIntent, PostConfirm, Post, Raise, vars,
         nonceVars, ledgerVars, orderVars, OrderIntent
<1>4. ConsentsOf(a)' = ConsentsOf(a) /\ PaymentsOf(a)' = PaymentsOf(a)
  BY <1>3 DEF ConsentsOf, PaymentsOf
<1>5. CASE BuildCart(a) \/ PostIntents(a)
  <2>1. /\ sent' = sent /\ ~agent'[a].waits /\ ~agent[a].waits
        /\ agent'[a].authorization = agent[a].authorization
        /\ agent'[a].approved = agent[a].approved
        /\ agent[a].node \in {"build_cart", "create_intent"}
        /\ agent'[a].node \in {"raised", "create_intent", "confirm"}
    BY <1>1, <1>5 DEF BuildCart, PostIntents, Is, AgentTypeOK
  <2>2. QED
    BY <1>2, <1>3, <1>4, <2>1
       DEF CheckoutOK, OneAtATime, ConfirmOnce, AuthorizeOnce, FulfilOnce, Asks, Ahead, Earlier, At,
           AtMostOne, Endpoints
<1>6. CASE PostConfirm(a)
  <2>1. /\ sent'[a] = "confirm" /\ agent'[a].waits /\ ~agent[a].waits
        /\ agent'[a].approved /\ agent'[a].authorization = agent[a].authorization
        /\ agent[a].node = "confirm" /\ agent'[a].node = "confirm"
    BY <1>1, <1>6 DEF PostConfirm, Approve, Is, AgentTypeOK
  <2>2. QED
    BY <1>2, <1>3, <1>4, <2>1
       DEF CheckoutOK, OneAtATime, ConfirmOnce, AuthorizeOnce, FulfilOnce, Asks, Ahead, Earlier, At,
           AtMostOne, Endpoints
<1>7. ASSUME NEW endpoint \in {"authorize", "fulfil"}, Post(a, endpoint)
      PROVE  CheckoutOK(a)'
  <2>1. /\ sent'[a] = endpoint /\ agent'[a].waits /\ ~agent[a].waits
        /\ agent'[a].approved = agent[a].approved
        /\ agent'[a].authorization = agent[a].authorization
        /\ agent[a].node = endpoint /\ agent'[a].node = endpoint
    BY <1>1, <1>7 DEF Post, Is, AgentTypeOK
  <2>2. QED
    BY <1>2, <1>3, <1>4, <2>1
       DEF CheckoutOK, OneAtATime, ConfirmOnce, AuthorizeOnce, FulfilOnce, Asks, Ahead, Earlier, At,
           AtMostOne, Endpoints
<1>8. CASE Raise(a)
  <2>1. /\ sent' = sent /\ ~agent'[a].waits /\ agent'[a].node = "raised"
        /\ agent'[a].approved = agent[a].approved
        /\ agent'[a].authorization = agent[a].authorization
    BY <1>1, <1>8 DEF Raise, AgentTypeOK
  <2>2. OneAtATime(a)'
    <3>1. CASE sent[a] = "nothing" /\ req[a] = Free /\ ~agent[a].waits
      BY <1>3, <2>1, <3>1 DEF OneAtATime
    <3>2. ASSUME NEW endpoint \in Endpoints,
                 \/ sent[a] = endpoint /\ req[a] = Free
                 \/ /\ sent[a] = "nothing" /\ req[a].pc \in Serving(endpoint)
                    /\ req[a].ask = Asked(a, endpoint)
          PROVE  OneAtATime(a)'
      BY <1>3, <2>1, <3>2 DEF OneAtATime, Asked
    <3>3. QED
      BY <3>1, <3>2 DEF CheckoutOK, OneAtATime
  <2>3. QED
    BY <1>3, <1>4, <2>1, <2>2
       DEF CheckoutOK, ConfirmOnce, AuthorizeOnce, FulfilOnce, Asks, Ahead, Earlier, At, AtMostOne,
           Endpoints
<1>9. QED
  BY <1>5, <1>6, <1>7, <1>8 DEF AgentStep

(* The only transcripts there are those of the agents.                     *)
LEMMA RowTranscript ==
  ASSUME GatewayInv, NEW a \in Agents
  PROVE  /\ intents[a].transcript # None => intents[a].transcript = Transcript(a)
         /\ intents[a].auth # 0 => intents[a].transcript = Transcript(a)
         /\ intents[a] \in OrderIntent
         /\ Transcript(a) # None
<1> USE AgentConstants DEF Agents
<1>1. RowOK(a, intents[a], Logged, payments) /\ intents[a] \in OrderIntent
  BY DEF GatewayInv, FlowInv, OwnTypeOK
<1>2. ASSUME intents[a].transcript # None
      PROVE  intents[a].transcript = Transcript(a)
  <2>1. intents[a].transcript \in Transcripts /\ intents[a].transcript.intent = a
    BY <1>1, <1>2 DEF OrderIntent, RowOK, Given
  <2>2. PICK b \in Agents : intents[a].transcript = Transcript(b)
    BY <2>1
  <2>3. QED
    BY <2>1, <2>2 DEF Transcript
<1>3. QED
  BY <1>1, <1>2, GatewayConstants DEF RowOK

(* The gateway takes in a request that it accepts.                         *)
LEMMA OwnAccepted ==
  ASSUME AgentTypeOK, GatewayInv, NEW a \in Agents, CheckoutOK(a), Accepted(a)
  PROVE  CheckoutOK(a)'
<1> USE AgentConstants DEF Agents
<1>1. /\ sent \in [Agents -> Endpoints \union {"nothing"}] /\ req \in [Slots -> Request]
      /\ agent[a] \in [node : Nodes, waits : BOOLEAN, approved : BOOLEAN, authorization : Nat]
      /\ intents \in [Intents -> OrderIntent] /\ files \in [Intents -> Seq(Transcripts)]
  BY DEF AgentTypeOK, GatewayInv, OwnTypeOK
<1>2. /\ agent' = agent /\ sent'[a] = "nothing" /\ req[a] = Free /\ sent[a] \in Endpoints
      /\ entries' = entries /\ payments' = payments /\ intents' = intents
  BY <1>1 DEF Accepted, Arrives, ConfirmSigned, AuthorizeAllowed, FulfilGets, ledgerVars, orderVars,
              Endpoints
<1>3. ConsentsOf(a)' = ConsentsOf(a) /\ PaymentsOf(a)' = PaymentsOf(a)
  BY <1>2 DEF ConsentsOf, PaymentsOf
<1>4. \/ agent[a].node = sent[a] /\ agent[a].waits
      \/ agent[a].node = "raised" /\ ~agent[a].waits
  BY <1>2 DEF CheckoutOK, OneAtATime, Endpoints, Serving, Free
<1>5. Asks(a)'
  BY <1>2, <1>3 DEF CheckoutOK, Asks, Endpoints
<1>6. CASE sent[a] = "confirm" /\ ConfirmSigned(a) /\ req'[a].ask = Asked(a, "confirm")
  <2>1. req'[a].pc = "append" /\ files' = files
    BY <1>1, <1>6 DEF ConfirmSigned, Goto, orderVars
  <2>2. OneAtATime(a)'
    BY <1>2, <1>4, <1>6, <2>1 DEF OneAtATime, Serving, Endpoints, Asked
  <2>3. ConfirmOnce(a)' /\ AuthorizeOnce(a)' /\ FulfilOnce(a)'
    BY <1>2, <1>3, <1>4, <1>6, <2>1
       DEF CheckoutOK, ConfirmOnce, AuthorizeOnce, FulfilOnce, Ahead, Earlier, At, AtMostOne, Endpoints
  <2>4. QED
    BY <1>5, <2>2, <2>3 DEF CheckoutOK
<1>7. CASE sent[a] = "authorize" /\ AuthorizeAllowed(a) /\ req'[a].ask = Asked(a, "authorize")
  <2>1. req'[a].pc = "psp" /\ files' = files /\ cache' = cache
    BY <1>1, <1>7 DEF AuthorizeAllowed, Goto, orderVars, nonceVars
  <2>2. OneAtATime(a)'
    BY <1>2, <1>4, <1>7, <2>1 DEF OneAtATime, Serving, Endpoints, Asked
  <2>3. ConfirmOnce(a)' /\ AuthorizeOnce(a)' /\ FulfilOnce(a)'
    BY <1>2, <1>3, <1>4, <1>7, <2>1
       DEF CheckoutOK, ConfirmOnce, AuthorizeOnce, FulfilOnce, Ahead, Earlier, At, AtMostOne, Endpoints
  <2>4. QED
    BY <1>5, <2>2, <2>3 DEF CheckoutOK
<1>8. CASE sent[a] = "fulfil" /\ FulfilGets(a) /\ req'[a].ask.intent = a
  <2>1. PICK i \in Intents, n \in 1 .. issued :
          /\ Fulfillable(i, n)
          /\ req' = [req EXCEPT ![a] =
               [pc |-> "receipts",
                ask |-> [endpoint |-> "fulfil", key |-> None, intent |-> i,
                         transcript |-> intents[i].transcript, rest |-> None],
                body |-> n]]
    BY <1>8 DEF FulfilGets, Goto
  <2>2. i = a
    BY <1>1, <1>8, <2>1
  <2>3. intents[a].transcript = Transcript(a)
    <3>1. intents[a].auth # 0
      BY <2>1, <2>2 DEF Fulfillable, GatewayInv, OwnTypeOK
    <3>2. QED
      BY <3>1, RowTranscript
  <2>4. req'[a].pc = "receipts" /\ req'[a].ask = Asked(a, "fulfil")
    BY <1>1, <2>1, <2>2, <2>3 DEF Asked
  <2>5. files' = files /\ cache' = cache
    BY <1>8 DEF FulfilGets, nonceVars, orderVars
  <2>6. OneAtATime(a)'
    BY <1>2, <1>4, <1>8, <2>4 DEF OneAtATime, Serving, Endpoints, Asked
  <2>7. ConfirmOnce(a)' /\ AuthorizeOnce(a)' /\ FulfilOnce(a)'
    BY <1>2, <1>3, <1>4, <1>8, <2>4, <2>5
       DEF CheckoutOK, ConfirmOnce, AuthorizeOnce, FulfilOnce, Ahead, Earlier, At, AtMostOne, Endpoints
  <2>8. QED
    BY <1>5, <2>6, <2>7 DEF CheckoutOK
<1>9. QED
  BY <1>6, <1>7, <1>8 DEF Accepted, Arrives

(* The handler goes on: the entry is committed, the PSP answers.           *)
LEMMA OwnGoesOn ==
  ASSUME AgentTypeOK, GatewayInv, NEW a \in Agents, CheckoutOK(a), GoesOn(a)
  PROVE  CheckoutOK(a)'
<1> USE AgentConstants DEF Agents
<1>1. req \in [Slots -> Request] /\ issued \in Nat
  BY DEF GatewayInv, OwnTypeOK
<1>2. agent' = agent /\ sent' = sent
  BY DEF GoesOn
<1>3. CASE AppendSelect(a) \/ AppendFlush(a)
  <2>1. OrderStays(a) /\ req' = req
    BY <1>3 DEF AppendSelect, AppendFlush, Ledger!SelectLatest, Ledger!Flush, OrderStays,
                nonceVars, orderVars, ConsentsOf, PaymentsOf
  <2>2. QED
    BY <1>2, <2>1, AgentKept
<1>4. CASE AppendCommit(a)
  <2>1. /\ At(a, "append") /\ req'[a].pc = "set_hash" /\ req'[a].ask = req[a].ask
        /\ append[a].step = "commit" /\ entries' = entries \union {append[a].row}
        /\ cache' = cache /\ intents' = intents /\ payments' = payments /\ files' = files
    BY <1>1, <1>4 DEF AppendCommit, Ledger!Commit, Goto, nonceVars, orderVars
  <2>2. /\ sent[a] = "nothing" /\ req[a].ask = Asked(a, "confirm")
        /\ \/ agent[a].node = "confirm" /\ agent[a].waits
           \/ agent[a].node = "raised" /\ ~agent[a].waits
    BY <2>1, Held DEF At, Free, Serving, Endpoints
  <2>3. ConsentsOf(a)' \subseteq {append[a].row} /\ PaymentsOf(a)' = PaymentsOf(a)
    BY <2>1 DEF CheckoutOK, ConfirmOnce, ConsentsOf, PaymentsOf
  <2>4. OneAtATime(a)'
    BY <1>2, <2>1, <2>2 DEF OneAtATime, Serving, Endpoints, Asked
  <2>5. ConfirmOnce(a)' /\ AuthorizeOnce(a)' /\ FulfilOnce(a)'
    BY <1>2, <2>1, <2>2, <2>3
       DEF CheckoutOK, ConfirmOnce, AuthorizeOnce, FulfilOnce, Ahead, Earlier, At, AtMostOne, Endpoints
  <2>6. Asks(a)'
    BY <1>2, <2>1 DEF CheckoutOK, Asks, At, Free
  <2>7. QED
    BY <2>4, <2>5, <2>6 DEF CheckoutOK
<1>5. CASE PspConfirms(a)
  <2>1. /\ At(a, "psp") /\ req'[a].pc = "set_auth" /\ req'[a].ask = req[a].ask
        /\ req'[a].body = issued + 1
        /\ cache' = cache /\ intents' = intents /\ entries' = entries /\ files' = files
    BY <1>1, <1>5 DEF PspConfirms, Goto, nonceVars, ledgerVars
  <2>2. PICK captured \in BOOLEAN :
          payments' = payments \union {PaymentOf(req[a].ask, issued + 1, issued + 1, captured)}
    BY <1>5 DEF PspConfirms
  <2>3. /\ sent[a] = "nothing" /\ req[a].ask = Asked(a, "authorize")
        /\ \/ agent[a].node = "authorize" /\ agent[a].waits
           \/ agent[a].node = "raised" /\ ~agent[a].waits
    BY <2>1, Held DEF At, Free, Serving, Endpoints
  <2>4. /\ ConsentsOf(a)' = ConsentsOf(a)
        /\ PaymentsOf(a)' \subseteq {PaymentOf(req[a].ask, issued + 1, issued + 1, captured)}
    <3>1. PaymentsOf(a) = {}
      BY <2>1 DEF CheckoutOK, AuthorizeOnce
    <3>2. QED
      BY <2>1, <2>2, <3>1 DEF ConsentsOf, PaymentsOf
  <2>5. OneAtATime(a)'
    BY <1>2, <2>1, <2>3 DEF OneAtATime, Serving, Endpoints, Asked
  <2>6. ConfirmOnce(a)' /\ AuthorizeOnce(a)' /\ FulfilOnce(a)'
    BY <1>1, <1>2, <2>1, <2>3, <2>4
       DEF CheckoutOK, ConfirmOnce, AuthorizeOnce, FulfilOnce, Ahead, Earlier, At, AtMostOne, Endpoints
  <2>7. Asks(a)'
    BY <1>2, <2>1 DEF CheckoutOK, Asks, At, Free
  <2>8. QED
    BY <2>5, <2>6, <2>7 DEF CheckoutOK
<1>6. CASE FulfilWrites(a)
  <2>1. PICK i, t : i = req[a].ask.intent /\ t = req[a].ask.transcript
    OBVIOUS
  <2>2. /\ At(a, "receipts") /\ GenerateReceipts(i, t)
        /\ req'[a].pc = "set_fulfilled" /\ req'[a].ask = req[a].ask
        /\ cache' = cache /\ intents' = intents /\ entries' = entries /\ payments' = payments
    BY <1>1, <1>6, <2>1 DEF FulfilWrites, Goto, nonceVars, ledgerVars
  <2>3. /\ sent[a] = "nothing" /\ req[a].ask = Asked(a, "fulfil")
        /\ \/ agent[a].node = "fulfil" /\ agent[a].waits
           \/ agent[a].node = "raised" /\ ~agent[a].waits
    BY <2>2, Held DEF At, Free, Serving, Endpoints
  <2>4. i = a /\ t = Transcript(a)
    BY <2>1, <2>3 DEF Asked
  <2>5. files'[a] = <<Transcript(a)>>
    <3>1. files[a] = << >> /\ files \in [Intents -> Seq(Transcripts)]
      BY <2>2 DEF CheckoutOK, FulfilOnce, GatewayInv, OwnTypeOK
    <3>2. files'[a] = Append(files[a], Transcript(a))
      BY <2>2, <2>4, <3>1 DEF GenerateReceipts
    <3>3. Append(<< >>, Transcript(a)) = <<Transcript(a)>>
      OBVIOUS
    <3>4. QED
      BY <3>1, <3>2, <3>3
  <2>6. ConsentsOf(a)' = ConsentsOf(a) /\ PaymentsOf(a)' = PaymentsOf(a)
    BY <2>2 DEF ConsentsOf, PaymentsOf
  <2>7. OneAtATime(a)'
    BY <1>2, <2>2, <2>3 DEF OneAtATime, Serving, Endpoints, Asked
  <2>8. ConfirmOnce(a)' /\ AuthorizeOnce(a)' /\ FulfilOnce(a)'
    BY <1>2, <2>2, <2>3, <2>5, <2>6
       DEF CheckoutOK, ConfirmOnce, AuthorizeOnce, FulfilOnce, Ahead, Earlier, At, AtMostOne, Endpoints
  <2>9. Asks(a)'
    BY <1>2, <2>2, <2>6 DEF CheckoutOK, Asks, At, Free
  <2>10. QED
    BY <2>7, <2>8, <2>9 DEF CheckoutOK
<1>7. QED
  BY <1>3, <1>4, <1>5, <1>6 DEF GoesOn

(* The handler answers 200.                                                *)
LEMMA OwnAnswers ==
  ASSUME AgentTypeOK, GatewayInv, NEW a \in Agents, CheckoutOK(a), Answers(a)
  PROVE  CheckoutOK(a)'
<1> USE AgentConstants DEF Agents
<1>1. /\ req \in [Slots -> Request] /\ intents \in [Intents -> OrderIntent]
      /\ agent[a] \in [node : Nodes, waits : BOOLEAN, approved : BOOLEAN, authorization : Nat]
      /\ sent' = sent /\ cache' = cache /\ entries' = entries /\ payments' = payments /\ files' = files
  BY DEF GatewayInv, OwnTypeOK, AgentTypeOK, Answers, SetTranscriptHash, SetAuthorization, SetFulfilled,
         nonceVars, ledgerVars
<1>2. req[a] # Free
  BY Answering
<1>3. /\ sent[a] = "nothing" /\ req[a].ask.intent = a /\ req[a].ask.transcript = Transcript(a)
      /\ req[a].ask.key = None /\ req[a].body \in Nat
  <2>1. PICK endpoint \in Endpoints : sent[a] = "nothing" /\ req[a].ask = Asked(a, endpoint)
    BY <1>2, Held
  <2>2. req[a].body \in Nat
    BY <1>1, <1>2, BusyShape
  <2>3. QED
    BY <2>1, <2>2 DEF Asked
<1>4. req'[a] = Free
  BY <1>1, <1>3 DEF Answers, SetTranscriptHash, SetAuthorization, SetFulfilled, Respond, Leave
<1>5. ConsentsOf(a)' = ConsentsOf(a) /\ PaymentsOf(a)' = PaymentsOf(a)
  BY <1>1 DEF ConsentsOf, PaymentsOf
<1>6. agent[a].approved
  BY <1>1, <1>2 DEF CheckoutOK, Asks
<1>7. ASSUME NEW node \in Nodes, NEW authorization \in Nat, Ok(a, node, authorization)
      PROVE  IF agent[a].waits
             THEN /\ agent'[a].node = node /\ agent'[a].waits = FALSE
                  /\ agent'[a].approved = agent[a].approved
                  /\ agent'[a].authorization = authorization
             ELSE agent'[a] = agent[a]
  BY <1>7, OkEffect
<1>8. CASE SetTranscriptHash(a) /\ Ok(a, "authorize", 0)
  <2>1. /\ At(a, "set_hash") /\ intents'[a].transcript = Transcript(a)
        /\ intents'[a].auth = intents[a].auth /\ intents'[a].fulfilled = intents[a].fulfilled
    BY <1>1, <1>3, <1>8 DEF SetTranscriptHash, UpdateFields, OrderIntent
  <2>2. \/ agent[a].node = "confirm" /\ agent[a].waits
        \/ agent[a].node = "raised" /\ ~agent[a].waits
    BY <1>2, <2>1, Held DEF At, Free, Serving, Endpoints
  <2>3. \/ agent'[a].node = "authorize" /\ ~agent'[a].waits /\ agent'[a].approved /\ agent[a].node = "confirm"
        \/ agent'[a] = agent[a] /\ agent[a].node = "raised" /\ ~agent[a].waits
    BY <1>6, <1>7, <1>8, <2>2 DEF Nodes
  <2>4. Transcript(a) # None
    BY RowTranscript
  <2>5. QED
    BY <1>1, <1>3, <1>4, <1>5, <1>6, <2>1, <2>3, <2>4
       DEF CheckoutOK, OneAtATime, ConfirmOnce, AuthorizeOnce, FulfilOnce, Asks, Ahead, Earlier, At,
           AtMostOne, Endpoints, Free
<1>9. CASE SetAuthorization(a) /\ Ok(a, "fulfil", req[a].body)
  <2>1. /\ At(a, "set_auth") /\ intents'[a].transcript = intents[a].transcript
        /\ intents'[a].auth = req[a].body /\ intents'[a].fulfilled = intents[a].fulfilled
    BY <1>1, <1>3, <1>9 DEF SetAuthorization, UpdateFields, OrderIntent
  <2>2. \/ agent[a].node = "authorize" /\ agent[a].waits
        \/ agent[a].node = "raised" /\ ~agent[a].waits
    BY <1>2, <2>1, Held DEF At, Free, Serving, Endpoints
  <2>3. \/ /\ agent'[a].node = "fulfil" /\ ~agent'[a].waits /\ agent'[a].approved
           /\ agent[a].node = "authorize" /\ agent'[a].authorization = req[a].body
        \/ agent'[a] = agent[a] /\ agent[a].node = "raised" /\ ~agent[a].waits
    BY <1>3, <1>6, <1>7, <1>9, <2>2 DEF Nodes
  <2>4. QED
    BY <1>1, <1>3, <1>4, <1>5, <1>6, <2>1, <2>3
       DEF CheckoutOK, OneAtATime, ConfirmOnce, AuthorizeOnce, FulfilOnce, Asks, Ahead, Earlier, At,
           AtMostOne, Endpoints, Free
<1>10. CASE SetFulfilled(a) /\ Ok(a, "end", agent[a].authorization)
  <2>1. /\ At(a, "set_fulfilled") /\ intents'[a].transcript = intents[a].transcript
        /\ intents'[a].auth = intents[a].auth /\ intents'[a].fulfilled = TRUE
    BY <1>1, <1>3, <1>10 DEF SetFulfilled, UpdateFields, OrderIntent
  <2>2. \/ agent[a].node = "fulfil" /\ agent[a].waits
        \/ agent[a].node = "raised" /\ ~agent[a].waits
    BY <1>2, <2>1, Held DEF At, Free, Serving, Endpoints
  <2>3. \/ /\ agent'[a].node = "end" /\ ~agent'[a].waits /\ agent'[a].approved
           /\ agent[a].node = "fulfil" /\ agent'[a].authorization = agent[a].authorization
        \/ agent'[a] = agent[a] /\ agent[a].node = "raised" /\ ~agent[a].waits
    <3>1. agent[a].authorization \in Nat
      BY <1>1
    <3>2. QED
      BY <1>6, <1>7, <1>10, <2>2, <3>1 DEF Nodes
  <2>4. QED
    BY <1>1, <1>3, <1>4, <1>5, <1>6, <2>1, <2>3
       DEF CheckoutOK, OneAtATime, ConfirmOnce, AuthorizeOnce, FulfilOnce, Asks, Ahead, Earlier, At,
           AtMostOne, Endpoints, Free
<1>11. QED
  BY <1>8, <1>9, <1>10 DEF Answers

(* The gateway refuses a request, or its handler ends with an error.       *)
LEMMA OwnEnds ==
  ASSUME AgentTypeOK, GatewayInv, NEW a \in Agents, CheckoutOK(a), Refused(a) \/ Breaks(a)
  PROVE  CheckoutOK(a)'
<1> USE AgentConstants DEF Agents
<1>1. /\ req \in [Slots -> Request] /\ sent \in [Agents -> Endpoints \union {"nothing"}]
      /\ cache' = cache /\ entries' = entries /\ intents' = intents /\ files' = files
  BY DEF GatewayInv, OwnTypeOK, AgentTypeOK, Refused, Breaks, PspDeclines, PspAnswerLost, FulfilExpired, Fail, vars,
         nonceVars, ledgerVars, orderVars
<1>2. IF agent[a].waits
      THEN /\ agent'[a].node = "raised" /\ agent'[a].waits = FALSE
           /\ agent'[a].approved = agent[a].approved
           /\ agent'[a].authorization = agent[a].authorization
      ELSE agent'[a] = agent[a]
  <2>1. PICK S : Error(S) /\ a \in S
    BY DEF Refused, Breaks
  <2>2. QED
    BY <2>1, ErrorEffect
<1>3. ConsentsOf(a)' = ConsentsOf(a)
  BY <1>1 DEF ConsentsOf
<1>4. CASE Refused(a)
  <2>1. sent'[a] = "nothing" /\ req'[a] = Free /\ payments' = payments
    BY <1>1, <1>4 DEF Refused, Arrives, vars, orderVars
  <2>2. PaymentsOf(a)' = PaymentsOf(a)
    BY <2>1 DEF PaymentsOf
  <2>3. QED
    BY <1>1, <1>2, <1>3, <2>1, <2>2, RequestEnds
<1>5. CASE Breaks(a)
  <2>1. ~At(a, "free") /\ req'[a] = Free /\ sent' = sent
    BY <1>1, <1>5 DEF Breaks, PspDeclines, PspAnswerLost, FulfilExpired, Fail, Leave, At
  <2>2. sent'[a] = "nothing"
    BY <2>1, Held DEF At, Free
  <2>3. \/ PaymentsOf(a)' = PaymentsOf(a)
        \/ At(a, "psp") /\ AtMostOne(PaymentsOf(a)')
    <3>1. CASE PspAnswerLost(a)
      <4>1. /\ At(a, "psp")
            /\ payments' = payments \union {PaymentOf(req[a].ask, issued + 1, 0, TRUE)}
        BY <3>1 DEF PspAnswerLost
      <4>2. PaymentsOf(a) = {}
        BY <4>1 DEF CheckoutOK, AuthorizeOnce
      <4>3. PaymentsOf(a)' \subseteq {PaymentOf(req[a].ask, issued + 1, 0, TRUE)}
        BY <4>1, <4>2 DEF PaymentsOf
      <4>4. QED
        BY <4>1, <4>3 DEF AtMostOne
    <3>2. CASE PspDeclines(a) \/ FulfilExpired(a) \/ Fail(a)
      BY <3>2 DEF PspDeclines, FulfilExpired, Fail, orderVars, PaymentsOf
    <3>3. QED
      BY <1>5, <3>1, <3>2 DEF Breaks
  <2>4. QED
    BY <1>1, <1>2, <1>3, <2>1, <2>2, <2>3, RequestEnds
<1>6. QED
  BY <1>4, <1>5

LEMMA CheckoutStep ==
  ASSUME GatewayInv, CheckoutInv, [AgentNext]_agentVars
  PROVE  CheckoutInv'
<1> USE AgentConstants DEF Agents
<1>0. AgentTypeOK /\ \A a \in Agents : CheckoutOK(a)
  BY DEF CheckoutInv
<1>1. CASE UNCHANGED agentVars
  <2>1. \A a \in Agents : OrderStays(a)
    BY <1>1 DEF agentVars, vars, nonceVars, ledgerVars, orderVars, OrderStays, ConsentsOf, PaymentsOf
  <2>2. \A a \in Agents : CheckoutOK(a)'
    BY <1>0, <1>1, <2>1, AgentKept DEF agentVars, vars
  <2>3. AgentTypeOK'
    BY <1>0, <1>1 DEF AgentTypeOK, agentVars
  <2>4. QED
    BY <2>2, <2>3 DEF CheckoutInv
<1>2. ASSUME NEW b \in Agents, AgentStep(b) \/ Raise(b), NEW a \in Agents
      PROVE  CheckoutOK(a)'
  <2>1. CASE a = b
    BY <1>0, <1>2, <2>1, OwnAgentStep
  <2>2. CASE a # b
    <3>1. /\ req' = req /\ cache' = cache /\ entries' = entries /\ payments' = payments
          /\ files' = files /\ intents'[a] = intents[a] /\ sent'[a] = sent[a] /\ agent'[a] = agent[a]
      BY <1>0, <1>2, <2>2 DEF AgentTypeOK, GatewayInv, OwnTypeOK, AgentStep, BuildCart, PostIntents,
           CreateIntent, PostConfirm, Approve, Post, Raise, vars, nonceVars, ledgerVars, orderVars
    <3>2. OrderStays(a)
      BY <3>1 DEF OrderStays, ConsentsOf, PaymentsOf
    <3>3. QED
      BY <1>0, <3>1, <3>2, AgentKept
  <2>3. QED
    BY <2>1, <2>2
<1>3. ASSUME NEW b \in Agents, Serve(b), NEW a \in Agents
      PROVE  CheckoutOK(a)'
  <2>1. CASE a = b
    BY <1>0, <1>3, <2>1, OwnAccepted, OwnGoesOn, OwnAnswers, OwnEnds DEF Serve
  <2>2. CASE a # b
    BY <1>0, <1>3, <2>2, ServeIsOwn, AgentKept
  <2>3. QED
    BY <2>1, <2>2
<1>4. ASSUME TimePasses, NEW a \in Agents
      PROVE  CheckoutOK(a)'
  <2>1. OrderStays(a) /\ req' = req /\ agent' = agent /\ sent' = sent
    BY <1>4 DEF TimePasses, Tick, Nonce!Tick, ledgerVars, orderVars, OrderStays, ConsentsOf, PaymentsOf
  <2>2. QED
    BY <1>0, <2>1, AgentKept
<1>5. ASSUME GatewayRestarts, NEW a \in Agents
      PROVE  CheckoutOK(a)'
  <2>1. /\ sent'[a] = "nothing" /\ req'[a] = Free /\ cache' = {} /\ entries' = entries
        /\ payments' = payments /\ intents' = intents /\ files' = files
    BY <1>5 DEF GatewayRestarts, Restart, Nonce!Restart, Ledger!Crash, orderVars
  <2>2. ConsentsOf(a)' = ConsentsOf(a) /\ PaymentsOf(a)' = PaymentsOf(a)
    BY <2>1 DEF ConsentsOf, PaymentsOf
  <2>3. IF agent[a].waits
        THEN /\ agent'[a].node = "raised" /\ agent'[a].waits = FALSE
             /\ agent'[a].approved = agent[a].approved
             /\ agent'[a].authorization = agent[a].authorization
        ELSE agent'[a] = agent[a]
    <3>1. PICK S : Error(S) /\ a \in S
      BY <1>5 DEF GatewayRestarts
    <3>2. QED
      BY <1>0, <3>1, ErrorEffect
  <2>4. QED
    BY <1>0, <2>1, <2>2, <2>3, RequestEnds
<1>6. CASE AgentNext
  <2>1. AgentTypeOK'
    BY <1>6, AgentTypeStep
  <2>2. \A a \in Agents : CheckoutOK(a)'
    BY <1>2, <1>3, <1>4, <1>5, <1>6 DEF AgentNext
  <2>3. QED
    BY <2>1, <2>2 DEF CheckoutInv
<1>7. QED
  BY <1>1, <1>6

LEMMA CheckoutInvariance == AgentSpec => [](GatewayInv /\ CheckoutInv)
<1>1. AgentSpec => []GatewayInv
  BY AgentsUseTheGateway, GatewayInvariance
<1>2. GatewayInv /\ CheckoutInv /\ [AgentNext]_agentVars => CheckoutInv'
  BY CheckoutStep
<1>3. QED
  BY InitCheckout, <1>1, <1>2, PTL DEF AgentSpec

-----------------------------------------------------------------------------
(* The agents are always at one of their nodes, with one request at most.  *)
THEOREM AgentTypeCorrect == AgentSpec => []AgentTypeOK
<1>1. CheckoutInv => AgentTypeOK
  BY DEF CheckoutInv
<1>2. QED
  BY CheckoutInvariance, <1>1, PTL

(* The gateway accepts the next request of an agent that it answered 200,  *)
(* if the intent is still open: whatever else it serves, forgets, fails at *)
(* or restarts from, for any lifetime and size of the nonce cache.         *)
THEOREM AnswersAreHonoured == AgentSpec => []ToldIsHonoured
<1> USE AgentConstants DEF Agents
<1>1. ASSUME GatewayInv, CheckoutInv
      PROVE  ToldIsHonoured
  <2>1. SUFFICES ASSUME NEW a \in Agents, agent[a].node \in Endpoints,
                        ~agent[a].waits \/ sent[a] = agent[a].node, Open(a)
                 PROVE  Accepts(a, agent[a].node)
    BY DEF ToldIsHonoured
  <2>2. CheckoutOK(a) /\ Ahead(a, agent[a].node)
    BY <1>1, <2>1 DEF CheckoutInv, Ahead
  <2>3. CASE agent[a].node = "confirm"
    <3>1. ~Nonce!Seen(a)
      BY <2>2, <2>3 DEF CheckoutOK, ConfirmOnce, Nonce!Seen, Nonce!Live
    <3>2. Matches(Asked(a, "confirm"))
      BY <2>1 DEF Matches, Asked, Transcript
    <3>3. QED
      BY <2>3, <3>1, <3>2 DEF Accepts
  <2>4. CASE agent[a].node = "authorize"
    <3>1. intents[a].transcript = Transcript(a)
      BY <1>1, <2>2, <2>4, RowTranscript DEF CheckoutOK, ConfirmOnce
    <3>2. Policy[a] # "DENY"
      BY DEF EvaluatePolicy, RiskSignals
    <3>3. QED
      BY <2>1, <2>4, <3>1, <3>2 DEF Accepts, Authorizable, Asked
  <2>5. CASE agent[a].node = "fulfil"
    <3>1. intents[a].auth = agent[a].authorization /\ ~intents[a].fulfilled
      BY <2>2, <2>5 DEF CheckoutOK, AuthorizeOnce, FulfilOnce
    <3>2. QED
      BY <2>1, <2>5, <3>1 DEF Accepts, Fulfillable
  <2>6. QED
    BY <2>1, <2>3, <2>4, <2>5 DEF Endpoints
<1>2. QED
  BY CheckoutInvariance, <1>1, PTL

(* A graph that ran to its end has its consent in the ledger, its payment  *)
(* and one set of receipts that shows it.                                  *)
THEOREM EndsAreDone == AgentSpec => []EndMeansDone
<1> USE AgentConstants DEF Agents
<1>1. ASSUME GatewayInv, CheckoutInv
      PROVE  EndMeansDone
  <2>1. SUFFICES ASSUME NEW a \in Agents, agent[a].node = "end"
                 PROVE  /\ Transcript(a) \in Logged
                        /\ intents[a].auth = agent[a].authorization
                        /\ \E c \in payments : /\ c.transcript = Transcript(a)
                                               /\ c.auth = agent[a].authorization
                        /\ files[a] = <<Transcript(a)>>
                        /\ intents[a].fulfilled
    BY DEF EndMeansDone
  <2>2. /\ intents[a].auth = agent[a].authorization /\ intents[a].auth # 0
        /\ files[a] = <<Transcript(a)>> /\ intents[a].fulfilled
    BY <1>1, <2>1 DEF CheckoutInv, CheckoutOK, AuthorizeOnce, FulfilOnce
  <2>3. intents[a].transcript = Transcript(a) /\ Transcript(a) # None
    BY <1>1, <2>2, RowTranscript
  <2>4. RowOK(a, intents[a], Logged, payments)
    BY <1>1 DEF GatewayInv, FlowInv
  <2>5. PICK c \in payments : c.intent = a /\ c.auth = intents[a].auth
    BY <2>2, <2>4 DEF RowOK
  <2>6. c.transcript = Transcript(a)
    <3>1. c.transcript \in Transcripts /\ c.transcript.intent = a
      BY <1>1, <2>5 DEF GatewayInv, FlowInv, OwnTypeOK, PaymentOK, Payment, Given
    <3>2. PICK b \in Agents : c.transcript = Transcript(b)
      BY <3>1
    <3>3. QED
      BY <3>1, <3>2 DEF Transcript
  <2>7. QED
    BY <2>2, <2>3, <2>4, <2>5, <2>6 DEF RowOK
<1>2. QED
  BY CheckoutInvariance, <1>1, PTL

LEMMA CardinalityOne ==
  ASSUME NEW S, AtMostOne(S)
  PROVE  Cardinality(S) <= 1
<1>1. CASE S = {}
  BY <1>1, FS_EmptySet
<1>2. ASSUME NEW x \in S
      PROVE  Cardinality(S) <= 1
  <2>1. S = {x}
    BY <1>2 DEF AtMostOne
  <2>2. Cardinality(S) = 1
    BY <2>1, FS_Singleton
  <2>3. QED
    BY <2>2
<1>3. QED
  BY <1>1, <1>2

(* One consent, one payment and one set of receipts for an agent's order,  *)
(* whatever fails, restarts, is evicted or comes too late.                 *)
THEOREM ChargedAtMostOnce == AgentSpec => []ChargedOnce
<1>1. ASSUME CheckoutInv
      PROVE  ChargedOnce
  <2>1. SUFFICES ASSUME NEW a \in Agents
                 PROVE  /\ Cardinality(ConsentsOf(a)) <= 1
                        /\ Cardinality(PaymentsOf(a)) <= 1
                        /\ Len(files[a]) <= 1
    BY DEF ChargedOnce, ConsentsOf, PaymentsOf
  <2>2. CheckoutOK(a)
    BY <1>1 DEF CheckoutInv
  <2>3. Cardinality(ConsentsOf(a)) <= 1 /\ Cardinality(PaymentsOf(a)) <= 1
    <3>1. AtMostOne(ConsentsOf(a)) /\ AtMostOne(PaymentsOf(a))
      BY <2>2 DEF CheckoutOK, ConfirmOnce, AuthorizeOnce
    <3>2. QED
      BY <3>1, CardinalityOne
  <2>4. Len(files[a]) <= 1
    <3>1. files[a] = << >> \/ files[a] = <<Transcript(a)>>
      BY <2>2 DEF CheckoutOK, FulfilOnce
    <3>2. Len(<< >>) <= 1 /\ Len(<<Transcript(a)>>) <= 1
      OBVIOUS
    <3>3. QED
      BY <3>1, <3>2
  <2>5. QED
    BY <2>3, <2>4
<1>2. QED
  BY CheckoutInvariance, <1>1, PTL

(* Only what the operator approved is paid for, and a cent less at most.   *)
THEOREM ChargesAreApproved == AgentSpec => []ChargedAsApproved
<1> USE AgentConstants DEF Agents
<1>1. ASSUME GatewayInv, CheckoutInv
      PROVE  ChargedAsApproved
  <2>1. SUFFICES ASSUME NEW c \in payments
                 PROVE  /\ agent[c.intent].approved
                        /\ Charge[c.intent] \in {Price[c.intent], Price[c.intent] - 1}
    BY DEF ChargedAsApproved
  <2>2. PICK a \in Agents : a = c.intent
    BY <1>1 DEF GatewayInv, OwnTypeOK, Payment
  <2>3. agent[a].approved
    <3>1. CheckoutOK(a) /\ PaymentsOf(a) # {}
      BY <1>1, <2>2 DEF CheckoutInv, PaymentsOf
    <3>2. QED
      BY <3>1 DEF CheckoutOK, Asks
  <2>4. QED
    BY <2>2, <2>3 DEF Charge, AmountCents
<1>2. QED
  BY CheckoutInvariance, <1>1, PTL

-----------------------------------------------------------------------------
(* An agent asks for its own order, and once: so its consent is the only   *)
(* one of its order.                                                       *)
LEMMA OwnOrdersOnly ==
  ASSUME GatewayInv, CheckoutInv
  PROVE  OnlyConsents
<1> USE AgentConstants DEF Agents
<1>1. \A a \in Agents : AtMostOne(ConsentsOf(a))
  BY DEF CheckoutInv, CheckoutOK, ConfirmOnce
<1>2. ASSUME NEW e \in entries, NEW f \in entries, e.content.intent = f.content.intent
      PROVE  e = f
  <2>1. e.content \in Transcripts
    BY DEF GatewayInv, LP!LinkInv, LP!LedgerTypeOK, LP!Entry
  <2>2. e.content.intent \in Agents
    BY <2>1 DEF Transcript
  <2>3. QED
    BY <1>1, <1>2, <2>2 DEF AtMostOne, ConsentsOf
<1>3. ASSUME NEW i \in Intents, NEW r \in Slots, Claims(r, i)
      PROVE  ~Recorded(i)
  <2>1. At(r, "append") /\ req[r].ask.intent = i
    BY <1>3 DEF Claims
  <2>2. CheckoutOK(r)
    BY DEF CheckoutInv
  <2>3. \E endpoint \in Endpoints : req[r].ask = Asked(r, endpoint)
    BY <2>1, <2>2 DEF CheckoutOK, OneAtATime, At, Free
  <2>4. r = i
    BY <2>1, <2>3 DEF Asked
  <2>5. ConsentsOf(i) = {}
    BY <2>1, <2>2, <2>4 DEF CheckoutOK, ConfirmOnce
  <2>6. QED
    BY <2>5 DEF ConsentsOf, Recorded
<1>4. QED
  BY <1>2, <1>3 DEF OnlyConsents

(* The agents' orders live as they should, consent once, then payment,     *)
(* then receipts of that consent, without any premise: however the gateway *)
(* fails, restarts and forgets nonces.                                     *)
THEOREM AgentsCheckOutInOrder == AgentSpec => LifecycleImplemented
<1>1. GatewayInv /\ CheckoutInv => OnlyConsents
  BY OwnOrdersOnly
<1>2. QED
  BY <1>1, CheckoutInvariance, AgentsUseTheGateway, LifecycleFollows, PTL

(* And if the PSP captures what it confirms, their receipts show what was  *)
(* paid for, without a premise on the nonces.                              *)
THEOREM AgentsReceiptsShowThePayment ==
  ASSUME ~MayDefer
  PROVE  AgentSpec => []ReceiptShowsPayment
<1>1. GatewayInv /\ CheckoutInv => OnlyConsents
  BY OwnOrdersOnly
<1>2. QED
  BY <1>1, CheckoutInvariance, AgentsUseTheGateway, ReceiptsFollow, PTL
=============================================================================
