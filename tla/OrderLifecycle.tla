--------------------------- MODULE OrderLifecycle ---------------------------
(***************************************************************************)
(* What the gateway promises of an order, without requests, databases or   *)
(* time: the customer consents to it once, it is paid for after that, and  *)
(* a receipt is issued after it was paid and shows what was consented to.  *)
(* Gateway implements it as long as the process that used a nonce lives.   *)
(***************************************************************************)
CONSTANTS Orders, Contents, None

VARIABLES consent,  \* for each order, what its customer consented to, or None
          paid,     \* the orders the PSP has confirmed a payment for
          shown     \* for each order, the consents its receipts show

orderVars == <<consent, paid, shown>>

OrderInit ==
  /\ consent = [o \in Orders |-> None]
  /\ paid = {}
  /\ shown = [o \in Orders |-> {}]

Consent(o) ==
  /\ consent[o] = None
  /\ \E c \in Contents : consent' = [consent EXCEPT ![o] = c]
  /\ UNCHANGED <<paid, shown>>

Pay(o) ==
  /\ consent[o] # None
  /\ paid' = paid \union {o}
  /\ UNCHANGED <<consent, shown>>

Receipt(o) ==
  /\ o \in paid
  /\ shown' = [shown EXCEPT ![o] = {consent[o]}]
  /\ UNCHANGED <<consent, paid>>

OrderNext == \E o \in Orders : Consent(o) \/ Pay(o) \/ Receipt(o)

OrderSpec == OrderInit /\ [][OrderNext]_orderVars
=============================================================================
