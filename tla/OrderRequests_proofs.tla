------------------------- MODULE OrderRequests_proofs -------------------------
(* Theorems about OrderRequests, for any callers, any number of retries and *)
(* any rate limit.                                                          *)
EXTENDS OrderRequests, FiniteSetTheorems, SequenceTheorems, WellFoundedInduction, TLAPS

Layers == {"inner", "outer"}

\* The types of what the callers do; those of the clock are not needed.
ICallers ==
    /\ adapter \in Known
    /\ pc \in [Callers -> Steps] /\ what \in [Callers -> Kinds] /\ layer \in [Callers -> Layers]
    /\ tries \in [Callers -> [Layers -> 0..MaxRetries]]
    /\ sends \in [Callers -> Nat] /\ placed \in [Callers -> Nat]
    /\ resting \in [Callers -> BOOLEAN] /\ unheard \in [Callers -> SUBSET Troubles]
    /\ result \in [Callers -> Results]

Busy(c) == pc[c] # "idle"

\* What an attempt at an order may already have sent.
Sent(c) == IF pc[c] \in {"renewing", "resending"} THEN 1 ELSE 0

Told(c) ==
    /\ result[c] = "created" /\ adapter # "polymarket" => placed[c] = 1 /\ resting[c]
    /\ result[c] = "cancelled" /\ adapter # "polymarket" => ~resting[c]
    /\ result[c] \in {"refused", "unknown"} /\ placed[c] > 0 => unheard[c] # {}
    /\ result[c] = "refused" /\ placed[c] > 0 =>
          adapter # "opinion" /\ (adapter = "kalshi" => "broken" \in unheard[c])

\* An order is at the venue before its call ends only if an answer went astray,
\* and then only where the retries send the same signed order again.
Order(c) ==
    /\ placed[c] <= 1 /\ sends[c] <= 2 * (MaxRetries + 1)
    /\ ~Busy(c) => Told(c)
    /\ ~Busy(c) /\ result[c] = "none" => placed[c] = 0 /\ sends[c] = 0
    /\ Busy(c) /\ what[c] = "market" => Renews /\ placed[c] = 0 /\ sends[c] = 0 /\ result[c] = "none"
    /\ Busy(c) /\ what[c] = "order" =>
          /\ result[c] = "none" /\ layer[c] = "inner"
          /\ placed[c] = 0 \/ (unheard[c] # {} /\ Renews)
          /\ sends[c] <= 2 * tries[c]["inner"] + Sent(c)
    /\ Busy(c) /\ what[c] = "cancel" =>
          result[c] = "created" /\ (adapter = "polymarket" \/ placed[c] = 1)

IOrders == ICallers /\ \A c \in Callers : Order(c)

LEMMA InitOrders == Init => IOrders
<1> SUFFICES ASSUME Init
             PROVE  IOrders
  OBVIOUS
<1>1. Fresh \in [Layers -> 0..MaxRetries]
  BY RequestsAssumption DEF Fresh, Layers
<1>2. adapter \in Known
  BY RequestsAssumption DEF Init
<1>3. ICallers
  BY <1>1, <1>2 DEF Init, ICallers, Steps, Kinds, Layers, Results
<1>4. ASSUME NEW c \in Callers
      PROVE  Order(c)
  BY RequestsAssumption DEF Init, Order, Busy, Told
<1>5. QED
  BY <1>3, <1>4 DEF IOrders

\* A step of one caller leaves the others as they were.
OthersKeep(c) ==
    \A d \in Callers \ {c} :
       /\ pc'[d] = pc[d] /\ what'[d] = what[d] /\ layer'[d] = layer[d] /\ tries'[d] = tries[d]
       /\ sends'[d] = sends[d] /\ placed'[d] = placed[d] /\ resting'[d] = resting[d]
       /\ unheard'[d] = unheard[d] /\ result'[d] = result[d]

LEMMA OneCaller ==
    ASSUME IOrders, NEW c \in Callers, ICallers', adapter' = adapter, OthersKeep(c), Order(c)'
    PROVE  IOrders'
<1>1. ASSUME NEW d \in Callers \ {c}
      PROVE  Order(d)'
  BY <1>1 DEF IOrders, OthersKeep, Order, Busy, Told, Sent, Renews
<1>2. QED
  BY <1>1 DEF IOrders

LEMMA BeginsIs ==
    ASSUME ICallers, NEW c \in Callers, NEW k \in Kinds, Begins(c, k)
    PROVE  /\ pc' \in [Callers -> Steps] /\ what' \in [Callers -> Kinds]
           /\ layer' \in [Callers -> Layers] /\ tries' \in [Callers -> [Layers -> 0..MaxRetries]]
           /\ pc'[c] \in {"sending", "logging in", "checking"} /\ what'[c] = k
           /\ layer'[c] = Nests(k) /\ tries'[c]["inner"] = 0
           /\ \A d \in Callers \ {c} : /\ pc'[d] = pc[d] /\ what'[d] = what[d]
                                       /\ layer'[d] = layer[d] /\ tries'[d] = tries[d]
<1>1. Fresh \in [Layers -> 0..MaxRetries] /\ Fresh["inner"] = 0
  BY RequestsAssumption DEF Fresh, Layers
<1>2. Nests(k) \in Layers
  BY DEF Nests, Layers
<1>3. \E to \in {"sending", "logging in", "checking"} : pc' = [pc EXCEPT ![c] = to]
  BY DEF Begins, Moves
<1>4. {"sending", "logging in", "checking"} \subseteq Steps
  BY DEF Steps
<1>5. QED
  BY <1>1, <1>2, <1>3, <1>4 DEF Begins, ICallers

LEMMA EndsIs ==
    ASSUME ICallers, NEW c \in Callers, NEW how \in Results, Ends(c, how)
    PROVE  /\ pc' \in [Callers -> Steps] /\ what' \in [Callers -> Kinds]
           /\ layer' \in [Callers -> Layers] /\ tries' \in [Callers -> [Layers -> 0..MaxRetries]]
           /\ result' \in [Callers -> Results]
           /\ pc'[c] = "idle" /\ result'[c] = how
           /\ \A d \in Callers \ {c} : /\ pc'[d] = pc[d] /\ what'[d] = what[d] /\ result'[d] = result[d]
                                       /\ layer'[d] = layer[d] /\ tries'[d] = tries[d]
<1>1. Fresh \in [Layers -> 0..MaxRetries]
  BY RequestsAssumption DEF Fresh, Layers
<1>2. QED
  BY <1>1 DEF Ends, Moves, ICallers, Steps, Kinds, Layers

\* What the venue and the caller make of a request that ends the call.
LEMMA HandlesIs ==
    ASSUME ICallers, NEW c \in Callers, Handles(c)
    PROVE  /\ placed' \in [Callers -> Nat] /\ resting' \in [Callers -> BOOLEAN]
           /\ placed'[c] = (IF what[c] = "order" THEN Signs(c) ELSE placed[c])
           /\ resting'[c] = (what[c] = "order")
           /\ \A d \in Callers \ {c} : placed'[d] = placed[d] /\ resting'[d] = resting[d]
<1>1. Signs(c) \in Nat
  BY DEF Signs, ICallers
<1>2. QED
  BY <1>1 DEF Handles, ICallers

LEMMA StepOrders == IOrders /\ [Next]_vars => IOrders'
<1> SUFFICES ASSUME IOrders, [Next]_vars
             PROVE  IOrders'
  OBVIOUS
<1>t. ICallers
  BY DEF IOrders
<1>n. MaxRetries \in Nat /\ 0 <= 2 * (MaxRetries + 1)
  BY RequestsAssumption
<1>1. ASSUME NEW c \in Callers, CreateOrder(c) \/ CancelOrder(c)
      PROVE  IOrders'
  <2>1. PICK k \in Kinds :
          /\ Begins(c, k) /\ pc[c] = "idle" /\ UNCHANGED <<adapter, venue, sends, result>>
          /\ \/ k = "market" /\ Renews /\ result[c] = "none"
             \/ k = "order" /\ result[c] = "none"
             \/ k = "cancel" /\ result[c] = "created"
    BY <1>1 DEF CreateOrder, CancelOrder, Kinds
  <2>2. ICallers' /\ OthersKeep(c)
    BY <1>t, <2>1, BeginsIs DEF ICallers, OthersKeep, venue
  <2>3. Order(c)
    BY DEF IOrders
  <2>4. /\ pc'[c] \in {"sending", "logging in", "checking"} /\ what'[c] = k
        /\ layer'[c] = Nests(k) /\ tries'[c]["inner"] = 0
    BY <1>t, <2>1, BeginsIs
  <2>5. Order(c)'
    <3>1. /\ sends' = sends /\ placed' = placed /\ unheard' = unheard /\ result' = result
          /\ adapter' = adapter /\ sends[c] \in Nat /\ placed[c] \in Nat
      BY <1>t, <2>1 DEF venue, ICallers
    <3>2. Sent(c)' = 0 /\ Busy(c)' /\ Renews' = Renews
      BY <2>1, <2>4 DEF Sent, Busy, Renews
    <3>3. CASE k \in {"market", "order"}
      <4>1. placed[c] = 0 /\ sends[c] = 0 /\ result[c] = "none" /\ (k = "market" => Renews)
        BY <2>1, <2>3, <3>3 DEF Order, Busy
      <4>2. k = "order" => layer'[c] = "inner"
        BY <2>4 DEF Nests
      <4>3. QED
        <5>1. Busy(c)' /\ Sent(c)' = 0 /\ Renews' = Renews
          BY <2>4, <3>1 DEF Busy, Sent, Renews
        <5>2. sends'[c] <= 2 * (MaxRetries + 1) /\ sends'[c] <= 2 * tries'[c]["inner"] + 0
          <6>1. sends'[c] = 0 /\ tries'[c]["inner"] = 0
            BY <2>4, <3>1, <4>1
          <6>2. 2 * tries'[c]["inner"] + 0 = 0
            BY <6>1
          <6>3. sends'[c] <= 2 * (MaxRetries + 1)
            BY <1>n, <6>1
          <6>4. QED
            BY <6>1, <6>2, <6>3
        <5>3. placed'[c] = 0 /\ placed'[c] <= 1 /\ sends'[c] = 0 /\ result'[c] = "none"
          BY <3>1, <4>1
        <5>4. QED
          BY <2>4, <3>3, <4>1, <4>2, <5>1, <5>2, <5>3 DEF Order
    <3>4. CASE k = "cancel"
      BY <2>1, <2>3, <2>4, <3>1, <3>2, <3>4 DEF Order, Busy, Told
    <3>5. QED
      BY <3>3, <3>4 DEF Kinds
  <2>6. QED
    BY <2>1, <2>2, <2>5, OneCaller
<1>2. ASSUME NEW c \in Callers, Check(c) \/ Record(c)
      PROVE  IOrders'
  <2>1. /\ pc[c] \in {"checking", "waiting"}
        /\ \E to \in {"waiting", "checking", "sending"} : pc' = [pc EXCEPT ![c] = to]
        /\ UNCHANGED <<adapter, venue, what, tries, sends, result>>
        /\ layer' = layer \/ (layer[c] = "outer" /\ layer' = [layer EXCEPT ![c] = "inner"])
    BY <1>2 DEF Check, Record, Moves
  <2>2. ICallers' /\ OthersKeep(c)
    BY <1>t, <2>1 DEF ICallers, OthersKeep, venue, Steps, Layers
  <2>3. Order(c)
    BY DEF IOrders
  <2>4. pc'[c] \in {"waiting", "checking", "sending"} /\ (layer[c] = "inner" => layer'[c] = "inner")
    BY <1>t, <2>1 DEF ICallers
  <2>5. Order(c)'
    BY <2>1, <2>3, <2>4 DEF Order, Busy, Told, Sent, Renews, venue
  <2>6. QED
    BY <2>1, <2>2, <2>5, OneCaller
<1>3. ASSUME NEW c \in Callers, Login(c)
      PROVE  IOrders'
  <2>1. Order(c) /\ pc[c] \in {"logging in", "renewing"} /\ UNCHANGED <<adapter, sends>>
    BY <1>3 DEF IOrders, Login
  <2>2. CASE Rejects(c)
    <3>1. PICK how \in {"refused", "uncancelled"} :
            Ends(c, how) /\ (how = "refused" => what[c] # "cancel") /\ UNCHANGED venue
      BY <2>2 DEF Rejects
    <3>2. how \in Results
      BY DEF Results
    <3>3. ICallers' /\ OthersKeep(c)
      BY <1>t, <2>1, <3>1, <3>2, EndsIs DEF ICallers, OthersKeep, venue
    <3>4. pc'[c] = "idle" /\ result'[c] = how
      BY <1>t, <3>1, <3>2, EndsIs
    <3>5. Told(c)'
      <4>1. what[c] # "cancel" => placed[c] = 0 \/ (unheard[c] # {} /\ Renews)
        BY <1>t, <2>1 DEF Order, Busy, ICallers, Kinds
      <4>2. UNCHANGED <<adapter, placed, resting, unheard>>
        BY <2>1, <3>1 DEF venue
      <4>3. placed[c] \in Nat
        BY <1>t DEF ICallers
      <4>4. QED
        BY <3>1, <3>4, <4>1, <4>2, <4>3 DEF Told, Renews
    <3>6. Order(c)'
      BY <2>1, <3>1, <3>4, <3>5 DEF Order, Busy, venue
    <3>7. QED
      BY <2>1, <3>3, <3>6, OneCaller
  <2>3. CASE ~Rejects(c)
    <3>1. /\ pc' = [pc EXCEPT ![c] = IF pc[c] = "renewing" THEN "resending" ELSE "checking"]
          /\ UNCHANGED <<placed, resting, unheard, what, layer, tries, result>>
      BY <1>3, <2>3 DEF Login, Moves
    <3>2. ICallers' /\ OthersKeep(c)
      BY <1>t, <2>1, <3>1 DEF ICallers, OthersKeep, Steps
    <3>3. pc'[c] \in {"resending", "checking"} /\ Sent(c)' = Sent(c)
      BY <1>t, <2>1, <3>1 DEF ICallers, Sent
    <3>4. Order(c)'
      BY <2>1, <3>1, <3>3 DEF Order, Busy, Told, Renews
    <3>5. QED
      BY <2>1, <3>2, <3>4, OneCaller
  <2>4. QED
    BY <2>2, <2>3
<1>4. ASSUME NEW c \in Callers, Send(c) \/ Resend(c)
      PROVE  IOrders'
  <2>1. /\ Order(c) /\ pc[c] \in {"sending", "resending"} /\ Counts(c) /\ adapter' = adapter
        /\ \/ Succeeds(c) \/ Rejects(c) \/ Unread(c) \/ Troubled(c) \/ Broken(c)
           \/ Renewal(c) /\ pc[c] = "sending"
    BY <1>4 DEF IOrders, Send, Resend
  <2>2. /\ sends' \in [Callers -> Nat] /\ sends[c] \in Nat
        /\ sends'[c] = (IF what[c] = "order" THEN sends[c] + 1 ELSE sends[c])
        /\ \A d \in Callers \ {c} : sends'[d] = sends[d]
    BY <1>t, <2>1 DEF Counts, ICallers
  <2>a. tries[c]["inner"] \in 0..MaxRetries /\ what[c] \in Kinds /\ Busy(c)
    BY <1>t, <2>1 DEF ICallers, Layers, Busy
  <2>b. /\ what[c] = "order" => sends'[c] <= 2 * tries[c]["inner"] + Sent(c) + 1
        /\ sends'[c] <= 2 * (MaxRetries + 1)
    <3>1. Sent(c) \in {0, 1}
      BY DEF Sent
    <3>2. QED
      BY <2>1, <2>2, <2>a, <3>1, RequestsAssumption DEF Order
  <2>3. CASE Succeeds(c)
    <3>1. /\ placed' \in [Callers -> Nat] /\ resting' \in [Callers -> BOOLEAN]
          /\ placed'[c] = (IF what[c] = "order" THEN Signs(c) ELSE placed[c])
          /\ resting'[c] = (what[c] = "order") /\ unheard' = unheard
          /\ \A d \in Callers \ {c} : placed'[d] = placed[d] /\ resting'[d] = resting[d]
      BY <1>t, <2>3, HandlesIs DEF Succeeds
    <3>2. CASE what[c] = "market"
      <4>1. Begins(c, "order") /\ result' = result /\ "order" \in Kinds
        BY <2>3, <3>2 DEF Succeeds, Kinds
      <4>2. ICallers' /\ OthersKeep(c)
        BY <1>t, <2>1, <2>2, <3>1, <4>1, BeginsIs DEF ICallers, OthersKeep
      <4>3. /\ pc'[c] \in {"sending", "logging in", "checking"} /\ what'[c] = "order"
            /\ layer'[c] = "inner" /\ tries'[c]["inner"] = 0
        BY <1>t, <4>1, BeginsIs DEF Nests
      <4>4. placed[c] = 0 /\ sends[c] = 0 /\ result[c] = "none"
        BY <2>1, <2>a, <3>2 DEF Order
      <4>5. placed'[c] = 0 /\ sends'[c] = 0 /\ result'[c] = "none"
        BY <2>2, <3>1, <3>2, <4>1, <4>4
      <4>6. Order(c)'
        <5>1. Busy(c)' /\ Sent(c)' = 0
          BY <4>3 DEF Busy, Sent
        <5>2. sends'[c] <= 2 * (MaxRetries + 1) /\ sends'[c] <= 2 * tries'[c]["inner"] + 0
          <6>1. sends'[c] = 0 /\ tries'[c]["inner"] = 0
            BY <4>3, <4>5
          <6>2. 2 * tries'[c]["inner"] + 0 = 0
            BY <6>1
          <6>3. sends'[c] <= 2 * (MaxRetries + 1)
            BY <1>n, <6>1
          <6>4. QED
            BY <6>1, <6>2, <6>3
        <5>3. placed'[c] <= 1
          BY <4>5
        <5>4. QED
          BY <4>3, <4>5, <5>1, <5>2, <5>3 DEF Order
      <4>7. QED
        BY <2>1, <4>2, <4>6, OneCaller
    <3>3. CASE what[c] # "market"
      <4>1. PICK how \in {"created", "cancelled"} :
              Ends(c, how) /\ (how = "created" <=> what[c] = "order")
        BY <2>3, <3>3 DEF Succeeds
      <4>2. how \in Results
        BY DEF Results
      <4>3. ICallers' /\ OthersKeep(c)
        BY <1>t, <2>1, <2>2, <3>1, <4>1, <4>2, EndsIs DEF ICallers, OthersKeep
      <4>4. pc'[c] = "idle" /\ result'[c] = how
        BY <1>t, <4>1, <4>2, EndsIs
      <4>5. what[c] = "order" => Signs(c) = 1
        BY <1>t, <2>1, <2>a DEF Signs, Order, ICallers
      <4>6. placed'[c] <= 1 /\ (how = "created" => placed'[c] = 1 /\ resting'[c])
            /\ (how = "cancelled" => ~resting'[c])
        BY <2>1, <3>1, <4>1, <4>5 DEF Order
      <4>7. Order(c)'
        BY <2>b, <4>4, <4>6 DEF Order, Busy, Told
      <4>8. QED
        BY <2>1, <4>3, <4>7, OneCaller
    <3>4. QED
      BY <3>2, <3>3
  <2>4. CASE Rejects(c)
    <3>1. PICK how \in {"refused", "uncancelled"} :
            Ends(c, how) /\ (how = "refused" => what[c] # "cancel") /\ UNCHANGED venue
      BY <2>4 DEF Rejects
    <3>2. how \in Results
      BY DEF Results
    <3>3. ICallers' /\ OthersKeep(c)
      BY <1>t, <2>1, <2>2, <3>1, <3>2, EndsIs DEF ICallers, OthersKeep, venue
    <3>4. pc'[c] = "idle" /\ result'[c] = how
      BY <1>t, <3>1, <3>2, EndsIs
    <3>5. Order(c)'
      BY <1>t, <2>1, <2>b, <3>1, <3>4 DEF Order, Busy, Told, venue, ICallers, Kinds, Renews
    <3>6. QED
      BY <2>1, <3>3, <3>5, OneCaller
  <2>5. CASE Troubled(c) \/ Broken(c)
    <3>0. PICK t \in Troubles : /\ GivesUp(c, t) \/ (Again(c) /\ t = "lost")
                                /\ (UNCHANGED venue) \/ Unanswered(c, t)
      BY <2>5 DEF Troubled, Broken, Troubles
    <3>1. /\ placed' \in [Callers -> Nat] /\ resting' \in [Callers -> BOOLEAN]
          /\ unheard' \in [Callers -> SUBSET Troubles]
          /\ \A d \in Callers \ {c} : /\ placed'[d] = placed[d] /\ resting'[d] = resting[d]
                                       /\ unheard'[d] = unheard[d]
          /\ unheard[c] \subseteq unheard'[c]
          /\ \/ placed'[c] = placed[c]
             \/ what[c] = "order" /\ placed'[c] = Signs(c) /\ t \in unheard'[c]
      <4>1. CASE UNCHANGED venue
        BY <1>t, <4>1 DEF ICallers, venue
      <4>2. CASE Unanswered(c, t)
        <5>1. Handles(c)
          BY <4>2 DEF Unanswered
        <5>2. /\ unheard' \in [Callers -> SUBSET Troubles]
              /\ \A d \in Callers \ {c} : unheard'[d] = unheard[d]
              /\ unheard[c] \subseteq unheard'[c] /\ (what[c] = "order" => t \in unheard'[c])
          BY <1>t, <3>0, <4>2 DEF Unanswered, ICallers
        <5>3. QED
          BY <1>t, <5>1, <5>2, HandlesIs
      <4>3. QED
        BY <3>0, <4>1, <4>2
    <3>2. /\ placed'[c] \in {placed[c], 1} /\ placed'[c] <= 1
          /\ what[c] # "order" => placed'[c] = placed[c]
          /\ what[c] = "order" => placed'[c] = 0 \/ (unheard'[c] # {} /\ Renews) \/ t \in unheard'[c]
      <4>1. what[c] = "order" => Signs(c) = 1
        BY <1>t, <2>1, <2>a DEF Signs, Order, ICallers
      <4>2. QED
        BY <2>1, <2>a, <3>1, <4>1 DEF Order
    <3>3. CASE GivesUp(c, t)
      <4>1. PICK how \in {"uncancelled", "unknown", "refused"} :
              /\ Ends(c, how)
              /\ how \in {"unknown", "refused"} => what[c] # "cancel"
              /\ how = "refused" => SaysRefused(t)
        BY <3>3 DEF GivesUp
      <4>2. how \in Results
        BY DEF Results
      <4>3. ICallers' /\ OthersKeep(c)
        BY <1>t, <2>1, <2>2, <3>1, <4>1, <4>2, EndsIs DEF ICallers, OthersKeep
      <4>4. pc'[c] = "idle" /\ result'[c] = how
        BY <1>t, <4>1, <4>2, EndsIs
      <4>5. how \in {"unknown", "refused"} /\ placed'[c] > 0 =>
              what[c] = "order" /\ ((unheard'[c] # {} /\ Renews) \/ t \in unheard'[c])
        BY <2>1, <2>a, <3>2, <4>1 DEF Order, Kinds
      <4>6. how = "refused" /\ placed'[c] > 0 =>
              adapter # "opinion" /\ (adapter = "kalshi" => "broken" \in unheard'[c])
        BY <4>1, <4>5 DEF SaysRefused, Renews, Troubles
      <4>7. Told(c)' /\ ~Busy(c)'
        BY <2>1, <4>1, <4>4, <4>5, <4>6 DEF Busy, Told
      <4>8. Order(c)'
        BY <2>b, <3>2, <4>1, <4>4, <4>7 DEF Order, Busy
      <4>9. QED
        BY <2>1, <4>3, <4>8, OneCaller
    <3>4. CASE ~GivesUp(c, t)
      <4>1. /\ Retries(what[c]) /\ pc' = [pc EXCEPT ![c] = "checking"] /\ UNCHANGED <<what, result>>
            /\ \/ /\ MayRetry(c, "inner") /\ layer' = layer
                  /\ tries' = [tries EXCEPT ![c]["inner"] = @ + 1]
               \/ /\ Nests(what[c]) = "outer" /\ MayRetry(c, "outer")
                  /\ tries' = [tries EXCEPT ![c] = [inner |-> 0, outer |-> @["outer"] + 1]]
                  /\ layer' = [layer EXCEPT ![c] = "outer"]
        BY <3>0, <3>4 DEF Again, Moves
      <4>2. /\ tries' \in [Callers -> [Layers -> 0..MaxRetries]]
            /\ \A d \in Callers \ {c} : tries'[d] = tries[d]
            /\ what[c] = "order" => tries'[c]["inner"] = tries[c]["inner"] + 1 /\ layer' = layer
        <5>1. tries[c] \in [Layers -> 0..MaxRetries] /\ "inner" \in Layers /\ "outer" \in Layers
          BY <1>t DEF ICallers, Layers
        <5>2. CASE MayRetry(c, "inner") /\ tries' = [tries EXCEPT ![c]["inner"] = @ + 1]
                   /\ layer' = layer
          <6>1. tries[c]["inner"] + 1 \in 0..MaxRetries
            BY <1>n, <5>1, <5>2 DEF MayRetry
          <6>2. QED
            BY <1>t, <5>1, <5>2, <6>1 DEF ICallers
        <5>3. CASE /\ Nests(what[c]) = "outer" /\ MayRetry(c, "outer")
                   /\ tries' = [tries EXCEPT ![c] = [inner |-> 0, outer |-> @["outer"] + 1]]
          <6>1. tries[c]["outer"] + 1 \in 0..MaxRetries
            BY <1>n, <5>1, <5>3 DEF MayRetry
          <6>2. [inner |-> 0, outer |-> tries[c]["outer"] + 1] \in [Layers -> 0..MaxRetries]
            BY <1>n, <6>1 DEF Layers
          <6>3. what[c] # "order"
            BY <5>3 DEF Nests
          <6>4. QED
            BY <1>t, <5>3, <6>2, <6>3 DEF ICallers
        <5>4. QED
          BY <4>1, <5>2, <5>3
      <4>3. ICallers' /\ OthersKeep(c)
        BY <1>t, <2>1, <2>2, <3>1, <4>1, <4>2 DEF ICallers, OthersKeep, Steps, Layers
      <4>4. pc'[c] = "checking" /\ Sent(c)' = 0
        BY <1>t, <4>1 DEF ICallers, Sent
      <4>5. what[c] = "order" => sends'[c] <= 2 * tries'[c]["inner"] + 0
        <5>1. Sent(c) \in {0, 1}
          BY DEF Sent
        <5>2. QED
          BY <2>2, <2>a, <2>b, <4>2, <5>1, <1>n
      <4>6. what[c] = "order" => Renews
        BY <1>t, <4>1 DEF Retries, Direct, Renews, ICallers, Known
      <4>7. Order(c)'
        BY <2>1, <2>2, <2>a, <2>b, <3>1, <3>2, <4>1, <4>2, <4>4, <4>5, <4>6 DEF Order, Busy, Renews
      <4>8. QED
        BY <2>1, <4>3, <4>7, OneCaller
    <3>5. QED
      BY <3>3, <3>4
  <2>6. CASE Renewal(c) /\ pc[c] = "sending"
    <3>1. /\ pc' = [pc EXCEPT ![c] = "renewing"]
          /\ UNCHANGED <<placed, resting, unheard, what, layer, tries, result>>
      BY <2>6 DEF Renewal, Moves
    <3>2. ICallers' /\ OthersKeep(c)
      BY <1>t, <2>1, <2>2, <3>1 DEF ICallers, OthersKeep, Steps
    <3>3. pc'[c] = "renewing" /\ Sent(c)' = 1 /\ Sent(c) = 0
      BY <1>t, <2>6, <3>1 DEF ICallers, Sent
    <3>4. Order(c)'
      BY <2>1, <2>2, <2>a, <2>b, <3>1, <3>3 DEF Order, Busy, Renews, Kinds
    <3>5. QED
      BY <2>1, <3>2, <3>4, OneCaller
  <2>7. CASE Unread(c)
    <3>1. PICK how \in {"created", "cancelled"} : Ends(c, how) /\ adapter = "polymarket"
      BY <2>7 DEF Unread
    <3>2. how \in Results /\ UNCHANGED venue
      BY <2>7 DEF Results, Unread
    <3>3. ICallers' /\ OthersKeep(c)
      BY <1>t, <2>1, <2>2, <3>1, <3>2, EndsIs DEF ICallers, OthersKeep, venue
    <3>4. pc'[c] = "idle" /\ result'[c] = how
      BY <1>t, <3>1, <3>2, EndsIs
    <3>5. Order(c)'
      BY <2>1, <2>b, <3>1, <3>2, <3>4 DEF Order, Busy, Told, venue
    <3>6. QED
      BY <2>1, <3>3, <3>5, OneCaller
  <2>8. QED
    BY <2>1, <2>3, <2>4, <2>5, <2>6, <2>7
<1>5. CASE Tick \/ Expire \/ UNCHANGED vars
  <2>1. UNCHANGED <<adapter, pc, what, layer, tries, sends, placed, resting, unheard, result>>
    BY <1>5 DEF Tick, Expire, vars, venue
  <2>2. QED
    BY <2>1 DEF IOrders, ICallers, Order, Busy, Told, Sent, Renews
<1>6. QED
  BY <1>1, <1>2, <1>3, <1>4, <1>5 DEF Next, Step

LEMMA OrdersInvariant == Spec => []IOrders
<1>1. Init => IOrders
  BY InitOrders
<1>2. IOrders /\ [Next]_vars => IOrders'
  BY StepOrders
<1>3. QED
  BY <1>1, <1>2, PTL DEF Spec

\* No call of create_order() leaves two orders at the venue, whatever is lost.
THEOREM NeverTwice == Spec => []PlacedOnce
<1>1. IOrders => PlacedOnce
  BY DEF IOrders, Order, PlacedOnce
<1>2. QED
  BY <1>1, OrdersInvariant, PTL

\* What a call has returned or raised about its order can be relied on as far as
\* its adapter's answers are read and its errors told apart.
THEOREM ReportsTruly == Spec => []Reported
<1>1. IOrders => Reported
  BY DEF IOrders, Order, Told, Busy, Reported
<1>2. QED
  BY <1>1, OrdersInvariant, PTL

\* The attempts at an order are bounded by max_retries.
THEOREM RetriesBounded == Spec => []AttemptsBounded
<1>1. IOrders => AttemptsBounded
  BY DEF IOrders, Order, AttemptsBounded
<1>2. QED
  BY <1>1, OrdersInvariant, PTL
-----------------------------------------------------------------------------
(* RateBounded.  First what a tick makes of the ages: Older() is a recursive   *)
(* function; it is the closed form that satisfies the recursion, and it is     *)
(* only that one, for at a smallest difference the recursion would agree.      *)

\* What the rate limit keeps of the requests, the oldest first.
Ages == Seq(0..(Second - 1))

\* Of some natural numbers one is the least.
LEMMA LeastNat ==
    ASSUME NEW T \in SUBSET Nat, T # {}
    PROVE  \E x \in T : \A y \in T : x <= y
<1> DEFINE R == OpToRel(<, Nat)
<1>1. IsWellFoundedOn(R, Nat)
  BY NatLessThanWellFounded
<1>2. \A x, y \in Nat : <<y, x>> \in R <=> y < x
  BY DEF OpToRel
<1>3. \E x \in T : \A y \in T : ~ (<<y, x>> \in R)
  <2> HIDE DEF R
  <2> QED
    BY <1>1, WFMin
<1> HIDE DEF R
<1>4. PICK x \in T : \A y \in T : ~ (<<y, x>> \in R)
  BY <1>3
<1>5. ASSUME NEW y \in T
      PROVE  x <= y
  <2>1. x \in Nat /\ y \in Nat /\ ~(y < x)
    BY <1>2, <1>4
  <2>2. QED
    BY <2>1
<1>6. QED
  BY <1>5

\* The recent requests first: no age exceeds one before it.
Falling(s) == \A i, j \in DOMAIN s : i < j => s[j] <= s[i]

\* What Older() computes step by step.
Body(s, f) ==
    [i \in 0..Len(s) |->
        IF i = 0 THEN <<>>
        ELSE IF s[i] + 1 < Second THEN Append(f[i - 1], s[i] + 1)
        ELSE f[i - 1]]

\* That of falling ages the first k are gone and the others a tick older.
Shifted(s, k, i) == [j \in 1..(IF i <= k THEN 0 ELSE i - k) |-> s[j + k] + 1]

\* A function of 1..n is a sequence of that length.
LEMMA AsSequence ==
    ASSUME NEW S, NEW n \in Nat, NEW e \in [1..n -> S]
    PROVE  e \in Seq(S) /\ Len(e) = n
OBVIOUS

\* Append() of a sequence given as a function.
LEMMA Appended ==
    ASSUME NEW n \in Nat, NEW e \in [1..n -> Nat], NEW x \in Nat, NEW f \in [1..(n + 1) -> Nat],
           \A j \in 1..n : f[j] = e[j], f[n + 1] = x
    PROVE  Append(e, x) = f
<1>1. e \in Seq(Nat) /\ Len(e) = n /\ f \in Seq(Nat) /\ Len(f) = n + 1
  <2>1. n + 1 \in Nat
    OBVIOUS
  <2>2. QED
    BY <2>1, AsSequence
<1>2. Append(e, x) \in Seq(Nat) /\ Len(Append(e, x)) = n + 1
  BY <1>1
<1>3. \A j \in 1..(n + 1) : Append(e, x)[j] = f[j]
  BY <1>1
<1>4. QED
  BY <1>1, <1>2, <1>3, SeqEqual

\* The closed form satisfies the recursion.
LEMMA ShiftedIsBody ==
    ASSUME NEW s \in Ages, NEW k \in 0..Len(s),
           \A j \in 1..k : s[j] + 1 >= Second,
           \A j \in (k + 1)..Len(s) : s[j] + 1 < Second
    PROVE  LET g == [i \in 0..Len(s) |-> Shifted(s, k, i)] IN g = Body(s, g)
<1> DEFINE g == [i \in 0..Len(s) |-> Shifted(s, k, i)]
<1>0. Len(s) \in Nat /\ \A j \in 1..Len(s) : s[j] \in Nat
  BY RequestsAssumption DEF Ages
<1>1. ASSUME NEW i \in 0..Len(s)
      PROVE  g[i] = Body(s, g)[i]
  <2>1. CASE i = 0
    BY <2>1 DEF Shifted, Body
  <2>2. CASE i # 0 /\ i <= k
    <3>1. ~(s[i] + 1 < Second) /\ i - 1 \in 0..Len(s)
      BY <1>0, <2>2, RequestsAssumption
    <3>2. g[i] = Shifted(s, k, i) /\ g[i - 1] = Shifted(s, k, i - 1)
      BY <3>1
    <3>3. Shifted(s, k, i) = Shifted(s, k, i - 1)
      BY <2>2 DEF Shifted
    <3>4. Body(s, g)[i] = g[i - 1]
      <4> HIDE DEF g
      <4> QED
        BY <2>2, <3>1 DEF Body
    <3>5. QED
      BY <3>2, <3>3, <3>4
  <2>3. CASE i > k
    <3>1. s[i] + 1 < Second /\ i - 1 \in 0..Len(s) /\ i # 0 /\ s[i] \in Nat
      BY <1>0, <2>3
    <3>2. g[i] = Shifted(s, k, i) /\ g[i - 1] = Shifted(s, k, i - 1)
      BY <3>1
    <3>3. Shifted(s, k, i - 1) = [j \in 1..(i - 1 - k) |-> s[j + k] + 1]
      <4>1. (IF i - 1 <= k THEN 0 ELSE i - 1 - k) = i - 1 - k
        BY <1>0, <2>3
      <4>2. QED
        BY <4>1 DEF Shifted
    <3>4. Shifted(s, k, i) = [j \in 1..(i - k) |-> s[j + k] + 1]
      BY <2>3 DEF Shifted
    <3>5. Append(Shifted(s, k, i - 1), s[i] + 1) = Shifted(s, k, i)
      <4>1. PICK n \in Nat : n = i - 1 - k
        BY <1>0, <2>3
      <4>2. i - k = n + 1 /\ s[n + 1 + k] = s[i]
        BY <1>0, <2>3, <4>1
      <4>3. \A j \in 1..(n + 1) : s[j + k] + 1 \in Nat
        BY <1>0, <2>3, <4>1
      <4>4. Shifted(s, k, i - 1) \in [1..n -> Nat] /\ Shifted(s, k, i) \in [1..(n + 1) -> Nat]
        <5>1. /\ Shifted(s, k, i - 1) = [j \in 1..n |-> s[j + k] + 1]
              /\ Shifted(s, k, i) = [j \in 1..(n + 1) |-> s[j + k] + 1]
          BY <3>3, <3>4, <4>1, <4>2
        <5>2. \A j \in 1..n : s[j + k] + 1 \in Nat
          BY <4>3
        <5>3. QED
          BY <4>3, <5>1, <5>2
      <4>5. /\ \A j \in 1..n : Shifted(s, k, i)[j] = Shifted(s, k, i - 1)[j]
            /\ Shifted(s, k, i)[n + 1] = s[i] + 1
        BY <3>3, <3>4, <4>1, <4>2
      <4>6. QED
        BY <3>1, <4>4, <4>5, Appended
    <3>6. Body(s, g)[i] = Append(g[i - 1], s[i] + 1)
      <4> HIDE DEF g
      <4> QED
        BY <3>1 DEF Body
    <3>7. QED
      BY <3>2, <3>5, <3>6
  <2>4. QED
    BY <1>0, <2>1, <2>2, <2>3
<1>2. g = Body(s, g)
  <2>1. DOMAIN Body(s, g) = 0..Len(s) /\ Body(s, g) = [i \in 0..Len(s) |-> Body(s, g)[i]]
    BY DEF Body
  <2>2. QED
    BY <1>1, <2>1
<1>3. QED
  BY <1>2

\* A function the recursion describes is the only one.
LEMMA BodyOnce ==
    ASSUME NEW s, Len(s) \in Nat, NEW f, NEW g, f = Body(s, f), g = Body(s, g)
    PROVE  f[Len(s)] = g[Len(s)]
<1> DEFINE T == {i \in 0..Len(s) : f[i] # g[i]}
<1>1. CASE T = {}
  BY <1>1
<1>2. CASE T # {}
  <2>1. T \in SUBSET Nat
    OBVIOUS
  <2>2. PICK i \in T : \A j \in T : i <= j
    <3> HIDE DEF T
    <3> QED
      BY <1>2, <2>1, LeastNat
  <2>3. /\ i \in 0..Len(s) /\ f[i] # g[i]
        /\ f[i] = Body(s, f)[i] /\ g[i] = Body(s, g)[i]
    OBVIOUS
  <2>4. i # 0
    BY <2>3 DEF Body
  <2>5. i - 1 \in 0..Len(s) /\ f[i - 1] = g[i - 1]
    BY <2>2, <2>3, <2>4
  <2>6. f[i] = g[i]
    <3>1. Body(s, f)[i] = Body(s, g)[i]
      BY <2>3, <2>5 DEF Body
    <3>2. QED
      BY <2>3, <3>1
  <2>7. QED
    BY <2>3, <2>6
<1>3. QED
  BY <1>1, <1>2

\* A tick takes the first of falling ages and adds one to the others.
LEMMA OlderIs ==
    ASSUME NEW s \in Ages, Falling(s)
    PROVE  \E k \in 0..Len(s) :
              /\ Older(s) \in Ages /\ Len(Older(s)) = Len(s) - k
              /\ \A j \in 1..(Len(s) - k) : Older(s)[j] = s[j + k] + 1
              /\ \A j \in 1..k : s[j] + 1 >= Second
              /\ \A j \in (k + 1)..Len(s) : s[j] + 1 < Second
<1> DEFINE T == {k \in 0..Len(s) : \A j \in (k + 1)..Len(s) : s[j] + 1 < Second}
<1>0. Len(s) \in Nat /\ DOMAIN s = 1..Len(s) /\ \A j \in 1..Len(s) : s[j] \in Nat
  BY RequestsAssumption DEF Ages
<1>1. T \in SUBSET Nat /\ Len(s) \in T
  BY <1>0
<1>2. PICK k \in T : \A j \in T : k <= j
  <2> HIDE DEF T
  <2> QED
    BY <1>1, LeastNat
<1>3. k \in 0..Len(s) /\ \A j \in (k + 1)..Len(s) : s[j] + 1 < Second
  OBVIOUS
<1>4. ASSUME NEW j \in 1..k
      PROVE  s[j] + 1 >= Second
  <2>1. k - 1 \in 0..Len(s) /\ k - 1 \notin T
    <3>1. k \in Nat /\ k - 1 \in 0..Len(s) /\ ~(k <= k - 1)
      BY <1>0, <1>3
    <3> HIDE DEF T
    <3>2. QED
      BY <1>2, <3>1
  <2>2. PICK i \in k..Len(s) : ~(s[i] + 1 < Second)
    BY <2>1
  <2>3. i = k
    BY <1>0, <1>3, <2>2
  <2>4. s[k] <= s[j]
    BY <1>0, <1>3 DEF Falling
  <2>5. s[k] \in Nat /\ s[j] \in Nat
    BY <1>0, <1>3
  <2>6. QED
    BY <2>2, <2>3, <2>4, <2>5, RequestsAssumption
<1> HIDE DEF T
<1>5. PICK g : g = [i \in 0..Len(s) |-> Shifted(s, k, i)] /\ g = Body(s, g)
  BY <1>3, <1>4, ShiftedIsBody
<1> DEFINE F == CHOOSE f : f = Body(s, f)
<1>6. F = Body(s, F)
  <2>1. \E f : f = Body(s, f)
    BY <1>5
  <2>2. QED
    BY <2>1
<1>7. Older(s) = F[Len(s)]
  BY DEF Older, Body
<1>8. Older(s) = Shifted(s, k, Len(s))
  <2> HIDE DEF F
  <2>1. F[Len(s)] = g[Len(s)]
    BY <1>0, <1>5, <1>6, BodyOnce
  <2>2. QED
    BY <1>0, <1>5, <1>7, <2>1
<1>9. Older(s) = [j \in 1..(Len(s) - k) |-> s[j + k] + 1]
  <2> HIDE DEF F
  <2>1. (IF Len(s) <= k THEN 0 ELSE Len(s) - k) = Len(s) - k
    <3>1. \A n \in Nat : k \in 0..n => (IF n <= k THEN 0 ELSE n - k) = n - k
      OBVIOUS
    <3>2. QED
      BY <1>0, <1>3, <3>1
  <2>2. QED
    BY <1>8, <2>1 DEF Shifted
<1>10. \A j \in 1..(Len(s) - k) : s[j + k] + 1 \in 0..(Second - 1)
  BY <1>0, <1>3, RequestsAssumption
<1>11. Len(s) - k \in Nat
  BY <1>0, <1>3
<1>12. Older(s) \in Ages /\ Len(Older(s)) = Len(s) - k
  <2>1. Older(s) \in [1..(Len(s) - k) -> 0..(Second - 1)]
    BY <1>9, <1>10
  <2>2. QED
    BY <1>11, <2>1, AsSequence DEF Ages
<1>13. QED
  BY <1>3, <1>4, <1>9, <1>12

-----------------------------------------------------------------------------
(* One thread checks, waits and records in turn, so that each request is       *)
(* checked after the one before has passed: of those that passed in the last   *)
(* second all but the first are among the recorded times, which are rate_limit *)
(* at most.                                                                    *)

\* Whether c has used the exchange, and that at most one caller has.
Engaged(c) == pc[c] # "idle" \/ result[c] # "none"
Alone == \A c, d \in Callers : Engaged(c) /\ Engaged(d) => c = d

\* One that has checked: nothing was recorded since, and once it need not wait
\* any more there is room for it.
Paced(c) ==
    /\ \A i \in DOMAIN times : since[c] <= times[i]
    /\ \A i \in DOMAIN recent : since[c] <= recent[i]
    /\ IF since[c] >= need[c] THEN Len(times) < Limit
       ELSE Len(times) > 0 /\ times[1] + need[c] = Second + since[c]

\* The request after one of the last second is recorded, as no older than that one.
Aligned ==
    /\ Len(recent) <= Len(times) + 1
    /\ \A k \in 1..(Len(recent) - 1) : times[k + (Len(times) + 1 - Len(recent))] <= recent[k]

\* The inductive invariant, while a single thread uses the exchange.
Clocked ==
    /\ times \in Ages /\ recent \in Ages
    /\ need \in [Callers -> Int] /\ since \in [Callers -> 0..Second]
    /\ Len(times) <= Limit /\ Falling(times) /\ Falling(recent) /\ Aligned
    /\ \A c \in Callers : pc[c] = "waiting" => Paced(c)

IRate == Alone => Clocked

\* No request was made.
LEMMA InitRate == Init => IRate
<1> SUFFICES ASSUME Init
             PROVE  Clocked
  BY DEF IRate
<1>1. times = <<>> /\ recent = <<>> /\ Len(times) = 0 /\ Len(recent) = 0
  BY DEF Init
<1>2. times \in Ages /\ recent \in Ages /\ DOMAIN times = {} /\ DOMAIN recent = {}
  BY <1>1 DEF Ages
<1>3. need \in [Callers -> Int] /\ since \in [Callers -> 0..Second] /\ \A c \in Callers : pc[c] = "idle"
  BY RequestsAssumption DEF Init
<1>4. QED
  BY <1>1, <1>2, <1>3, RequestsAssumption DEF Clocked, Falling, Aligned

\* Who has begun stays engaged.
LEMMA StaysEngaged ==
    ASSUME ICallers, [Next]_vars, NEW c \in Callers, Engaged(c)
    PROVE  Engaged(c)'
<1>1. ASSUME NEW d \in Callers, NEW how, how # "none", Ends(d, how)
      PROVE  Engaged(c)'
  BY <1>1 DEF ICallers, Ends, Moves, Engaged
<1>2. ASSUME NEW d \in Callers, NEW to, to # "idle", Moves(d, to), result' = result
      PROVE  Engaged(c)'
  BY <1>2 DEF ICallers, Moves, Engaged
<1>3. \A d \in Callers, k \in Kinds : Begins(d, k) => \E to : to # "idle" /\ Moves(d, to)
  BY DEF Begins
<1>4. \A d \in Callers : /\ Rejects(d) \/ Unread(d) => Engaged(c)'
                         /\ \A t \in Troubles : GivesUp(d, t) => Engaged(c)'
  BY <1>1 DEF Rejects, GivesUp, Unread
<1>5. \A d \in Callers : Again(d) => Engaged(c)'
  BY <1>2, <1>4 DEF Again, Troubles
<1>6. \A d \in Callers : Succeeds(d) => Engaged(c)'
  BY <1>1, <1>2, <1>3 DEF Succeeds, Kinds
<1>7. ASSUME NEW d \in Callers, CreateOrder(d) \/ CancelOrder(d)
      PROVE  Engaged(c)'
  BY <1>2, <1>3, <1>7 DEF CreateOrder, CancelOrder, Kinds
<1>8. ASSUME NEW d \in Callers, Step(d)
      PROVE  Engaged(c)'
  <2>1. CASE Check(d) \/ Record(d)
    BY <1>2, <2>1 DEF Check, Record
  <2>2. CASE Send(d) \/ Resend(d)
    BY <1>2, <1>4, <1>5, <1>6, <2>2 DEF Send, Resend, Troubled, Broken, Renewal, Troubles
  <2>3. CASE Login(d)
    BY <1>2, <1>4, <2>3 DEF Login
  <2>4. QED
    BY <1>8, <2>1, <2>2, <2>3 DEF Step
<1>9. CASE Tick \/ Expire \/ UNCHANGED vars
  BY <1>9 DEF Tick, Expire, vars, Engaged
<1>10. QED
  BY <1>7, <1>8, <1>9 DEF Next

\* What drops out of the recorded times has dropped out of those let pass; who
\* waits for the oldest sees it go.
LEMMA TickRate ==
    ASSUME Clocked, Tick
    PROVE  Clocked'
<1>1. /\ \A c \in Callers : pc[c] = "waiting" => since[c] < need[c]
      /\ times' = Older(times) /\ recent' = Older(recent)
      /\ since' = [c \in Callers |-> IF pc[c] = "waiting" /\ since[c] < Second
                                     THEN since[c] + 1 ELSE since[c]]
      /\ UNCHANGED <<need, pc>>
  BY DEF Tick
<1>2. PICK m \in Nat : m = Len(times)
  BY DEF Clocked, Ages
<1>3. PICK n \in Nat : n = Len(recent)
  BY DEF Clocked, Ages
<1>4. PICK d \in 0..m :
        /\ times' \in Ages /\ Len(times') = m - d
        /\ \A j \in 1..(m - d) : times'[j] = times[j + d] + 1
        /\ \A j \in 1..d : times[j] + 1 >= Second
        /\ \A j \in (d + 1)..m : times[j] + 1 < Second
  BY <1>1, <1>2, OlderIs DEF Clocked
<1>5. PICK e \in 0..n :
        /\ recent' \in Ages /\ Len(recent') = n - e
        /\ \A j \in 1..(n - e) : recent'[j] = recent[j + e] + 1
        /\ \A j \in 1..e : recent[j] + 1 >= Second
        /\ \A j \in (e + 1)..n : recent[j] + 1 < Second
  BY <1>1, <1>3, OlderIs DEF Clocked
<1>t. /\ \A j \in 1..m : times[j] \in 0..(Second - 1)
      /\ \A j \in 1..n : recent[j] \in 0..(Second - 1)
      /\ DOMAIN times = 1..m /\ DOMAIN recent = 1..n
      /\ DOMAIN times' = 1..(m - d) /\ DOMAIN recent' = 1..(n - e)
      /\ Second \in Nat \ {0} /\ Limit \in Nat
  BY <1>2, <1>3, <1>4, <1>5, RequestsAssumption DEF Clocked, Ages
<1>f. /\ \A i, j \in 1..m : i < j => times[j] <= times[i]
      /\ \A i, j \in 1..n : i < j => recent[j] <= recent[i]
  <2>1. Falling(times) /\ Falling(recent)
    BY DEF Clocked
  <2>2. QED
    BY <1>t, <2>1 DEF Falling
<1>6. need' \in [Callers -> Int] /\ since' \in [Callers -> 0..Second]
  BY <1>1, <1>t DEF Clocked
<1>7. Len(times') <= Limit
  BY <1>2, <1>4, <1>t DEF Clocked
<1>8. Falling(times') /\ Falling(recent')
  <2>1. \A i, j \in 1..(m - d) : i < j => times'[j] <= times'[i]
    <3> TAKE i, j \in 1..(m - d)
    <3> HAVE i < j
    <3>1. PICK a \in 1..m, b \in 1..m : a = i + d /\ b = j + d /\ a < b
      BY <1>2, <1>4
    <3>2. times[b] <= times[a] /\ times[a] \in Nat /\ times[b] \in Nat
      <4>1. times[a] \in 0..(Second - 1) /\ times[b] \in 0..(Second - 1)
        BY <1>t
      <4>2. QED
        BY <1>f, <3>1, <4>1
    <3>3. QED
      BY <1>4, <3>1, <3>2
  <2>2. \A i, j \in 1..(n - e) : i < j => recent'[j] <= recent'[i]
    <3> TAKE i, j \in 1..(n - e)
    <3> HAVE i < j
    <3>1. PICK a \in 1..n, b \in 1..n : a = i + e /\ b = j + e /\ a < b
      BY <1>3, <1>5
    <3>2. recent[b] <= recent[a] /\ recent[a] \in Nat /\ recent[b] \in Nat
      <4>1. recent[a] \in 0..(Second - 1) /\ recent[b] \in 0..(Second - 1)
        BY <1>t
      <4>2. QED
        BY <1>f, <3>1, <4>1
    <3>3. QED
      BY <1>5, <3>1, <3>2
  <2>3. QED
    BY <1>t, <2>1, <2>2 DEF Falling
<1>9. Aligned'
  <2>1. /\ n <= m + 1
        /\ \A k \in 1..(n - 1) : times[k + (m + 1 - n)] <= recent[k]
    BY <1>2, <1>3 DEF Clocked, Aligned
  <2>2. n - e <= m - d + 1
    <3>1. CASE e >= n - 1
      BY <1>4, <1>5, <3>1
    <3>2. CASE e < n - 1
      <4>1. e + 1 \in 1..(n - 1) /\ e + 1 + (m + 1 - n) \in 1..m
        BY <1>5, <2>1, <3>2
      <4>2. times[e + 1 + (m + 1 - n)] <= recent[e + 1] /\ recent[e + 1] + 1 < Second
        BY <1>5, <2>1, <4>1
      <4>3. times[e + 1 + (m + 1 - n)] + 1 < Second
        <5>1. times[e + 1 + (m + 1 - n)] \in Nat /\ recent[e + 1] \in Nat
          BY <1>t, <4>1
        <5>2. QED
          BY <1>t, <4>2, <5>1
      <4>4. ~(e + 1 + (m + 1 - n) \in 1..d)
        <5>1. times[e + 1 + (m + 1 - n)] \in Nat
          BY <1>t, <4>1
        <5>2. QED
          BY <1>4, <1>t, <4>3, <5>1
      <4>5. QED
        BY <1>4, <1>5, <4>1, <4>4
    <3>3. QED
      BY <1>5, <3>1, <3>2
  <2>3. ASSUME NEW k \in 1..((n - e) - 1)
        PROVE  times'[k + ((m - d) + 1 - (n - e))] <= recent'[k]
    <3>1. PICK i \in 1..(n - 1) : i = k + e
      BY <1>5
    <3>2. PICK j \in 1..(m - d) : j = k + ((m - d) + 1 - (n - e))
      BY <1>4, <1>5, <2>2
    <3>3. j + d = i + (m + 1 - n) /\ j + d \in 1..m
      BY <1>4, <3>1, <3>2
    <3>4. times[j + d] <= recent[i]
      BY <2>1, <3>3
    <3>5. times'[j] = times[j + d] + 1 /\ recent'[k] = recent[i] + 1
      BY <1>4, <1>5, <3>1, <3>2
    <3>6. times[j + d] \in Nat /\ recent[i] \in Nat
      BY <1>t, <3>1, <3>3
    <3>7. QED
      BY <3>2, <3>4, <3>5, <3>6
  <2>4. QED
    BY <1>4, <1>5, <2>2, <2>3 DEF Aligned
<1>10. ASSUME NEW c \in Callers, pc'[c] = "waiting"
       PROVE  Paced(c)'
  <2>1. pc[c] = "waiting" /\ Paced(c) /\ since[c] < need[c]
    BY <1>1, <1>10 DEF Clocked
  <2>2. since[c] \in 0..Second /\ need[c] \in Int
    BY DEF Clocked
  <2>3. m > 0 /\ times[1] + need[c] = Second + since[c] /\ times[1] \in 0..(Second - 1)
    BY <1>2, <1>t, <2>1, <2>2 DEF Paced
  <2>4. since'[c] = since[c] + 1 /\ need'[c] = need[c]
    <3>1. since[c] < Second
      <4>1. 1 \in DOMAIN times
        BY <1>t, <2>3
      <4>2. since[c] <= times[1]
        BY <2>1, <4>1 DEF Paced
      <4>3. QED
        BY <1>t, <2>2, <2>3, <4>2
    <3>2. QED
      BY <1>1, <2>1, <3>1
  <2>5. \A j \in 1..(m - d) : since'[c] <= times'[j]
    <3> TAKE j \in 1..(m - d)
    <3>1. PICK a \in 1..m : a = j + d
      BY <1>4
    <3>2. times'[j] = times[a] + 1
      BY <1>4, <3>1
    <3>3. since[c] <= times[a] /\ times[a] \in Nat
      <4>1. times[a] \in 0..(Second - 1)
        BY <1>t
      <4>2. \A i \in DOMAIN times : since[c] <= times[i]
        BY <2>1 DEF Paced
      <4>3. since[c] <= times[a]
        BY <1>t, <4>2
      <4>4. QED
        BY <1>t, <4>1, <4>3
    <3>4. QED
      BY <2>2, <2>4, <3>2, <3>3
  <2>6. \A j \in 1..(n - e) : since'[c] <= recent'[j]
    <3> TAKE j \in 1..(n - e)
    <3>1. PICK a \in 1..n : a = j + e
      BY <1>5
    <3>2. recent'[j] = recent[a] + 1
      BY <1>5, <3>1
    <3>3. since[c] <= recent[a] /\ recent[a] \in Nat
      <4>1. recent[a] \in 0..(Second - 1)
        BY <1>t
      <4>2. \A i \in DOMAIN recent : since[c] <= recent[i]
        BY <2>1 DEF Paced
      <4>3. since[c] <= recent[a]
        BY <1>t, <4>2
      <4>4. QED
        BY <1>t, <4>1, <4>3
    <3>4. QED
      BY <2>2, <2>4, <3>2, <3>3
  <2>7. CASE since[c] + 1 >= need[c]
    <3>1. times[1] + 1 >= Second /\ 1 \in 1..m
      BY <1>t, <2>1, <2>2, <2>3, <2>7
    <3>2. d >= 1
      BY <1>4, <1>t, <2>3, <3>1
    <3>3. m - d < Limit
      BY <1>2, <1>4, <1>t, <3>2 DEF Clocked
    <3>4. QED
      BY <1>4, <1>t, <2>4, <2>5, <2>6, <2>7, <3>3 DEF Paced
  <2>8. CASE ~(since[c] + 1 >= need[c])
    <3>1. times[1] + 1 < Second
      BY <1>t, <2>1, <2>2, <2>3, <2>8
    <3>2. d = 0
      BY <1>4, <1>t, <2>3, <3>1
    <3>3. times'[1] = times[1] + 1 /\ Len(times') > 0
      BY <1>4, <2>3, <3>2
    <3>4. times'[1] + need'[c] = Second + since'[c]
      <4>1. \A w, x, y, z \in Int : w + x = y + z => (w + 1) + x = y + (z + 1)
        OBVIOUS
      <4>2. times[1] \in Int /\ Second \in Int /\ since[c] \in Int /\ need[c] \in Int
        BY <1>t, <2>2, <2>3
      <4>3. (times[1] + 1) + need[c] = Second + (since[c] + 1)
        BY <2>3, <4>1, <4>2
      <4>4. QED
        BY <2>4, <3>3, <4>3
    <3>5. QED
      BY <1>t, <2>4, <2>5, <2>6, <2>8, <3>3, <3>4 DEF Paced
  <2>9. QED
    BY <2>7, <2>8
<1>11. QED
  BY <1>4, <1>5, <1>6, <1>7, <1>8, <1>9, <1>10 DEF Clocked

\* Who finds the second full waits until its oldest request is gone.
LEMMA CheckRate ==
    ASSUME Clocked, Alone, ICallers, NEW c \in Callers, Check(c)
    PROVE  Clocked'
<1>1. /\ pc[c] = "checking" /\ pc' = [pc EXCEPT ![c] = "waiting"]
      /\ since' = [since EXCEPT ![c] = 0]
      /\ need' = [need EXCEPT ![c] = IF Len(times) < Limit THEN 0 ELSE Second - Head(times)]
      /\ times' = times /\ recent' = recent
  BY DEF Check, Moves
<1>2. /\ \A i \in DOMAIN times : times[i] \in 0..(Second - 1)
      /\ \A i \in DOMAIN recent : recent[i] \in 0..(Second - 1)
      /\ Len(times) \in Nat /\ Len(times) <= Limit /\ DOMAIN times = 1..Len(times)
      /\ Limit \in Nat \ {0} /\ Second \in Nat \ {0}
  BY RequestsAssumption DEF Clocked, Ages
<1>3. Len(times) > 0 => Head(times) = times[1] /\ 1 \in DOMAIN times
  BY <1>2 DEF Clocked, Ages
<1>4. since' \in [Callers -> 0..Second] /\ since'[c] = 0
  BY <1>1, <1>2 DEF Clocked
<1>5. /\ need' \in [Callers -> Int]
      /\ need'[c] = IF Len(times) < Limit THEN 0 ELSE Second - times[1]
  <2>1. CASE Len(times) < Limit
    BY <1>1, <2>1 DEF Clocked
  <2>2. CASE ~(Len(times) < Limit)
    <3>1. Len(times) > 0
      BY <1>2, <2>2
    <3>2. times[1] \in 0..(Second - 1) /\ Head(times) = times[1]
      BY <1>2, <1>3, <3>1
    <3>3. Second - times[1] \in Int
      BY <1>2, <3>2
    <3>4. QED
      BY <1>1, <2>2, <3>2, <3>3 DEF Clocked
  <2>3. QED
    BY <2>1, <2>2
<1>6. ASSUME NEW d \in Callers, pc'[d] = "waiting"
      PROVE  Paced(d)'
  <2>1. d = c
    BY <1>1, <1>6 DEF Alone, Engaged, ICallers
  <2>2. \A i \in DOMAIN times : since'[c] <= times[i]
    BY <1>2, <1>4
  <2>3. \A i \in DOMAIN recent : since'[c] <= recent[i]
    BY <1>2, <1>4
  <2>4. CASE Len(times) < Limit
    BY <1>1, <1>4, <1>5, <2>1, <2>2, <2>3, <2>4 DEF Paced
  <2>5. CASE ~(Len(times) < Limit)
    <3>1. Len(times) > 0
      BY <1>2, <2>5
    <3>2. times[1] \in 0..(Second - 1)
      BY <1>2, <1>3, <3>1
    <3>3. ~(since'[c] >= need'[c]) /\ times[1] + need'[c] = Second + since'[c]
      BY <1>2, <1>4, <1>5, <2>5, <3>2
    <3>4. QED
      BY <1>1, <2>1, <2>2, <2>3, <3>1, <3>3 DEF Paced
  <2>6. QED
    BY <2>4, <2>5
<1>7. Falling(times') /\ Falling(recent') /\ Aligned'
  BY <1>1 DEF Clocked, Falling, Aligned
<1>8. QED
  BY <1>1, <1>4, <1>5, <1>6, <1>7 DEF Clocked

\* The age it is recorded with is that of its check.
LEMMA RecordRate ==
    ASSUME Clocked, Alone, ICallers, NEW c \in Callers, Record(c)
    PROVE  Clocked'
<1>1. /\ pc[c] = "waiting" /\ since[c] >= need[c]
      /\ times' = IF since[c] < Second THEN Append(times, since[c]) ELSE times
      /\ recent' = Append(recent, 0)
      /\ since' = [since EXCEPT ![c] = 0] /\ need' = [need EXCEPT ![c] = 0]
      /\ \E to \in {"checking", "sending"} : pc' = [pc EXCEPT ![c] = to]
  BY DEF Record, Recorded, Moves
<1>2. PICK m \in Nat : m = Len(times)
  BY DEF Clocked, Ages
<1>3. PICK n \in Nat : n = Len(recent)
  BY DEF Clocked, Ages
<1>t. /\ DOMAIN times = 1..m /\ DOMAIN recent = 1..n
      /\ \A j \in 1..m : times[j] \in 0..(Second - 1)
      /\ \A j \in 1..n : recent[j] \in 0..(Second - 1)
      /\ Second \in Nat \ {0} /\ Limit \in Nat
      /\ since[c] \in 0..Second
  BY <1>2, <1>3, RequestsAssumption DEF Clocked, Ages
<1>4. /\ \A j \in 1..m : since[c] <= times[j]
      /\ \A j \in 1..n : since[c] <= recent[j]
      /\ m < Limit
  <2>1. Paced(c)
    BY <1>1 DEF Clocked
  <2>2. QED
    BY <1>1, <1>2, <1>t, <2>1 DEF Paced
<1>5. /\ recent' \in Ages /\ Len(recent') = n + 1 /\ recent'[n + 1] = 0
      /\ \A j \in 1..n : recent'[j] = recent[j]
      /\ DOMAIN recent' = 1..(n + 1)
  <2>1. recent \in Ages /\ 0 \in 0..(Second - 1)
    BY <1>t DEF Clocked
  <2>2. QED
    BY <1>1, <1>3, <2>1 DEF Ages
<1>f. /\ \A i, j \in 1..m : i < j => times[j] <= times[i]
      /\ \A i, j \in 1..n : i < j => recent[j] <= recent[i]
  <2>1. Falling(times) /\ Falling(recent)
    BY DEF Clocked
  <2>2. QED
    BY <1>t, <2>1 DEF Falling
<1>6. Falling(recent')
  <2>1. ASSUME NEW i \in 1..(n + 1), NEW j \in 1..(n + 1), i < j
        PROVE  recent'[j] <= recent'[i]
    <3>1. i \in 1..n /\ recent'[i] = recent[i] /\ recent[i] \in 0..(Second - 1)
      BY <1>5, <1>t, <2>1
    <3>2. CASE j = n + 1
      BY <1>5, <3>1, <3>2
    <3>3. CASE j # n + 1
      <4>1. j \in 1..n
        BY <3>3
      <4>2. recent'[j] = recent[j] /\ recent[j] <= recent[i]
        BY <1>5, <1>f, <2>1, <3>1, <4>1
      <4>3. QED
        BY <3>1, <4>2
    <3>4. QED
      BY <3>2, <3>3
  <2>2. QED
    BY <1>5, <2>1 DEF Falling
<1>7. n <= m + 1 /\ \A k \in 1..(n - 1) : times[k + (m + 1 - n)] <= recent[k]
  BY <1>2, <1>3 DEF Clocked, Aligned
<1>8. ASSUME since[c] < Second
      PROVE  times' \in Ages /\ Len(times') <= Limit /\ Falling(times') /\ Aligned'
  <2>1. /\ times' \in Ages /\ Len(times') = m + 1 /\ times'[m + 1] = since[c]
        /\ \A j \in 1..m : times'[j] = times[j]
        /\ DOMAIN times' = 1..(m + 1)
    <3>1. times \in Ages /\ since[c] \in 0..(Second - 1)
      BY <1>8, <1>t DEF Clocked
    <3>2. QED
      BY <1>1, <1>2, <1>8, <3>1 DEF Ages
  <2>2. Falling(times')
    <3>1. ASSUME NEW i \in 1..(m + 1), NEW j \in 1..(m + 1), i < j
          PROVE  times'[j] <= times'[i]
      <4>1. i \in 1..m /\ times'[i] = times[i]
        BY <2>1, <3>1
      <4>2. CASE j = m + 1
        BY <1>4, <2>1, <4>1, <4>2
      <4>3. CASE j # m + 1
        <5>1. j \in 1..m
          BY <4>3
        <5>2. QED
          BY <1>f, <2>1, <3>1, <4>1, <5>1
      <4>4. QED
        BY <4>2, <4>3
    <3>2. QED
      BY <2>1, <3>1 DEF Falling
  <2>3. Aligned'
    <3>1. n + 1 <= (m + 1) + 1
      BY <1>7
    <3>2. ASSUME NEW k \in 1..((n + 1) - 1)
          PROVE  times'[k + ((m + 1) + 1 - (n + 1))] <= recent'[k]
      <4>1. PICK j \in 1..(m + 1) : j = k + ((m + 1) + 1 - (n + 1))
        BY <1>7
      <4>2. k \in 1..n /\ recent'[k] = recent[k] /\ j = k + (m + 1 - n)
        BY <1>5, <4>1
      <4>3. CASE k = n
        <5>1. j = m + 1
          BY <4>2, <4>3
        <5>2. QED
          BY <1>4, <2>1, <4>1, <4>2, <5>1
      <4>4. CASE k # n
        <5>1. k \in 1..(n - 1) /\ j \in 1..m
          BY <1>7, <4>2, <4>4
        <5>2. times'[j] = times[j] /\ times[j] <= recent[k]
          BY <1>7, <2>1, <4>2, <5>1
        <5>3. QED
          BY <4>1, <4>2, <5>2
      <4>5. QED
        BY <4>3, <4>4
    <3>3. QED
      BY <1>5, <2>1, <3>1, <3>2 DEF Aligned
  <2>4. Len(times') <= Limit
    BY <1>4, <1>t, <2>1
  <2>5. QED
    BY <2>1, <2>2, <2>3, <2>4
<1>9. ASSUME ~(since[c] < Second)
      PROVE  times' \in Ages /\ Len(times') <= Limit /\ Falling(times') /\ Aligned'
  <2>1. times' = times /\ since[c] = Second
    BY <1>1, <1>9, <1>t
  <2>2. m = 0 /\ n = 0
    <3>1. 1 \notin 1..m
      BY <1>4, <1>t, <2>1
    <3>2. 1 \notin 1..n
      BY <1>4, <1>t, <2>1
    <3>3. QED
      BY <3>1, <3>2
  <2>3. Falling(times') /\ times' \in Ages /\ Len(times') = 0
    BY <1>2, <2>1, <2>2 DEF Clocked
  <2>4. Aligned'
    BY <1>5, <2>2, <2>3 DEF Aligned
  <2>5. Len(times') <= Limit
    BY <1>t, <2>3
  <2>6. QED
    BY <2>3, <2>4, <2>5
<1>10. since' \in [Callers -> 0..Second] /\ need' \in [Callers -> Int]
  BY <1>1, <1>t DEF Clocked
<1>11. ASSUME NEW d \in Callers
       PROVE  pc'[d] # "waiting"
  BY <1>1 DEF Alone, Engaged, ICallers
<1>12. QED
  BY <1>5, <1>6, <1>8, <1>9, <1>10, <1>11 DEF Clocked

\* Every step keeps the invariant.
LEMMA StepRate == IOrders /\ IRate /\ [Next]_vars => IRate'
<1> SUFFICES ASSUME ICallers, IRate, [Next]_vars, Alone'
             PROVE  Clocked'
  BY DEF IOrders, IRate
<1>1. Alone
  BY StaysEngaged DEF Alone
<1>2. Clocked
  BY <1>1 DEF IRate
<1> DEFINE NoneWaits == \A c \in Callers : pc'[c] = "waiting" => pc[c] = "waiting"
\* A step that leaves the clock alone, and nobody to wait.
<1>3. ASSUME UNCHANGED clock, NoneWaits
      PROVE  Clocked'
  BY <1>2, <1>3 DEF Clocked, clock, Falling, Aligned, Paced
<1>a. ASSUME NEW c \in Callers, NEW to, to # "waiting", Moves(c, to)
      PROVE  NoneWaits
  BY <1>a DEF Moves, ICallers
<1>b. ASSUME NEW c \in Callers, NEW how, Ends(c, how)
      PROVE  NoneWaits
  BY <1>a, <1>b DEF Ends
<1>c. ASSUME NEW c \in Callers, NEW k, Begins(c, k)
      PROVE  NoneWaits
  BY <1>a, <1>c DEF Begins
<1> HIDE DEF NoneWaits
<1>4. \A c \in Callers : /\ Rejects(c) \/ Unread(c) => NoneWaits
                        /\ \A t \in Troubles : GivesUp(c, t) => NoneWaits
  BY <1>b DEF Rejects, GivesUp, Unread
<1>5. \A c \in Callers : Again(c) \/ Renewal(c) \/ Succeeds(c) => NoneWaits
  BY <1>a, <1>b, <1>c, <1>4 DEF Again, Renewal, Succeeds, Troubles
<1>6. ASSUME NEW c \in Callers, CreateOrder(c) \/ CancelOrder(c)
      PROVE  Clocked'
  <2>1. UNCHANGED clock /\ NoneWaits
    BY <1>6, <1>c DEF CreateOrder, CancelOrder
  <2>2. QED
    BY <1>3, <2>1
<1>7. ASSUME NEW c \in Callers, Login(c)
      PROVE  Clocked'
  <2>1. UNCHANGED clock
    BY <1>7 DEF Login
  <2>2. NoneWaits
    BY <1>7, <1>4, <1>a DEF Login
  <2>3. QED
    BY <1>3, <2>1, <2>2
<1>8. ASSUME NEW c \in Callers, Send(c) \/ Resend(c)
      PROVE  Clocked'
  <2>1. /\ UNCHANGED clock
        /\ \/ Succeeds(c) \/ Rejects(c) \/ Unread(c) \/ Again(c) \/ Renewal(c)
           \/ GivesUp(c, "broken")
    BY <1>8 DEF Send, Resend, Troubled, Broken
  <2>2. NoneWaits
    BY <1>4, <1>5, <2>1 DEF Troubles
  <2>3. QED
    BY <1>3, <2>1, <2>2
<1>9. ASSUME NEW c \in Callers, Check(c) \/ Record(c)
      PROVE  Clocked'
  BY <1>1, <1>2, <1>9, CheckRate, RecordRate
<1>10. CASE Tick
  BY <1>2, <1>10, TickRate
<1>11. CASE Expire \/ UNCHANGED vars
  BY <1>3, <1>11 DEF Expire, vars, NoneWaits
<1>12. QED
  BY <1>6, <1>7, <1>8, <1>9, <1>10, <1>11 DEF Next, Step

\* While one thread uses the exchange, rate_limit and a single request more pass
\* within a second, for any rate and however long the requests take.
THEOREM RateIsBounded == Spec => []RateBounded
<1>1. IRate => RateBounded
  <2> SUFFICES ASSUME IRate, Cardinality({c \in Callers : Engaged(c)}) <= 1
               PROVE  Len(recent) <= Limit + 1
    BY DEF RateBounded, Engaged
  <2>1. Alone
    <3> DEFINE E == {c \in Callers : Engaged(c)}
    <3>1. IsFiniteSet(E) /\ Cardinality(E) \in Nat
      BY RequestsAssumption, FS_Subset, FS_CardinalityType
    <3>2. ASSUME NEW c \in E, NEW d \in E, c # d
          PROVE  FALSE
      <4>1. IsFiniteSet({c, d}) /\ Cardinality({c, d}) = 2
        <5>1. IsFiniteSet({d}) /\ Cardinality({d}) = 1
          BY FS_Singleton
        <5>2. {c, d} = {d} \cup {c}
          OBVIOUS
        <5>3. QED
          BY <3>2, <5>1, <5>2, FS_AddElement
      <4>2. {c, d} \in SUBSET E
        OBVIOUS
      <4> HIDE DEF E
      <4>3. Cardinality({c, d}) <= Cardinality(E)
        BY <3>1, <4>2, FS_Subset
      <4>4. Cardinality(E) <= 1
        BY DEF E
      <4>5. QED
        BY <3>1, <4>1, <4>3, <4>4
    <3>3. QED
      BY <3>2 DEF Alone
  <2>2. Len(recent) \in Nat /\ Len(times) \in Nat /\ Len(recent) <= Len(times) + 1 /\ Len(times) <= Limit
    BY <2>1 DEF IRate, Clocked, Aligned, Ages
  <2>3. QED
    BY <2>2, RequestsAssumption
<1>2. Init => IRate
  BY InitRate
<1>3. IOrders /\ IRate /\ [Next]_vars => IRate'
  BY StepRate
<1>4. QED
  BY <1>1, <1>2, <1>3, OrdersInvariant, PTL DEF Spec
=============================================================================
