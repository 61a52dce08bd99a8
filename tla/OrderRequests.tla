---------------------------- MODULE OrderRequests ----------------------------
(***************************************************************************)
(* Orders over HTTP: create_order() and cancel_order() of the exchanges    *)
(* with a REST adapter of their own, the retry decorator and the rate      *)
(* limit of base/exchange.py, and the renewal of the venue's session.      *)
(*                                                                         *)
(* Threads (a strategy's and the server's) share one exchange object: its  *)
(* request_times and its session.  Each thread makes one order, first      *)
(* looking its market up where the adapter does, and may then cancel it.   *)
(* Time is in ticks; only the age of a recorded request matters, and one   *)
(* older than a second is as good as gone.                                 *)
(***************************************************************************)
EXTENDS Integers, Sequences, FiniteSets

CONSTANTS Callers,
          Adapters,       \* which of Known are considered
          MaxRetries,     \* max_retries
          Limit,          \* rate_limit, requests per second
          Second,         \* ticks in a second
          MaxExpiries     \* bound: sessions the venue ends

Known == {"predictfun", "limitless", "kalshi", "polymarket", "opinion"}

ASSUME RequestsAssumption ==
    /\ IsFiniteSet(Callers) /\ Adapters \subseteq Known /\ MaxRetries \in Nat /\ MaxExpiries \in Nat
    /\ Limit \in Nat \ {0} /\ Second \in Nat \ {0}

VARIABLES
    adapter,
    session,              \* "good", "stale" at the venue, or "none" (no token)
    expiries,
    times,                \* request_times, as ages
    recent,               \* history: ages of the requests the rate limit let pass
    pc, what,             \* of each caller: its step, and the request it makes
    layer,                \* which of two nested retry decorators it is in
    tries,                \* failed attempts in each layer
    since, need,          \* of one that waits: ticks since "current_time", and till when
    sends,                \* history: how often its order was sent
    placed,               \* orders the venue accepted for the caller
    resting,              \* whether one of them rests
    unheard,              \* history: how answers to an order carried out went astray
    result                \* what the call returned or raised

clock == <<times, recent, since, need>>
venue == <<session, expiries, placed, resting, unheard>>
vars == <<adapter, clock, venue, pc, what, layer, tries, sends, result>>

Kinds == {"market", "order", "cancel"}
Fresh == [l \in {"outer", "inner"} |-> 0]

Init ==
    /\ adapter \in Adapters /\ session = "good" /\ expiries = 0
    /\ times = <<>> /\ recent = <<>>
    /\ pc = [c \in Callers |-> "idle"] /\ what = [c \in Callers |-> "order"]
    /\ layer = [c \in Callers |-> "inner"] /\ tries = [c \in Callers |-> Fresh]
    /\ since = [c \in Callers |-> 0] /\ need = [c \in Callers |-> 0]
    /\ sends = [c \in Callers |-> 0]
    /\ placed = [c \in Callers |-> 0] /\ resting = [c \in Callers |-> FALSE]
    /\ unheard = [c \in Callers |-> {}] /\ result = [c \in Callers |-> "none"]

Moves(c, to) == pc' = [pc EXCEPT ![c] = to]

\* The call returns or raises, and its variables are gone.
Ends(c, how) ==
    /\ Moves(c, "idle") /\ result' = [result EXCEPT ![c] = how]
    /\ what' = [what EXCEPT ![c] = "order"] /\ layer' = [layer EXCEPT ![c] = "inner"]
    /\ tries' = [tries EXCEPT ![c] = Fresh]

\* Adapters that renew their session, and those whose client is a library
\* outside the repository, called once.
Renews == adapter \in {"predictfun", "limitless"}
Direct == adapter \in {"polymarket", "opinion"}

\* Whether _retry_on_failure wraps a request.  Fault: it wraps every request.
RetriesAll(k) == TRUE
Retries(k) == ~Direct /\ (adapter = "kalshi" => k # "order")

\* The decorators around a request: fetch_market() adds one to that of
\* _request().  Fault: create_order() adds one, too.
NestsAll(k) == "outer"
Nests(k) == IF k = "market" THEN "outer" ELSE "inner"

\* The venue knows an order by its hash: it is signed once in create_order(),
\* outside the retried part.  Fault: it is signed for each attempt.
SignsAgain(c) == placed[c] + 1
Signs(c) == IF Renews THEN 1 ELSE placed[c] + 1
-----------------------------------------------------------------------------
(* The calls.                                                               *)

\* A request begins at the outermost of its decorators.  _ensure_authenticated()
\* logs in when the token is gone; no other adapter loses it.
Begins(c, k) ==
    /\ what' = [what EXCEPT ![c] = k] /\ layer' = [layer EXCEPT ![c] = Nests(k)]
    /\ tries' = [tries EXCEPT ![c] = Fresh]
    /\ Moves(c, IF Direct THEN "sending" ELSE IF session = "none" THEN "logging in" ELSE "checking")

CreateOrder(c) ==
    /\ pc[c] = "idle" /\ result[c] = "none" /\ Begins(c, IF Renews THEN "market" ELSE "order")
    /\ UNCHANGED <<adapter, clock, venue, sends, result>>

CancelOrder(c) ==
    /\ pc[c] = "idle" /\ result[c] = "created" /\ Begins(c, "cancel")
    /\ UNCHANGED <<adapter, clock, venue, sends, result>>

\* _check_rate_limit() looks at the times, and may sleep, ...
Check(c) ==
    /\ pc[c] = "checking" /\ Moves(c, "waiting")
    /\ since' = [since EXCEPT ![c] = 0]
    /\ need' = [need EXCEPT ![c] = IF Len(times) < Limit THEN 0 ELSE Second - Head(times)]
    /\ UNCHANGED <<adapter, venue, times, recent, what, layer, tries, sends, result>>

\* ... and records the time it began with.  Fault: nothing is recorded.
NotRecorded(c) == UNCHANGED times
Recorded(c) == times' = IF since[c] < Second THEN Append(times, since[c]) ELSE times

Record(c) ==
    /\ pc[c] = "waiting" /\ since[c] >= need[c] /\ Recorded(c)
    /\ IF layer[c] = "outer"
       THEN layer' = [layer EXCEPT ![c] = "inner"] /\ Moves(c, "checking")
       ELSE Moves(c, "sending") /\ UNCHANGED layer
    /\ since' = [since EXCEPT ![c] = 0] /\ need' = [need EXCEPT ![c] = 0]
    /\ recent' = Append(recent, 0)
    /\ UNCHANGED <<adapter, venue, what, tries, sends, result>>

\* One tick later: who is a second old is gone.
Older(ages) ==
    LET Kept[i \in 0..Len(ages)] ==
          IF i = 0 THEN <<>>
          ELSE IF ages[i] + 1 < Second THEN Append(Kept[i - 1], ages[i] + 1)
          ELSE Kept[i - 1]
    IN  Kept[Len(ages)]

\* Who need not sleep goes on at once.
Tick ==
    /\ \A c \in Callers : pc[c] = "waiting" => since[c] < need[c]
    /\ times' = Older(times) /\ recent' = Older(recent)
    /\ since' = [c \in Callers |-> IF pc[c] = "waiting" /\ since[c] < Second
                                   THEN since[c] + 1 ELSE since[c]]
    /\ UNCHANGED <<adapter, venue, need, pc, what, layer, tries, sends, result>>
-----------------------------------------------------------------------------
(* A request and what comes of it.                                          *)

\* A request for a market needs no session.
Authorized(c) == what[c] = "market" \/ session = "good"

\* What the venue does with a request it accepts.  An answer that arrives says
\* whether it did.
Handles(c) ==
    /\ placed' = [placed EXCEPT ![c] = IF what[c] = "order" THEN Signs(c) ELSE @]
    /\ resting' = [resting EXCEPT ![c] = (what[c] = "order")]

\* Accepted, and the answer arrives.  The market is for the order that follows.
Succeeds(c) ==
    /\ Handles(c) /\ UNCHANGED <<session, expiries, unheard>>
    /\ IF what[c] = "market"
       THEN Begins(c, "order") /\ UNCHANGED result
       ELSE Ends(c, IF what[c] = "order" THEN "created" ELSE "cancelled")

\* Carried out, and the caller does not learn of it.
Unanswered(c, trouble) ==
    /\ Handles(c) /\ UNCHANGED <<session, expiries>>
    /\ unheard' = [unheard EXCEPT ![c] = IF what[c] = "order" THEN @ \cup {trouble} ELSE @]

\* The venue refuses: an error of the call that is not retried.
Rejects(c) ==
    /\ Ends(c, IF what[c] = "cancel" THEN "uncancelled" ELSE "refused")
    /\ UNCHANGED venue

\* What a call raises for an answer that never came ("lost") and for one that says
\* nothing ("broken": status 5xx, a body that cannot be read).  Most adapters make
\* InvalidOrder, the error of an order that was refused, of them.
\* Fault: they all catch what base/exchange.py calls a NetworkError, too.
Troubles == {"lost", "broken"}
RefusesAll(trouble) == adapter # "opinion"
SaysRefused(trouble) ==
    IF trouble = "lost" THEN adapter \in {"limitless", "polymarket"} ELSE adapter # "opinion"

GivesUp(c, trouble) ==
    Ends(c, IF what[c] = "cancel" THEN "uncancelled"
            ELSE IF SaysRefused(trouble) THEN "refused" ELSE "unknown")

\* _retry_on_failure after a NetworkError or a RateLimitError: a pause of some
\* length and another attempt; an outer decorator tries when the inner gives up.
MayRetry(c, l) == tries[c][l] < MaxRetries

Again(c) ==
    IF Retries(what[c]) /\ MayRetry(c, "inner")
    THEN /\ tries' = [tries EXCEPT ![c]["inner"] = @ + 1]
         /\ Moves(c, "checking") /\ UNCHANGED <<what, layer, result>>
    ELSE IF Retries(what[c]) /\ Nests(what[c]) = "outer" /\ MayRetry(c, "outer")
    THEN /\ tries' = [tries EXCEPT ![c] = [inner |-> 0, outer |-> @["outer"] + 1]]
         /\ layer' = [layer EXCEPT ![c] = "outer"] /\ Moves(c, "checking")
         /\ UNCHANGED <<what, result>>
    ELSE GivesUp(c, "lost")

\* Lost on the way or throttled by the venue, or carried out and not answered.
Troubled(c) ==
    /\ Again(c)
    /\ UNCHANGED venue \/ (Authorized(c) /\ Unanswered(c, "lost"))

\* Carried out or not, and the answer does not say.  It is not retried.
Broken(c) ==
    /\ GivesUp(c, "broken")
    /\ UNCHANGED venue \/ (Authorized(c) /\ Unanswered(c, "broken"))

\* Polymarket refuses in an answer of status 200, whose "success", "errorMsg" and
\* "not_canceled" the adapter does not read.
Unread(c) ==
    /\ adapter = "polymarket" /\ UNCHANGED venue
    /\ Ends(c, IF what[c] = "order" THEN "created" ELSE "cancelled")

\* Status 401: predictfun drops its token before it asks for another one.
Renewal(c) ==
    /\ Moves(c, "renewing") /\ session' = IF adapter = "predictfun" THEN "none" ELSE session
    /\ UNCHANGED <<expiries, placed, resting, unheard, what, layer, tries, result>>

Counts(c) == sends' = [sends EXCEPT ![c] = IF what[c] = "order" THEN @ + 1 ELSE @]

Send(c) ==
    /\ pc[c] = "sending" /\ Counts(c)
    /\ \/ IF Authorized(c) THEN Succeeds(c) \/ Rejects(c) \/ Unread(c) ELSE Renewal(c)
       \/ Troubled(c) \/ Broken(c)
    /\ UNCHANGED <<adapter, clock>>

\* The request once more with the new session, past the rate limit.
Resend(c) ==
    /\ pc[c] = "resending" /\ Counts(c)
    /\ (Authorized(c) /\ Succeeds(c)) \/ Rejects(c) \/ Troubled(c) \/ Broken(c)
    /\ UNCHANGED <<adapter, clock>>

\* _authenticate(): any failure ends the call.
Login(c) ==
    /\ pc[c] \in {"logging in", "renewing"}
    /\ \/ /\ session' = "good"
          /\ Moves(c, IF pc[c] = "renewing" THEN "resending" ELSE "checking")
          /\ UNCHANGED <<expiries, placed, resting, unheard, what, layer, tries, result>>
       \/ Rejects(c)
    /\ UNCHANGED <<adapter, clock, sends>>

Expire ==
    /\ Renews /\ session = "good" /\ expiries < MaxExpiries
    /\ session' = "stale" /\ expiries' = expiries + 1
    /\ UNCHANGED <<adapter, clock, placed, resting, unheard, pc, what, layer, tries, sends, result>>
-----------------------------------------------------------------------------
Step(c) == Check(c) \/ Record(c) \/ Send(c) \/ Resend(c) \/ Login(c)

Next ==
    \/ \E c \in Callers : CreateOrder(c) \/ CancelOrder(c) \/ Step(c)
    \/ Tick \/ Expire

Spec == Init /\ [][Next]_vars
-----------------------------------------------------------------------------
(* Properties.                                                              *)

Steps == {"idle", "logging in", "checking", "waiting", "sending", "renewing", "resending"}
Results == {"none", "created", "refused", "unknown", "cancelled", "uncancelled"}

\* Every variable has its type.
TypeOK ==
    /\ adapter \in Adapters /\ session \in {"good", "stale", "none"} /\ expiries \in 0..MaxExpiries
    /\ times \in Seq(0..(Second - 1)) /\ recent \in Seq(0..(Second - 1))
    /\ pc \in [Callers -> Steps] /\ what \in [Callers -> Kinds]
    /\ layer \in [Callers -> {"outer", "inner"}]
    /\ tries \in [Callers -> [{"outer", "inner"} -> 0..MaxRetries]]
    /\ since \in [Callers -> 0..Second] /\ need \in [Callers -> 0..Second]
    /\ sends \in [Callers -> Nat] /\ placed \in [Callers -> Nat]
    /\ resting \in [Callers -> BOOLEAN] /\ unheard \in [Callers -> SUBSET Troubles]
    /\ result \in [Callers -> Results]

\* A call of create_order() never leaves two orders at the venue, whatever
\* requests and answers are lost: it is not retried, or what is retried is the
\* same signed order.
PlacedOnce == \A c \in Callers : placed[c] <= 1

\* What a call returns can be relied on.  An order it created is there and one it
\* cancelled is not, except on Polymarket, whose answers are not read.  Any other
\* end leaves no order behind unless an answer went astray; and InvalidOrder hides
\* an order at the venue only where the adapter raises it for such an answer or
\* sends the order again: on Kalshi never for a lost one, on Opinion never at all.
Reported ==
    \A c \in Callers : pc[c] = "idle" =>
       /\ result[c] = "created" /\ adapter # "polymarket" => placed[c] = 1 /\ resting[c]
       /\ result[c] = "cancelled" /\ adapter # "polymarket" => ~resting[c]
       /\ result[c] \in {"refused", "unknown"} /\ placed[c] > 0 => unheard[c] # {}
       /\ result[c] = "refused" /\ placed[c] > 0 =>
             adapter # "opinion" /\ (adapter = "kalshi" => "broken" \in unheard[c])

\* The retries of an order do not multiply: max_retries + 1 attempts, each sent
\* a second time at most after a renewal of the session.
AttemptsBounded == \A c \in Callers : sends[c] <= 2 * (MaxRetries + 1)

\* "rate_limit", requests per second: as long as one thread uses the exchange, a
\* single request more than that passes within a second, because one that had to
\* sleep is recorded with the time from before its sleep.  Threads that share an
\* exchange pass more: each checks before another records.
RateBounded ==
    Cardinality({c \in Callers : pc[c] # "idle" \/ result[c] # "none"}) <= 1 =>
        Len(recent) <= Limit + 1
=============================================================================
