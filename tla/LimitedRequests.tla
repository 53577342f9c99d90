-------------------------- MODULE LimitedRequests --------------------------
(***************************************************************************)
(* The endpoints that are rate limited: each consumes one counter per      *)
(* identity of the request it knows, one after the other, and does its     *)
(* work when all of them have let it pass.                                 *)
(***************************************************************************)
EXTENDS RateLimiter, FiniteSets

CONSTANTS
    Endpoint,        \* the endpoints this instance explores
    Identity,        \* the values each identity may have
    Request          \* HTTP requests that run concurrently

ASSUME EndpointAssumption == Endpoint \subseteq
    {"login", "refresh", "register", "verify", "reset_request", "reset_confirm", "anonymize",
     "create", "update", "change", "revoke", "invite", "uninvite", "accept", "workspace"}

----------------------------------------------------------------------------
(* Policies *)

\* What the authentication services count a request by.
SessionPolicies(endpoint) == IF endpoint = "login" THEN {"email"} ELSE {"ip", "token"}
RegistrationPolicies      == {"ip", "email"}
VerificationPolicies      == {"ip", "token"}
ResetPolicies(endpoint)   == {"ip", IF endpoint = "reset_request" THEN "email" ELSE "token"}
AnonymizationPolicies     == {"ip", "user"}

AuthPolicies(endpoint) ==
    CASE endpoint \in {"login", "refresh"} -> SessionPolicies(endpoint)
      [] endpoint = "register" -> RegistrationPolicies
      [] endpoint = "verify" -> VerificationPolicies
      [] endpoint \in {"reset_request", "reset_confirm"} -> ResetPolicies(endpoint)
      [] endpoint = "anonymize" -> AnonymizationPolicies
      [] OTHER -> {}

\* What the dependencies of the organization endpoints count it by.
OrganizationPolicies(endpoint) ==
    CASE endpoint \in {"create", "accept"} -> {"ip", "user"}
      [] endpoint \in {"update", "change", "revoke", "uninvite", "workspace"} ->
            {"ip", "user", "organization"}
      [] endpoint = "invite" -> {"ip", "user", "organization", "email"}
      [] OTHER -> {}

Policies(endpoint) == AuthPolicies(endpoint) \cup OrganizationPolicies(endpoint)

\* The order in which they are consumed.
Order == <<"ip", "user", "organization", "email", "token">>

First(kinds) ==
    Order[CHOOSE n \in DOMAIN Order : Order[n] \in kinds /\ \A m \in 1..n - 1 : Order[m] \notin kinds]

\* Mutant: what the first counter answers decides.
Rest_Decided(kinds) == {}

\* What is left to consume after the first.
Rest(kinds) == kinds \ {First(kinds)}

\* derive_key: a namespace for every endpoint and kind of identity.
derive_key(endpoint, identity, value) == <<endpoint, identity, value>>

Keys ==
    {k \in Endpoint \X (DOMAIN Identity) \X (UNION {Identity[i] : i \in DOMAIN Identity}) :
        k[2] \in Policies(k[1]) /\ k[3] \in Identity[k[2]]}

ASSUME IdentityAssumption == \A e \in Endpoint : Policies(e) \subseteq DOMAIN Identity

ASSUME KeyAssumption == Key = Keys

----------------------------------------------------------------------------
VARIABLES
    pc,      \* "idle", "check", "execute" or "refused"
    local,   \* what each request is about and what it has still to consume
    recent   \* history: the requests each key let pass less than a window ago,
             \* by their age and their number in the window that counted them

vars == <<counters, pc, local, recent>>

Callers(endpoint) ==
    {f \in [Policies(endpoint) -> UNION {Identity[i] : i \in Policies(endpoint)}] :
        \A i \in Policies(endpoint) : f[i] \in Identity[i]}

\* caller gives the request's identities, left the ones not consumed yet.
\* passed are those that were counted, or could not be; by is the key whose
\* counter refused the request, if one did, and wait the ticks it was told to
\* wait that are left.
Nothing == [endpoint |-> "none", caller |-> <<>>, left |-> {}, passed |-> {},
            by |-> {}, wait |-> 0]

arrive(r) ==
    /\ pc[r] \in {"idle", "refused"}
    /\ \E e \in Endpoint : \E caller \in Callers(e) :
        local' = [local EXCEPT ![r] = [Nothing EXCEPT !.endpoint = e, !.caller = caller,
                                                      !.left = Policies(e)]]
    /\ pc' = [pc EXCEPT ![r] = "check"]
    /\ UNCHANGED <<counters, recent>>

KeyOf(r) ==
    LET identity == First(local[r].left)
    IN derive_key(local[r].endpoint, identity, local[r].caller[identity])

\* The request has got this decision on its next key, from the counter by if
\* it comes from one.
Decided(r, decision, by) ==
    LET l == local[r] IN
    IF decision.allowed
    THEN /\ pc' = [pc EXCEPT ![r] = IF Rest(l.left) = {} THEN "execute" ELSE "check"]
         /\ local' = [local EXCEPT ![r].left = Rest(@), ![r].passed = @ \cup {First(l.left)}]
    ELSE /\ pc' = [pc EXCEPT ![r] = "refused"]
         /\ local' = [local EXCEPT ![r] = [Nothing EXCEPT !.by = by,
                                               !.wait = decision.retry_after * PerSecond]]

\* Redis has run the script and answered.
consume(r) ==
    LET k == KeyOf(r) IN
    /\ pc[r] = "check" /\ up
    /\ eval(k)
    /\ Decided(r, [allowed |-> allowed(k), retry_after |-> retry_after(k)], {k})
    /\ recent' = IF allowed(k) THEN [recent EXCEPT ![k] = @ \cup {<<0, count'[k]>>}] ELSE recent

\* The connection breaks, before the script or after it.
consume_unanswered(r) ==
    /\ pc[r] = "check"
    /\ \/ UNCHANGED counters
       \/ up /\ eval(KeyOf(r))
    /\ Decided(r, fallback, {})
    /\ UNCHANGED recent

\* The endpoint does its work, and answers.
execute(r) ==
    /\ pc[r] = "execute"
    /\ pc' = [pc EXCEPT ![r] = "idle"]
    /\ local' = [local EXCEPT ![r] = Nothing]
    /\ UNCHANGED <<counters, recent>>

Tick ==
    /\ Elapse
    /\ local' = [r \in Request |->
                    [local[r] EXCEPT !.wait = IF @ = 0 THEN 0 ELSE @ - 1]]
    /\ recent' = [k \in Key |-> {<<x[1] + 1, x[2]>> : x \in {y \in recent[k] : y[1] + 1 < Window}}]
    /\ UNCHANGED pc

outage == Toggle /\ UNCHANGED <<pc, local, recent>>

Init ==
    /\ count = [k \in Key |-> 0] /\ ttl = [k \in Key |-> 0] /\ up = TRUE
    /\ pc = [r \in Request |-> "idle"]
    /\ local = [r \in Request |-> Nothing]
    /\ recent = [k \in Key |-> {}]

Next ==
    \/ \E r \in Request : arrive(r) \/ consume(r) \/ consume_unanswered(r) \/ execute(r)
    \/ Tick \/ outage

\* Time passes.
Spec == Init /\ [][Next]_vars /\ WF_vars(Tick)
----------------------------------------------------------------------------
\* Windows start with a request and not with the clock, so no key lets more
\* than 2 * limit - 1 requests pass within the length of a window, wherever it
\* begins.
BurstIsBounded == \A k \in Key : Cardinality(recent[k]) <= 2 * Limit[k] - 1

\* As long as a refused client still has more than half a second to wait, the
\* window that refused it ends within half a second of the end of its wait,
\* whatever other requests that key has counted since.
WaitIsHonest ==
    \A r \in Request : \A k \in local[r].by :
        local[r].wait > Half =>
            ttl[k] <= local[r].wait + Half /\ ttl[k] >= local[r].wait - Half

\* What an endpoint does has been counted against every identity of its
\* caller, except where Redis did not answer.
ExecutedWasCounted ==
    \A r \in Request : pc[r] = "execute" => local[r].passed = DOMAIN local[r].caller

\* However often clients come back, a counter ends.
CountersEnd == \A k \in Key : count[k] > 0 ~> count[k] = 0
============================================================================
