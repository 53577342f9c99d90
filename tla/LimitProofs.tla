----------------------------- MODULE LimitProofs -----------------------------
(***************************************************************************)
(* Theorems about LimitedRequests, for any endpoints, identities, limits,  *)
(* windows and requests.                                                   *)
(***************************************************************************)
EXTENDS LimitedRequests, FiniteSetTheorems, TLAPS

----------------------------------------------------------------------------
(* The inductive invariants *)

\* The kinds of identity that requests are counted by.
Kinds == {"ip", "user", "organization", "email", "token"}

Local ==
    [endpoint : Endpoint \cup {"none"}, caller : (UNION {Callers(e) : e \in Endpoint}) \cup {<<>>},
     left : SUBSET Kinds, passed : SUBSET Kinds, by : SUBSET Key, wait : Nat]

\* A key exists exactly while its counter does.
CountersSound ==
    /\ count \in [Key -> Nat] /\ ttl \in [Key -> Nat] /\ up \in BOOLEAN
    /\ \A k \in Key :
        /\ count[k] <= Most(k) /\ ttl[k] <= Window
        /\ count[k] = 0 <=> ttl[k] = 0

\* What a request has passed and what it has left are what its endpoint asks.
RequestSound(label, l) ==
    /\ label \in {"check", "execute"} =>
            /\ l.endpoint \in Endpoint /\ l.caller \in Callers(l.endpoint)
            /\ l.left \cup l.passed = Policies(l.endpoint)
    /\ label = "check" => l.left # {}
    /\ label = "execute" => l.left = {}

RequestsSound ==
    /\ pc \in [Request -> {"idle", "check", "execute", "refused"}]
    /\ local \in [Request -> Local]
    /\ \A r \in Request : RequestSound(pc[r], local[r])

\* How long ago the window of a key began, or is to begin at the earliest.
Begun(k) == IF count[k] = 0 THEN 0 ELSE Window - ttl[k]

\* The requests of the current window have the numbers up to its count, the
\* first of them the age of the window. Of an earlier window the first request
\* is forgotten, and no other number is there twice.
RecentSound(k) ==
    /\ recent[k] \in SUBSET ((0..Window - 1) \X (1..Limit[k]))
    /\ \A x \in recent[k] :
        /\ x[1] <= Begun(k) => x[2] <= count[k] /\ (x[2] = 1 => x[1] = Begun(k))
        /\ x[1] > Begun(k) => x[2] >= 2
    /\ \A x, y \in recent[k] :
        x[2] = y[2] /\ (x[1] <= Begun(k) <=> y[1] <= Begun(k)) => x = y

HistorySound == DOMAIN recent = Key /\ \A k \in Key : RecentSound(k)

LimitsSound == CountersSound /\ RequestsSound /\ HistorySound /\ WaitIsHonest

----------------------------------------------------------------------------
(* Operators *)

\* A window is at least a tick long, and half a second a number of ticks.
LEMMA WindowType ==
    /\ Window \in Nat \ {0} /\ window_seconds \in Nat \ {0} /\ PerSecond \in Nat \ {0}
    /\ Half \in Nat /\ Half + Half = PerSecond
<1>1. /\ window_seconds \in Nat \ {0} /\ PerSecond \in Nat \ {0} /\ PerSecond % 2 = 0
  BY PolicyAssumption
<1>2. Window \in Nat \ {0}
  BY <1>1 DEF Window
<1>3. Half \in Nat /\ Half + Half = PerSecond
  BY <1>1 DEF Half
<1> QED
  BY <1>1, <1>2, <1>3

\* A number of ticks that is told in seconds is told to half a second.
LEMMA Rounding ==
    ASSUME NEW t \in Nat
    PROVE  /\ Seconds(t) * PerSecond \in Nat
           /\ Seconds(t) * PerSecond <= t + Half
           /\ t <= Seconds(t) * PerSecond + Half
<1>1. ASSUME NEW P \in Nat \ {0}, NEW H \in Nat, H + H = P
      PROVE  /\ ((t + H) \div P) * P \in Nat
             /\ ((t + H) \div P) * P <= t + H
             /\ t <= ((t + H) \div P) * P + H
  BY <1>1
<1> QED
  BY <1>1, WindowType DEF Seconds

\* Every limited endpoint counts its requests by some identity.
LEMMA PoliciesType ==
    ASSUME NEW e \in Endpoint
    PROVE  Policies(e) \in SUBSET Kinds /\ Policies(e) # {}
<1>1. e \in {"login", "refresh", "register", "verify", "reset_request", "reset_confirm",
             "anonymize"} => AuthPolicies(e) # {}
  BY DEF AuthPolicies, SessionPolicies, RegistrationPolicies, VerificationPolicies,
     ResetPolicies, AnonymizationPolicies
<1>2. e \in {"create", "update", "change", "revoke", "invite", "uninvite", "accept",
             "workspace"} => OrganizationPolicies(e) # {}
  BY DEF OrganizationPolicies
<1>3. AuthPolicies(e) \in SUBSET Kinds
  BY DEF AuthPolicies, SessionPolicies, RegistrationPolicies, VerificationPolicies,
     ResetPolicies, AnonymizationPolicies, Kinds
<1>4. OrganizationPolicies(e) \in SUBSET Kinds
  BY DEF OrganizationPolicies, Kinds
<1> QED
  BY <1>1, <1>2, <1>3, <1>4, EndpointAssumption DEF Policies

\* The identity that is consumed first is one of those to consume.
LEMMA FirstIn ==
    ASSUME NEW kinds \in SUBSET Kinds, kinds # {}
    PROVE  First(kinds) \in kinds
<1> DEFINE Least(n) == Order[n] \in kinds /\ \A m \in 1..n - 1 : Order[m] \notin kinds
<1>1. /\ DOMAIN Order = 1..5
      /\ Order[1] = "ip" /\ Order[2] = "user" /\ Order[3] = "organization"
      /\ Order[4] = "email" /\ Order[5] = "token"
  BY DEF Order
<1>2. CASE Order[1] \in kinds
  <2>1. Least(1)
    BY <1>2
  <2> QED
    BY <2>1, <1>1 DEF First
<1>3. CASE Order[1] \notin kinds /\ Order[2] \in kinds
  <2>1. Least(2)
    BY <1>3
  <2> QED
    BY <2>1, <1>1 DEF First
<1>4. CASE Order[1] \notin kinds /\ Order[2] \notin kinds /\ Order[3] \in kinds
  <2>1. Least(3)
    BY <1>4
  <2> QED
    BY <2>1, <1>1 DEF First
<1>5. CASE /\ Order[1] \notin kinds /\ Order[2] \notin kinds /\ Order[3] \notin kinds
           /\ Order[4] \in kinds
  <2>1. Least(4)
    BY <1>5
  <2> QED
    BY <2>1, <1>1 DEF First
<1>6. CASE /\ Order[1] \notin kinds /\ Order[2] \notin kinds /\ Order[3] \notin kinds
           /\ Order[4] \notin kinds
  <2>1. Order[5] \in kinds
    BY <1>1, <1>6 DEF Kinds
  <2>2. Least(5)
    BY <1>6, <2>1
  <2> QED
    BY <2>2, <1>1 DEF First
<1> QED
  BY <1>2, <1>3, <1>4, <1>5, <1>6

\* A request that checks has an identity left, and a key for it.
LEMMA KeyOfType ==
    ASSUME RequestsSound, NEW r \in Request, pc[r] = "check"
    PROVE  /\ KeyOf(r) \in Key
           /\ local[r].left \in SUBSET Kinds /\ First(local[r].left) \in local[r].left
<1> DEFINE i == First(local[r].left)  e == local[r].endpoint
<1>1. local[r].left \in SUBSET Kinds
  BY DEF RequestsSound, Local
<1>2. /\ e \in Endpoint /\ local[r].caller \in Callers(e)
      /\ local[r].left \in SUBSET Policies(e) /\ local[r].left # {}
  BY DEF RequestsSound, RequestSound
<1>3. i \in local[r].left
  BY <1>1, <1>2, FirstIn
<1>4. local[r].caller[i] \in Identity[i] /\ i \in Policies(e)
  BY <1>2, <1>3 DEF Callers
<1>5. i \in DOMAIN Identity
  BY <1>2, <1>4, IdentityAssumption
<1>6. KeyOf(r) = <<e, i, local[r].caller[i]>>
  BY DEF KeyOf, derive_key
<1> HIDE DEF i, e
<1>7. <<e, i, local[r].caller[i]>> \in Keys
  BY <1>2, <1>4, <1>5 DEF Keys
<1> QED
  BY <1>1, <1>3, <1>6, <1>7, KeyAssumption DEF i

----------------------------------------------------------------------------
(* Counters *)

\* The script counts the request that runs it, and no other key's.
LEMMA EvalEffect ==
    ASSUME CountersSound, NEW k \in Key, eval(k)
    PROVE  /\ CountersSound'
           /\ count'[k] \in Nat /\ count'[k] >= 1 /\ count'[k] <= Limit[k] + 1
           /\ count[k] <= Limit[k] => count'[k] = count[k] + 1
           /\ count[k] > Limit[k] => count'[k] = count[k]
           /\ count[k] = 0 => ttl'[k] = Window
           /\ count[k] > 0 => ttl'[k] = ttl[k]
           /\ \A o \in Key : o # k => count'[o] = count[o] /\ ttl'[o] = ttl[o]
<1>1. Limit[k] \in Nat \ {0}
  BY PolicyAssumption
<1>2. count[k] \in Nat /\ count[k] <= Limit[k] + 1
  BY DEF CountersSound, Most
<1>3. count'[k] = Counted(k) /\ ttl'[k] = Lifetime(k)
  BY DEF eval, CountersSound
<1>4. \A o \in Key : o # k => count'[o] = count[o] /\ ttl'[o] = ttl[o]
  BY DEF eval, CountersSound
<1>5. /\ Counted(k) \in Nat /\ Counted(k) >= 1 /\ Counted(k) <= Limit[k] + 1
      /\ count[k] <= Limit[k] => Counted(k) = count[k] + 1
      /\ count[k] > Limit[k] => Counted(k) = count[k]
  BY <1>1, <1>2 DEF Counted, Most
<1>6. /\ count[k] = 0 => Lifetime(k) = Window
      /\ count[k] > 0 => Lifetime(k) = ttl[k]
  BY <1>1, <1>2, <1>5 DEF Lifetime
<1>7. Lifetime(k) \in Nat /\ Lifetime(k) <= Window /\ Lifetime(k) # 0
  BY <1>2, <1>6, WindowType DEF CountersSound
<1>8. CountersSound'
  <2>1. count' \in [Key -> Nat] /\ ttl' \in [Key -> Nat] /\ up' \in BOOLEAN
    BY <1>5, <1>7 DEF eval, CountersSound
  <2>2. ASSUME NEW o \in Key
        PROVE  count'[o] <= Limit[o] + 1 /\ ttl'[o] <= Window /\ (count'[o] = 0 <=> ttl'[o] = 0)
    BY <1>3, <1>4, <1>5, <1>7 DEF CountersSound, Most
  <2> QED
    BY <2>1, <2>2 DEF CountersSound, Most, Window
<1> QED
  BY <1>3, <1>4, <1>5, <1>6, <1>8

\* Time takes a tick from every key that is there, and the key with the last.
LEMMA ElapseEffect ==
    ASSUME CountersSound, Elapse
    PROVE  /\ CountersSound'
           /\ \A k \in Key :
                /\ ttl[k] = 0 => ttl'[k] = 0
                /\ ttl[k] > 0 => ttl'[k] = ttl[k] - 1
                /\ ttl[k] > 1 => count'[k] = count[k]
                /\ ttl[k] <= 1 => count'[k] = 0
<1>1. \A k \in Key : ttl[k] \in Nat /\ count[k] \in Nat
  BY DEF CountersSound
<1>2. \A k \in Key :
        /\ ttl'[k] = IF ttl[k] = 0 THEN 0 ELSE ttl[k] - 1
        /\ count'[k] = IF ttl[k] <= 1 THEN 0 ELSE count[k]
  BY DEF Elapse
<1>3. count' \in [Key -> Nat] /\ ttl' \in [Key -> Nat] /\ up' \in BOOLEAN
  BY <1>1 DEF Elapse, CountersSound
<1>4. ASSUME NEW k \in Key
      PROVE  count'[k] <= Limit[k] + 1 /\ ttl'[k] <= Window /\ (count'[k] = 0 <=> ttl'[k] = 0)
  <2>1. Limit[k] \in Nat /\ Window \in Nat
    BY PolicyAssumption, WindowType
  <2> QED
    BY <1>1, <1>2, <2>1 DEF CountersSound, Most
<1>5. CountersSound'
  BY <1>3, <1>4 DEF CountersSound, Most, Window
<1> QED
  BY <1>1, <1>2, <1>5

----------------------------------------------------------------------------
(* Requests *)

\* A decision takes a request one identity further, or ends it.
LEMMA DecidedKeeps ==
    ASSUME RequestsSound, NEW r \in Request, pc[r] = "check",
           NEW decision, decision.retry_after * PerSecond \in Nat,
           NEW by \in SUBSET Key, Decided(r, decision, by)
    PROVE  /\ RequestsSound'
           /\ decision.allowed => local'[r].by = local[r].by /\ local'[r].wait = local[r].wait
           /\ ~decision.allowed => /\ local'[r].by = by
                                   /\ local'[r].wait = decision.retry_after * PerSecond
           /\ \A o \in Request : o # r => local'[o] = local[o]
<1> DEFINE l == local[r]  i == First(l.left)  w == decision.retry_after * PerSecond
<1>1. /\ l \in Local /\ l.left \in SUBSET Kinds /\ i \in l.left /\ l.left \cup l.passed = Policies(l.endpoint)
      /\ l.endpoint \in Endpoint /\ l.caller \in Callers(l.endpoint)
  BY KeyOfType DEF RequestsSound, RequestSound
<1>2. Nothing \in Local /\ \A e \in Endpoint : Callers(e) \subseteq UNION {Callers(x) : x \in Endpoint}
  BY DEF Nothing, Local
<1>3. CASE decision.allowed
  <2>1. /\ local' = [local EXCEPT ![r] = [l EXCEPT !.left = Rest(l.left), !.passed = @ \cup {i}]]
        /\ pc' = [pc EXCEPT ![r] = IF Rest(l.left) = {} THEN "execute" ELSE "check"]
    BY <1>3 DEF Decided, RequestsSound
  <2>2. local'[r] = [l EXCEPT !.left = Rest(l.left), !.passed = @ \cup {i}]
    BY <2>1 DEF RequestsSound
  <2>3. /\ local'[r].left = l.left \ {i} /\ local'[r].passed = l.passed \cup {i}
        /\ local'[r].endpoint = l.endpoint /\ local'[r].caller = l.caller
        /\ local'[r].by = l.by /\ local'[r].wait = l.wait /\ local'[r] \in Local
    <3> HIDE DEF i
    <3> DEFINE rest == l.left \ {i}
    <3>1. rest \in SUBSET Kinds /\ l.passed \cup {i} \in SUBSET Kinds
      BY <1>1 DEF Local
    <3>2. local'[r] = [l EXCEPT !.left = rest, !.passed = l.passed \cup {i}]
      BY <2>2 DEF Rest, i
    <3> HIDE DEF rest, l
    <3>3. /\ local'[r].left = rest /\ local'[r].passed = l.passed \cup {i}
          /\ local'[r].endpoint = l.endpoint /\ local'[r].caller = l.caller
          /\ local'[r].by = l.by /\ local'[r].wait = l.wait
      BY <1>1, <3>2 DEF Local
    <3>4. local'[r] \in Local
      BY <1>1, <3>1, <3>2 DEF Local
    <3> QED
      BY <3>3, <3>4 DEF rest
  <2>4. /\ pc' \in [Request -> {"idle", "check", "execute", "refused"}]
        /\ pc'[r] = IF l.left \ {i} = {} THEN "execute" ELSE "check"
        /\ \A o \in Request : o # r => pc'[o] = pc[o] /\ local'[o] = local[o]
    BY <2>1 DEF RequestsSound, Rest
  <2>5. local' \in [Request -> Local]
    BY <2>1, <2>2, <2>3 DEF RequestsSound
  <2>6. RequestSound(pc'[r], local'[r])
    BY <1>1, <2>3, <2>4 DEF RequestSound
  <2>7. RequestsSound'
    BY <2>4, <2>5, <2>6 DEF RequestsSound, RequestSound, Local
  <2> QED
    BY <1>3, <2>3, <2>4, <2>7
<1>4. CASE ~decision.allowed
  <2>1. /\ local' = [local EXCEPT ![r] = [Nothing EXCEPT !.by = by, !.wait = w]]
        /\ pc' = [pc EXCEPT ![r] = "refused"]
    BY <1>4 DEF Decided
  <2>2. local'[r] = [Nothing EXCEPT !.by = by, !.wait = w]
    BY <2>1 DEF RequestsSound
  <2>3. local'[r].by = by /\ local'[r].wait = w /\ local'[r] \in Local
    BY <1>2, <2>2 DEF Local, Nothing
  <2>4. /\ pc' \in [Request -> {"idle", "check", "execute", "refused"}]
        /\ pc'[r] = "refused"
        /\ \A o \in Request : o # r => pc'[o] = pc[o] /\ local'[o] = local[o]
    BY <2>1 DEF RequestsSound
  <2>5. local' \in [Request -> Local]
    BY <2>1, <2>2, <2>3 DEF RequestsSound
  <2>6. RequestSound(pc'[r], local'[r])
    BY <2>4 DEF RequestSound
  <2>7. RequestsSound'
    BY <2>4, <2>5, <2>6 DEF RequestsSound, RequestSound, Local
  <2> QED
    BY <1>4, <2>3, <2>4, <2>7
<1> QED
  BY <1>3, <1>4

----------------------------------------------------------------------------
(* The requests a key let pass *)

\* What RecentSound says of the requests and the counter of a key, for any
\* history h, count c, begin b and limit: the next states are shown in it.
Numbered(h, c, b, limit) ==
    /\ h \in SUBSET ((0..Window - 1) \X (1..limit))
    /\ \A x \in h : /\ x[1] <= b => x[2] <= c /\ (x[2] = 1 => x[1] = b)
                    /\ x[1] > b => x[2] >= 2
    /\ \A x, y \in h : x[2] = y[2] /\ (x[1] <= b <=> y[1] <= b) => x = y

LEMMA NumberedIsRecent ==
    /\ \A k \in Key : RecentSound(k) <=> Numbered(recent[k], count[k], Begun(k), Limit[k])
    /\ \A k \in Key :
        RecentSound(k)' <=> Numbered(recent'[k], count'[k], Begun(k)', Limit[k])
  BY DEF RecentSound, Numbered

\* The script takes no number away from the requests of a window.
LEMMA EvalNumbers ==
    ASSUME CountersSound, NEW k \in Key, eval(k), RecentSound(k)
    PROVE  Numbered(recent[k], count'[k], Begun(k)', Limit[k])
<1>1. /\ count[k] \in Nat /\ ttl[k] \in Nat /\ Window \in Nat \ {0} /\ ttl[k] <= Window
      /\ count[k] <= Limit[k] + 1 /\ Limit[k] \in Nat
  BY WindowType, PolicyAssumption DEF CountersSound, Most
<1>2. count'[k] \in Nat /\ count'[k] >= 1 /\ count'[k] >= count[k]
  BY <1>1, EvalEffect
<1>3. Begun(k)' = Begun(k) /\ Begun(k) \in Int
  <2>1. Begun(k)' = Window - ttl'[k]
    BY <1>2 DEF Begun, Window
  <2>2. CASE count[k] = 0
    BY <1>1, <2>1, <2>2, EvalEffect DEF Begun
  <2>3. CASE count[k] > 0
    BY <1>1, <2>1, <2>3, EvalEffect DEF Begun
  <2> QED
    BY <1>1, <2>2, <2>3
<1>4. Numbered(recent[k], count[k], Begun(k), Limit[k])
  BY NumberedIsRecent
<1>5. \A x \in recent[k] : x[1] \in Nat /\ x[2] \in Nat
  BY <1>1, <1>4 DEF Numbered
<1>6. \A x \in recent[k] : x[2] <= count[k] => x[2] <= count'[k]
  BY <1>1, <1>2, <1>5
<1> QED
  BY <1>3, <1>4, <1>6 DEF Numbered

\* A request that the script lets pass has a number of its own in the window
\* that counts it.
LEMMA PassNumbers ==
    ASSUME CountersSound, NEW k \in Key, eval(k), allowed(k), RecentSound(k)
    PROVE  Numbered(recent[k] \cup {<<0, count'[k]>>}, count'[k], Begun(k)', Limit[k])
<1> DEFINE b == Begun(k)'  c == count'[k]  new == <<0, c>>
<1>1. /\ count[k] \in Nat /\ ttl[k] \in Nat /\ Window \in Nat \ {0} /\ ttl[k] <= Window
      /\ Limit[k] \in Nat
  BY WindowType, PolicyAssumption DEF CountersSound
<1>2. c \in Nat /\ c = count[k] + 1 /\ c <= Limit[k]
  BY <1>1, EvalEffect DEF allowed
<1>3. b \in Int /\ b >= 0 /\ (c = 1 => b = 0)
  <2>1. b = Window - ttl'[k]
    BY <1>1, <1>2 DEF Begun, Window
  <2>2. CASE count[k] = 0
    BY <1>1, <2>1, <2>2, EvalEffect
  <2>3. CASE count[k] > 0
    BY <1>1, <1>2, <2>1, <2>3, EvalEffect
  <2> QED
    BY <1>1, <2>2, <2>3
<1>4. Numbered(recent[k], c, b, Limit[k])
  BY EvalNumbers
<1>5. \A x \in recent[k] : x[1] <= b => x[2] # c
  <2>1. TAKE x \in recent[k]
  <2>2. Begun(k) \in Int /\ (count[k] = 0 => Begun(k) = 0)
    BY <1>1 DEF Begun
  <2>3. Begun(k) = b
    <3>1. CASE count[k] = 0
      BY <1>1, <1>2, <2>2, <3>1, <1>3
    <3>2. CASE count[k] > 0
      BY <1>1, <1>2, <3>2, EvalEffect DEF Begun, Window
    <3> QED
      BY <1>1, <3>1, <3>2
  <2>4. x[1] <= b => x[2] <= count[k]
    BY <2>3 DEF RecentSound
  <2>5. x[2] \in Nat
    BY <1>1 DEF RecentSound
  <2> QED
    BY <1>1, <1>2, <2>4, <2>5
<1>6. new \in (0..Window - 1) \X (1..Limit[k]) /\ new[1] = 0 /\ new[2] = c
  BY <1>1, <1>2
<1> HIDE DEF b, c, new
<1>7. recent[k] \cup {new} \in SUBSET ((0..Window - 1) \X (1..Limit[k]))
  BY <1>4, <1>6 DEF Numbered
<1>8. \A x \in recent[k] \cup {new} : /\ x[1] <= b => x[2] <= c /\ (x[2] = 1 => x[1] = b)
                                      /\ x[1] > b => x[2] >= 2
  BY <1>2, <1>3, <1>4, <1>6 DEF Numbered
<1>9. \A x, y \in recent[k] \cup {new} :
        x[2] = y[2] /\ (x[1] <= b <=> y[1] <= b) => x = y
  BY <1>3, <1>4, <1>5, <1>6 DEF Numbered
<1>10. Numbered(recent[k] \cup {new}, c, b, Limit[k])
  BY <1>7, <1>8, <1>9 DEF Numbered
<1> QED
  BY <1>10 DEF new, c, b

\* A tick makes everything older. The first request of a window is as old as
\* the window, and is forgotten with the tick that ends it.
LEMMA TickNumbers ==
    ASSUME CountersSound, NEW k \in Key, Elapse, RecentSound(k)
    PROVE  Numbered({<<x[1] + 1, x[2]>> : x \in {y \in recent[k] : y[1] + 1 < Window}},
                    count'[k], Begun(k)', Limit[k])
<1> DEFINE h == {<<x[1] + 1, x[2]>> : x \in {y \in recent[k] : y[1] + 1 < Window}}
           b == Begun(k)'  c == count'[k]
<1>1. /\ count[k] \in Nat /\ ttl[k] \in Nat /\ Window \in Nat \ {0} /\ ttl[k] <= Window
      /\ Limit[k] \in Nat /\ (count[k] = 0 <=> ttl[k] = 0)
  BY WindowType, PolicyAssumption DEF CountersSound
<1>2. c \in Nat /\ (c = count[k] \/ c = 0)
  BY <1>1, ElapseEffect
<1>3. \A z \in h : \E x \in recent[k] :
        /\ z = <<x[1] + 1, x[2]>> /\ z[1] = x[1] + 1 /\ z[2] = x[2]
        /\ x[1] \in 0..Window - 1 /\ x[2] \in 1..Limit[k] /\ x[1] + 1 < Window
  BY DEF RecentSound
<1>4. h \in SUBSET ((0..Window - 1) \X (1..Limit[k]))
  BY <1>1, <1>3
<1>5. \A x \in recent[k] : x = <<x[1], x[2]>> /\ x[1] \in Nat /\ x[2] \in Nat /\ x[2] >= 1
  BY <1>1 DEF RecentSound
<1> HIDE DEF h
<1>6. CASE ttl[k] > 1
  <2>1. c = count[k] /\ count[k] > 0 /\ Begun(k) = Window - ttl[k] /\ b = Begun(k) + 1
        /\ Begun(k) \in Int /\ b \in Int
    BY <1>1, <1>6, ElapseEffect DEF Begun, Window
  <2> HIDE DEF b, c
  <2>2. \A z \in h : /\ z[1] <= b => z[2] <= c /\ (z[2] = 1 => z[1] = b)
                     /\ z[1] > b => z[2] >= 2
    BY <1>1, <1>3, <1>5, <2>1 DEF RecentSound
  <2>3. ASSUME NEW z \in h, NEW t \in h, z[2] = t[2], z[1] <= b <=> t[1] <= b
        PROVE  z = t
    <3>1. PICK x \in recent[k] : z = <<x[1] + 1, x[2]>> /\ z[1] = x[1] + 1 /\ z[2] = x[2]
      BY <1>3
    <3>2. PICK y \in recent[k] : t = <<y[1] + 1, y[2]>> /\ t[1] = y[1] + 1 /\ t[2] = y[2]
      BY <1>3
    <3>3. x[1] <= Begun(k) <=> y[1] <= Begun(k)
      BY <1>5, <2>1, <2>3, <3>1, <3>2
    <3>4. x = y
      BY <2>3, <3>1, <3>2, <3>3 DEF RecentSound
    <3> QED
      BY <3>1, <3>2, <3>4
  <2>4. Numbered(h, c, b, Limit[k])
    BY <1>4, <2>2, <2>3 DEF Numbered
  <2> QED
    BY <2>4 DEF h, b, c
<1>7. CASE ttl[k] <= 1
  <2>1. c = 0 /\ b = 0
    BY <1>1, <1>7, ElapseEffect DEF Begun
  <2>2. \A x \in recent[k] : x[1] + 1 < Window => x[2] >= 2
    <3>1. CASE ttl[k] = 0
      <4>1. Begun(k) = 0 /\ count[k] = 0
        BY <1>1, <3>1 DEF Begun
      <4>2. \A x \in recent[k] : x[1] > Begun(k)
        BY <1>1, <1>5, <4>1 DEF RecentSound
      <4> QED
        BY <4>2 DEF RecentSound
    <3>2. CASE ttl[k] = 1
      <4>1. Begun(k) = Window - 1
        BY <1>1, <3>2 DEF Begun
      <4>2. \A x \in recent[k] : x[1] <= Begun(k)
        BY <1>1, <4>1 DEF RecentSound
      <4>3. \A x \in recent[k] : x[1] + 1 < Window => x[1] # Begun(k)
        BY <1>1, <1>5, <4>1
      <4>4. \A x \in recent[k] : x[1] + 1 < Window => x[2] # 1
        BY <4>2, <4>3 DEF RecentSound
      <4> QED
        BY <1>5, <4>4
    <3> QED
      BY <1>1, <1>7, <3>1, <3>2
  <2>3. \A z \in h : z[1] > 0 /\ z[2] >= 2
    BY <1>3, <2>2
  <2>4. \A x, y \in recent[k] : x[1] + 1 < Window /\ y[1] + 1 < Window => (x[1] <= Begun(k) <=> y[1] <= Begun(k))
    <3>1. CASE ttl[k] = 0
      <4>1. Begun(k) = 0 /\ count[k] = 0
        BY <1>1, <3>1 DEF Begun
      <4>2. \A x \in recent[k] : x[1] > Begun(k)
        BY <1>1, <1>5, <4>1 DEF RecentSound
      <4>3. \A x \in recent[k] : ~(x[1] <= Begun(k))
        BY <1>5, <4>1, <4>2
      <4> QED
        BY <4>3
    <3>2. CASE ttl[k] = 1
      <4>1. Begun(k) = Window - 1
        BY <1>1, <3>2 DEF Begun
      <4> QED
        BY <1>1, <4>1 DEF RecentSound
    <3> QED
      BY <1>1, <1>7, <3>1, <3>2
  <2>5. ASSUME NEW z \in h, NEW t \in h, z[2] = t[2]
        PROVE  z = t
    <3>1. PICK x \in recent[k] : /\ z = <<x[1] + 1, x[2]>> /\ z[2] = x[2] /\ x[1] + 1 < Window
      BY <1>3
    <3>2. PICK y \in recent[k] : /\ t = <<y[1] + 1, y[2]>> /\ t[2] = y[2] /\ y[1] + 1 < Window
      BY <1>3
    <3>3. x[1] <= Begun(k) <=> y[1] <= Begun(k)
      BY <2>4, <3>1, <3>2
    <3>4. x = y
      BY <2>5, <3>1, <3>2, <3>3 DEF RecentSound
    <3> QED
      BY <3>1, <3>2, <3>4
  <2> HIDE DEF b, c
  <2>6. \A z \in h : z[1] \in Int
    BY <1>4
  <2>7. Numbered(h, c, b, Limit[k])
    BY <1>4, <2>1, <2>3, <2>5, <2>6 DEF Numbered
  <2> QED
    BY <2>7 DEF h, b, c
<1> QED
  BY <1>1, <1>6, <1>7

----------------------------------------------------------------------------
(* Steps *)

\* The script takes no honest wait away: the counter of a key that refused a
\* request runs, and keeps the time it has.
LEMMA EvalIsHonest ==
    ASSUME CountersSound, RequestsSound, NEW k \in Key, eval(k),
           NEW o \in Request, NEW x \in local[o].by, local[o].wait > Half,
           ttl[x] <= local[o].wait + Half, ttl[x] >= local[o].wait - Half
    PROVE  ttl'[x] = ttl[x]
<1>1. x \in Key /\ local[o].wait \in Nat
  BY DEF RequestsSound, Local
<1>2. ttl[x] > 0 /\ count[x] > 0
  <2>1. ttl[x] \in Nat /\ count[x] \in Nat /\ Half \in Nat
    BY <1>1, WindowType DEF CountersSound
  <2>2. ttl[x] > 0
    BY <1>1, <2>1
  <2> QED
    BY <1>1, <2>1, <2>2 DEF CountersSound
<1> QED
  BY <1>1, <1>2, EvalEffect

\* A request is accepted by its endpoint, which asks for some identity.
LEMMA ArriveSound ==
    ASSUME LimitsSound, NEW r \in Request, arrive(r)
    PROVE  LimitsSound'
<1>1. PICK e \in Endpoint : \E caller \in Callers(e) :
        local' = [local EXCEPT ![r] = [Nothing EXCEPT !.endpoint = e, !.caller = caller,
                                                      !.left = Policies(e)]]
  BY DEF arrive
<1>2. PICK caller \in Callers(e) :
        local' = [local EXCEPT ![r] = [Nothing EXCEPT !.endpoint = e, !.caller = caller,
                                                      !.left = Policies(e)]]
  BY <1>1
<1> DEFINE l == [Nothing EXCEPT !.endpoint = e, !.caller = caller, !.left = Policies(e)]
<1>3. Policies(e) \in SUBSET Kinds /\ Policies(e) # {}
  BY PoliciesType
<1>4. /\ l \in Local /\ l.endpoint = e /\ l.caller = caller /\ l.left = Policies(e)
      /\ l.passed = {} /\ l.by = {}
  BY <1>3 DEF Nothing, Local
<1>5. /\ local' = [local EXCEPT ![r] = l] /\ pc' = [pc EXCEPT ![r] = "check"]
      /\ UNCHANGED <<counters, recent>>
  BY <1>2 DEF arrive
<1> HIDE DEF l
<1>6. RequestSound("check", l)
  BY <1>3, <1>4 DEF RequestSound
<1>7. RequestsSound'
  BY <1>4, <1>5, <1>6 DEF LimitsSound, RequestsSound, RequestSound, Local
<1>8. WaitIsHonest'
  <2>1. local'[r] = l /\ \A o \in Request : o # r => local'[o] = local[o]
    BY <1>5 DEF LimitsSound, RequestsSound
  <2> QED
    BY <1>4, <1>5, <2>1 DEF LimitsSound, WaitIsHonest, Half, counters
<1>9. CountersSound' /\ HistorySound'
  BY <1>5 DEF LimitsSound, CountersSound, Most, Window, HistorySound, RecentSound, Begun, counters
<1> QED
  BY <1>7, <1>8, <1>9 DEF LimitsSound

\* The answer of the script keeps what it says of the counter, and what other
\* requests were told.
LEMMA ConsumeSound ==
    ASSUME LimitsSound, NEW r \in Request, consume(r)
    PROVE  LimitsSound'
<1>1. CountersSound /\ RequestsSound /\ HistorySound /\ WaitIsHonest
  BY DEF LimitsSound
<1>2. PICK k \in Key : k = KeyOf(r)
  BY <1>1, KeyOfType DEF consume
<1> DEFINE d == [allowed |-> allowed(k), retry_after |-> retry_after(k)]
<1>3. pc[r] = "check" /\ eval(k) /\ Decided(r, d, {k})
  BY <1>2 DEF consume
<1>4. k \in Key
  OBVIOUS
<1>5. d.allowed = allowed(k) /\ d.retry_after = retry_after(k)
  OBVIOUS
<1>6. recent' = IF allowed(k) THEN [recent EXCEPT ![k] = @ \cup {<<0, count'[k]>>}] ELSE recent
  BY <1>2 DEF consume
<1> HIDE DEF d
<1>7. CountersSound' /\ ttl'[k] \in Nat
  BY <1>1, <1>3, <1>4, EvalEffect DEF CountersSound
<1>8. d.retry_after * PerSecond \in Nat
  <2>1. CASE allowed(k)
    BY <1>5, <2>1, WindowType DEF retry_after
  <2>2. CASE ~allowed(k)
    BY <1>5, <1>7, <2>2, Rounding DEF retry_after
  <2> QED
    BY <2>1, <2>2
<1>9. /\ RequestsSound'
      /\ d.allowed => local'[r].by = local[r].by /\ local'[r].wait = local[r].wait
      /\ ~d.allowed => local'[r].by = {k} /\ local'[r].wait = d.retry_after * PerSecond
      /\ \A o \in Request : o # r => local'[o] = local[o]
  <2>1. {k} \in SUBSET Key
    BY <1>4
  <2> HIDE DEF RequestsSound
  <2> QED
    BY <1>1, <1>3, <1>8, <2>1, DecidedKeeps
<1>10. WaitIsHonest'
  <2>1. ASSUME NEW o \in Request, NEW x \in local[o].by, local[o].wait > Half
        PROVE  ttl'[x] <= local[o].wait + Half /\ ttl'[x] >= local[o].wait - Half
    <3>1. ttl[x] <= local[o].wait + Half /\ ttl[x] >= local[o].wait - Half
      BY <1>1, <2>1 DEF WaitIsHonest
    <3>2. ttl'[x] = ttl[x]
      BY <1>1, <1>3, <1>4, <2>1, <3>1, EvalIsHonest
    <3> QED
      BY <3>1, <3>2
  <2>2. CASE d.allowed
    <3>1. \A o \in Request : local'[o].by = local[o].by /\ local'[o].wait = local[o].wait
      BY <1>9, <2>2
    <3> QED
      BY <2>1, <3>1 DEF WaitIsHonest, Half
  <2>3. CASE ~d.allowed
    <3>1. local'[r].by = {k} /\ local'[r].wait = Seconds(ttl'[k]) * PerSecond
      BY <1>5, <1>9, <2>3 DEF retry_after
    <3>2. ttl'[k] <= local'[r].wait + Half /\ ttl'[k] >= local'[r].wait - Half
      <4> DEFINE w == Seconds(ttl'[k]) * PerSecond
      <4>1. w \in Nat /\ w <= ttl'[k] + Half /\ ttl'[k] <= w + Half
        BY <1>7, Rounding
      <4> HIDE DEF w
      <4>2. ttl'[k] <= w + Half /\ ttl'[k] >= w - Half
        BY <1>7, <4>1, WindowType
      <4> QED
        BY <3>1, <4>2 DEF w
    <3>3. \A o \in Request : o # r => local'[o].by = local[o].by /\ local'[o].wait = local[o].wait
      BY <1>9
    <3> QED
      BY <2>1, <3>1, <3>2, <3>3 DEF WaitIsHonest, Half
  <2> QED
    BY <2>2, <2>3
<1>11. HistorySound'
  <2>1. DOMAIN recent = Key /\ \A x \in Key : RecentSound(x)
    BY <1>1 DEF HistorySound
  <2>2. DOMAIN recent' = Key
    BY <1>4, <1>6, <2>1
  <2>3. ASSUME NEW x \in Key, x # k
        PROVE  RecentSound(x)'
    <3>1. recent'[x] = recent[x] /\ count'[x] = count[x] /\ ttl'[x] = ttl[x]
      BY <1>1, <1>3, <1>4, <1>6, <2>1, <2>3, EvalEffect
    <3>2. RecentSound(x)
      BY <2>1
    <3> QED
      BY <3>1, <3>2 DEF RecentSound, Begun, Window
  <2>4. RecentSound(k)'
    <3>1. CASE allowed(k)
      <4>1. recent'[k] = recent[k] \cup {<<0, count'[k]>>}
        BY <1>4, <1>6, <2>1, <3>1
      <4>2. Numbered(recent[k] \cup {<<0, count'[k]>>}, count'[k], Begun(k)', Limit[k])
        BY <1>1, <1>3, <1>4, <2>1, <3>1, PassNumbers
      <4> QED
        BY <1>4, <4>1, <4>2, NumberedIsRecent
    <3>2. CASE ~allowed(k)
      <4>1. recent'[k] = recent[k]
        BY <1>6, <3>2
      <4>2. Numbered(recent[k], count'[k], Begun(k)', Limit[k])
        BY <1>1, <1>3, <1>4, <2>1, EvalNumbers
      <4> QED
        BY <1>4, <4>1, <4>2, NumberedIsRecent
    <3> QED
      BY <3>1, <3>2
  <2> QED
    BY <2>2, <2>3, <2>4 DEF HistorySound
<1> QED
  BY <1>7, <1>9, <1>10, <1>11 DEF LimitsSound

\* Nor does an answer that is lost, counted or not.
LEMMA UnansweredSound ==
    ASSUME LimitsSound, NEW r \in Request, consume_unanswered(r)
    PROVE  LimitsSound'
<1>1. CountersSound /\ RequestsSound /\ HistorySound /\ WaitIsHonest
  BY DEF LimitsSound
<1>2. PICK k \in Key : k = KeyOf(r)
  BY <1>1, KeyOfType DEF consume_unanswered
<1>3. /\ pc[r] = "check" /\ Decided(r, fallback, {}) /\ recent' = recent
      /\ UNCHANGED counters \/ eval(k)
  BY <1>2 DEF consume_unanswered
<1>4. fallback.retry_after * PerSecond \in Nat
  BY WindowType DEF fallback
<1>5. /\ RequestsSound'
      /\ fallback.allowed => local'[r].by = local[r].by /\ local'[r].wait = local[r].wait
      /\ ~fallback.allowed => local'[r].by = {}
      /\ \A o \in Request : o # r => local'[o] = local[o]
  <2> HIDE DEF RequestsSound
  <2> QED
    BY <1>1, <1>3, <1>4, DecidedKeeps
<1>6. CountersSound' /\ HistorySound' /\ \A o \in Request : \A x \in local[o].by :
        local[o].wait > Half => /\ ttl'[x] <= local[o].wait + Half
                                /\ ttl'[x] >= local[o].wait - Half
  <2>1. CASE UNCHANGED counters
    BY <1>1, <1>3, <2>1
       DEF CountersSound, Most, Window, HistorySound, RecentSound, Begun, counters, WaitIsHonest
  <2>2. CASE eval(k)
    <3>1. CountersSound'
      BY <1>1, <1>2, <2>2, EvalEffect
    <3>2. ASSUME NEW x \in Key
          PROVE  RecentSound(x)'
      <4>1. RecentSound(x)
        BY <1>1 DEF HistorySound
      <4>2. CASE x = k
        <5>1. Numbered(recent[x], count'[x], Begun(x)', Limit[x])
          BY <1>1, <2>2, <4>1, <4>2, EvalNumbers
        <5> QED
          BY <1>3, <5>1, NumberedIsRecent
      <4>3. CASE x # k
        <5>1. recent'[x] = recent[x] /\ count'[x] = count[x] /\ ttl'[x] = ttl[x]
          BY <1>1, <1>3, <1>2, <2>2, <4>3, EvalEffect
        <5> QED
          BY <4>1, <5>1 DEF RecentSound, Begun, Window
      <4> QED
        BY <4>2, <4>3
    <3>3. ASSUME NEW o \in Request, NEW x \in local[o].by, local[o].wait > Half
          PROVE  ttl'[x] <= local[o].wait + Half /\ ttl'[x] >= local[o].wait - Half
      <4>1. ttl[x] <= local[o].wait + Half /\ ttl[x] >= local[o].wait - Half
        BY <1>1, <3>3 DEF WaitIsHonest
      <4>2. ttl'[x] = ttl[x]
        BY <1>1, <1>2, <2>2, <3>3, <4>1, EvalIsHonest
      <4> QED
        BY <4>1, <4>2
    <3>4. HistorySound'
      BY <1>1, <1>3, <3>2 DEF HistorySound
    <3> QED
      BY <3>1, <3>3, <3>4
  <2> QED
    BY <1>3, <2>1, <2>2
<1>7. WaitIsHonest'
  <2>1. CASE fallback.allowed
    <3>1. \A o \in Request : local'[o].by = local[o].by /\ local'[o].wait = local[o].wait
      BY <1>5, <2>1
    <3> QED
      BY <1>6, <3>1 DEF WaitIsHonest, Half
  <2>2. CASE ~fallback.allowed
    <3>1. local'[r].by = {} /\ \A o \in Request : o # r =>
            local'[o].by = local[o].by /\ local'[o].wait = local[o].wait
      BY <1>5, <2>2
    <3> QED
      BY <1>6, <3>1 DEF WaitIsHonest, Half
  <2> QED
    BY <2>1, <2>2
<1> QED
  BY <1>5, <1>6, <1>7 DEF LimitsSound

\* With a tick, what a client still has to wait and what a window still lasts
\* get shorter together.
LEMMA TickSound ==
    ASSUME LimitsSound, Tick
    PROVE  LimitsSound'
<1>1. CountersSound /\ RequestsSound /\ HistorySound /\ WaitIsHonest /\ Elapse
  BY DEF LimitsSound, Tick
<1>2. CountersSound'
  BY <1>1, ElapseEffect
<1>3. \A o \in Request :
        /\ local'[o] = [local[o] EXCEPT !.wait = IF @ = 0 THEN 0 ELSE @ - 1]
        /\ local[o] \in Local /\ local[o].wait \in Nat
  BY <1>1 DEF Tick, RequestsSound, Local
<1>4. \A o \in Request :
        /\ local'[o] \in Local
        /\ local'[o].wait = IF local[o].wait = 0 THEN 0 ELSE local[o].wait - 1
        /\ local'[o].endpoint = local[o].endpoint /\ local'[o].caller = local[o].caller
        /\ local'[o].left = local[o].left /\ local'[o].passed = local[o].passed
        /\ local'[o].by = local[o].by
  <2>1. TAKE o \in Request
  <2> DEFINE l == local[o]  w == IF l.wait = 0 THEN 0 ELSE l.wait - 1
  <2>2. local'[o] = [l EXCEPT !.wait = w] /\ l \in Local /\ w \in Nat
    BY <1>3
  <2> HIDE DEF l, w
  <2>3. /\ local'[o] \in Local /\ local'[o].wait = w
        /\ local'[o].endpoint = l.endpoint /\ local'[o].caller = l.caller
        /\ local'[o].left = l.left /\ local'[o].passed = l.passed /\ local'[o].by = l.by
    BY <2>2 DEF Local
  <2> QED
    BY <2>3 DEF l, w
<1>5. RequestsSound'
  <2>1. local' \in [Request -> Local] /\ pc' = pc
    BY <1>4 DEF Tick
  <2> QED
    BY <1>1, <1>4, <2>1 DEF RequestsSound, RequestSound, Local
<1>6. WaitIsHonest'
  <2>1. ASSUME NEW o \in Request, NEW x \in local'[o].by, local'[o].wait > Half
        PROVE  ttl'[x] <= local'[o].wait + Half /\ ttl'[x] >= local'[o].wait - Half
    <3>1. x \in local[o].by /\ x \in Key /\ Half \in Nat /\ local[o].wait \in Nat
      BY <1>3, <1>4, WindowType DEF Local
    <3>2. local[o].wait > Half /\ local'[o].wait = local[o].wait - 1
      BY <1>4, <2>1, <3>1
    <3>3. ttl[x] <= local[o].wait + Half /\ ttl[x] >= local[o].wait - Half
      BY <1>1, <3>1, <3>2 DEF WaitIsHonest
    <3>4. ttl[x] \in Nat /\ ttl'[x] = ttl[x] - 1
      BY <1>1, <3>1, <3>2, <3>3, ElapseEffect DEF CountersSound
    <3> QED
      BY <3>1, <3>2, <3>3, <3>4
  <2> QED
    BY <2>1 DEF WaitIsHonest, Half
<1>7. HistorySound'
  <2>1. /\ DOMAIN recent' = Key
        /\ \A k \in Key :
            recent'[k] = {<<x[1] + 1, x[2]>> : x \in {y \in recent[k] : y[1] + 1 < Window}}
    BY DEF Tick
  <2>2. ASSUME NEW k \in Key
        PROVE  RecentSound(k)'
    <3>1. RecentSound(k)
      BY <1>1 DEF HistorySound
    <3>2. Numbered({<<x[1] + 1, x[2]>> : x \in {y \in recent[k] : y[1] + 1 < Window}},
                   count'[k], Begun(k)', Limit[k])
      BY <1>1, <3>1, TickNumbers
    <3>3. Numbered(recent'[k], count'[k], Begun(k)', Limit[k])
      BY <2>1, <3>2
    <3> QED
      BY <3>3, NumberedIsRecent
  <2> QED
    BY <2>1, <2>2 DEF HistorySound
<1> QED
  BY <1>2, <1>5, <1>6, <1>7 DEF LimitsSound

\* Answering a request, and an outage, change no counter.
LEMMA ExecuteSound ==
    ASSUME LimitsSound, NEW r \in Request, execute(r)
    PROVE  LimitsSound'
<1>1. /\ local' = [local EXCEPT ![r] = Nothing] /\ pc' = [pc EXCEPT ![r] = "idle"]
      /\ UNCHANGED <<count, ttl, up, recent>>
  BY DEF execute, counters
<1>2. Nothing \in Local /\ Nothing.by = {}
  BY DEF Nothing, Local
<1>3. RequestsSound'
  BY <1>1, <1>2 DEF LimitsSound, RequestsSound, RequestSound, Local
<1>4. local'[r].by = {} /\ \A o \in Request : o # r => local'[o] = local[o]
  BY <1>1, <1>2 DEF LimitsSound, RequestsSound
<1>5. WaitIsHonest'
  BY <1>1, <1>4 DEF LimitsSound, WaitIsHonest, Half
<1>6. CountersSound' /\ HistorySound'
  BY <1>1 DEF LimitsSound, CountersSound, Most, Window, HistorySound, RecentSound, Begun
<1> QED
  BY <1>3, <1>5, <1>6 DEF LimitsSound

LEMMA OutageSound ==
    ASSUME LimitsSound, outage \/ UNCHANGED vars
    PROVE  LimitsSound'
<1>1. UNCHANGED <<count, ttl, pc, local, recent>> /\ up' \in BOOLEAN
  BY DEF outage, Toggle, vars, counters, LimitsSound, CountersSound
<1>2. RequestsSound' /\ WaitIsHonest'
  BY <1>1 DEF LimitsSound, RequestsSound, RequestSound, Local, WaitIsHonest, Half
<1>3. CountersSound' /\ HistorySound'
  BY <1>1 DEF LimitsSound, CountersSound, Most, Window, HistorySound, RecentSound, Begun
<1> QED
  BY <1>2, <1>3 DEF LimitsSound

----------------------------------------------------------------------------
(* Theorems *)

\* Counters, requests and the history stay sound: what the other theorems
\* about the limiter (RedisRateLimiter.consume and its callers) rest on.
THEOREM AlwaysLimited == Spec => []LimitsSound
<1>1. Init => LimitsSound
  <2> SUFFICES ASSUME Init
               PROVE  LimitsSound
    OBVIOUS
  <2>1. Nothing \in Local /\ Nothing.by = {}
    BY DEF Nothing, Local
  <2>2. RequestsSound
    BY <2>1 DEF Init, RequestsSound, RequestSound
  <2>3. WaitIsHonest
    BY <2>1 DEF Init, WaitIsHonest
  <2>4. CountersSound
    BY WindowType, PolicyAssumption DEF Init, CountersSound, Most
  <2>5. HistorySound
    BY DEF Init, HistorySound, RecentSound
  <2> QED
    BY <2>2, <2>3, <2>4, <2>5 DEF LimitsSound
<1>2. LimitsSound /\ [Next]_vars => LimitsSound'
  <2> SUFFICES ASSUME LimitsSound, [Next]_vars
               PROVE  LimitsSound'
    OBVIOUS
  <2>1. ASSUME NEW r \in Request, arrive(r) \/ consume(r) \/ consume_unanswered(r) \/ execute(r)
        PROVE  LimitsSound'
    BY <2>1, ArriveSound, ConsumeSound, UnansweredSound, ExecuteSound
  <2>2. CASE Tick
    BY <2>2, TickSound
  <2>3. CASE outage \/ UNCHANGED vars
    BY <2>3, OutageSound
  <2> QED
    BY <2>1, <2>2, <2>3 DEF Next
<1> QED
  BY <1>1, <1>2, PTL DEF Spec

\* A refused client is told how long the window that refused it still lasts,
\* to half a second, whatever its key counts meanwhile: only the request that
\* counts 1 sets the expiry.
THEOREM WaitsAreHonest == Spec => []WaitIsHonest
<1>1. LimitsSound => WaitIsHonest
  BY DEF LimitsSound
<1> QED
  BY <1>1, AlwaysLimited, PTL

\* An endpoint does its work only after each identity of the caller was
\* counted, or could not be, in a Redis that failed open.
THEOREM NothingIsUncounted == Spec => []ExecutedWasCounted
<1>1. LimitsSound => ExecutedWasCounted
  <2> SUFFICES ASSUME LimitsSound, NEW r \in Request, pc[r] = "execute"
               PROVE  local[r].passed = DOMAIN local[r].caller
    BY DEF ExecutedWasCounted
  <2>1. /\ local[r].caller \in Callers(local[r].endpoint)
        /\ local[r].passed = Policies(local[r].endpoint)
    BY DEF LimitsSound, RequestsSound, RequestSound
  <2> QED
    BY <2>1 DEF Callers
<1> QED
  BY <1>1, AlwaysLimited, PTL

\* However two windows of a key lie, no stretch of a window's length lets more
\* than 2 * limit - 1 requests pass: those of the window that runs have the
\* numbers 1..limit, and of an earlier one the first is out of the stretch.
THEOREM BurstsAreBounded == Spec => []BurstIsBounded
<1>1. LimitsSound => BurstIsBounded
  <2> SUFFICES ASSUME LimitsSound, NEW k \in Key
               PROVE  Cardinality(recent[k]) <= 2 * Limit[k] - 1
    BY DEF BurstIsBounded
  <2> DEFINE now == {x \in recent[k] : x[1] <= Begun(k)}
             before == {x \in recent[k] : x[1] > Begun(k)}
             number(s) == [x \in s |-> x[2]]
  <2>1. Limit[k] \in Nat \ {0} /\ RecentSound(k) /\ Begun(k) \in Int
    BY PolicyAssumption, WindowType DEF LimitsSound, HistorySound, CountersSound, Begun
  <2>2. \A x \in recent[k] : x[1] \in Int /\ x[2] \in 1..Limit[k]
    BY <2>1 DEF RecentSound
  <2>3. number(now) \in Injection(now, 1..Limit[k])
    <3>1. number(now) \in [now -> 1..Limit[k]]
      BY <2>2
    <3>2. \A x, y \in now : number(now)[x] = number(now)[y] => x = y
      BY <2>1, <2>2 DEF RecentSound
    <3> QED
      BY <3>1, <3>2 DEF Injection, IsInjective
  <2>4. number(before) \in Injection(before, 2..Limit[k])
    <3>1. \A x \in before : x[2] \in 2..Limit[k]
      BY <2>1, <2>2 DEF RecentSound
    <3>2. number(before) \in [before -> 2..Limit[k]]
      BY <3>1
    <3>3. \A x, y \in before : ~(x[1] <= Begun(k)) /\ ~(y[1] <= Begun(k))
      BY <2>1, <2>2
    <3>4. \A x, y \in before : number(before)[x] = number(before)[y] => x = y
      BY <2>1, <2>2, <3>3 DEF RecentSound
    <3> QED
      BY <3>2, <3>4 DEF Injection, IsInjective
  <2>5. recent[k] = now \cup before
    BY <2>1, <2>2
  <2> DEFINE f == number(now)  g == number(before)
  <2>6. f \in Injection(now, 1..Limit[k]) /\ g \in Injection(before, 2..Limit[k])
    BY <2>3, <2>4
  <2> HIDE DEF now, before, f, g
  <2>7. /\ IsFiniteSet(1..Limit[k]) /\ Cardinality(1..Limit[k]) = Limit[k]
        /\ IsFiniteSet(2..Limit[k]) /\ Cardinality(2..Limit[k]) = Limit[k] - 1
    <3>1. Limit[k] \in Int /\ 1 \in Int /\ 2 \in Int /\ Limit[k] >= 1
      BY <2>1
    <3>2. /\ IsFiniteSet(1..Limit[k])
          /\ Cardinality(1..Limit[k]) = IF 1 > Limit[k] THEN 0 ELSE Limit[k] - 1 + 1
      BY <3>1, FS_Interval
    <3>3. /\ IsFiniteSet(2..Limit[k])
          /\ Cardinality(2..Limit[k]) = IF 2 > Limit[k] THEN 0 ELSE Limit[k] - 2 + 1
      BY <3>1, FS_Interval
    <3> QED
      BY <3>1, <3>2, <3>3
  <2>8. IsFiniteSet(now) /\ Cardinality(now) <= Limit[k]
    BY <2>6, <2>7, FS_Injection
  <2>9. IsFiniteSet(before) /\ Cardinality(before) <= Limit[k] - 1
    BY <2>6, <2>7, FS_Injection
  <2>10. Cardinality(now \cup before)
            = Cardinality(now) + Cardinality(before) - Cardinality(now \cap before)
    BY <2>8, <2>9, FS_Union
  <2>11. /\ Cardinality(now) \in Nat /\ Cardinality(before) \in Nat
         /\ IsFiniteSet(now \cap before)
    BY <2>8, <2>9, FS_CardinalityType, FS_Intersection
  <2>12. Cardinality(now \cap before) \in Nat
    BY <2>11, FS_CardinalityType
  <2> QED
    BY <2>1, <2>5, <2>8, <2>9, <2>10, <2>11, <2>12
<1> QED
  BY <1>1, AlwaysLimited, PTL
============================================================================
