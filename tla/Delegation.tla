----------------------------- MODULE Delegation -----------------------------
(* The delegation broker (services/broker) between an agent and the API: a   *)
(* user's token of the identity provider is exchanged for a narrower one, a  *)
(* delegated one is exchanged again, or the gateway mints one for a single   *)
(* call; the API verifies either kind, the memory service the user's own.    *)
(* Keys are rotated and cached, either publisher of keys may be out of reach,*)
(* the lab's switches are read on every request, and time passes between any *)
(* two of these.                                                             *)
EXTENDS Integers, Sequences, FiniteSets

CONSTANTS
  Profiles, Scopes,    \* the agents registered, the scopes of the table
  Ceiling,             \* profile -> the scopes it may hold
  NeverDelegable,      \* scopes no delegated token carries
  Operations, Needs,   \* the gateway's operations and the scope each needs
  UserLife, Lifetime, GatewayLifetime,   \* seconds of validity, in model units
  Leeway,              \* clock leeway for users' tokens, and at the API for any
  BrokerDepth, ApiDepth, ApiLifetime,    \* limits the two services have each
  CacheFor, RefetchAfter,                \* ages of a cached key set
  MaxTime, MaxTokens, MaxChanges         \* bounds

ASSUME DelegationAssumption ==
  /\ Ceiling \in [Profiles -> SUBSET (Scopes \ NeverDelegable)]
  /\ Needs \in [Operations -> Scopes]
  /\ {UserLife, Lifetime, GatewayLifetime, Leeway, CacheFor, RefetchAfter} \subseteq Nat
  /\ {MaxTime, MaxTokens, MaxChanges} \subseteq Nat
  /\ {BrokerDepth, ApiDepth, ApiLifetime} \subseteq Nat
  /\ 0 < BrokerDepth /\ BrokerDepth <= ApiDepth /\ Lifetime <= ApiLifetime

Issuers  == {"idp", "broker"}
Caches   == {"idp at broker", "idp at api", "broker at api", "idp at memory"}
Switches == {"broker.passthrough", "ceiling.user_only", "chain.widen"}
Publisher == [c \in Caches |-> IF c = "broker at api" THEN "broker" ELSE "idp"]

VARIABLES
  now,
  tokens,     \* tokens in anybody's hands
  signing,    \* issuer -> the id of the key it signs with
  published,  \* issuer -> the ids of the keys it publishes
  withdrawn,  \* [iss, kid, at]: keys no longer published, since when
  serving,    \* issuer -> its keys can be fetched
  cache,      \* key sets as the verifiers hold them, with the time of the fetch
  settings,   \* the broker's switches at true
  changes,    \* rotations, outages and switches so far
  answer      \* what the last step answered, when that was to accept or to fail

vars == <<now, tokens, signing, published, withdrawn, serving, cache, settings, changes, answer>>

\* chain names the agents in delegation order. until is the expiry of the
\* user's token it comes from; loosened says an armed switch had a part in it.
Token == [iss: Issuers, kid: Nat, iat: Nat, exp: Nat, scopes: SUBSET Scopes,
          chain: Seq(Profiles), until: Nat, loosened: BOOLEAN]

Empty   == [keys |-> {}, at |-> -(CacheFor + 1)]
NoToken == [iss |-> "idp", kid |-> 0, iat |-> 0, exp |-> 0, scopes |-> {}, chain |-> <<>>,
            until |-> 0, loosened |-> FALSE]
Says(what, token) == [what |-> what, token |-> token]
Silence == Says("nothing", NoToken)

Init ==
  /\ now = 0 /\ tokens = {} /\ withdrawn = {} /\ changes = 0
  /\ signing = [i \in Issuers |-> 1]
  /\ published = [i \in Issuers |-> {1}]
  /\ serving = [i \in Issuers |-> TRUE]
  /\ cache = [c \in Caches |-> Empty]
  /\ settings = {}
  /\ answer = Silence

---------------------------------------------------------------------------
(* Key sets: JwksCache.get at the API and in the memory service's copy of   *)
(* it, KeycloakKeys.get at the broker.                                      *)

Age(c)     == now - cache[c].at
\* Mutant: a key set is only fetched again for a key it does not hold.
NeverStale(c) == FALSE
Stale(c)   == Age(c) > CacheFor
Unknown(c, kid) == kid \notin cache[c].keys

FetchesAtApi(c, kid) ==
  /\ cache[c].keys = {} \/ Stale(c) \/ Unknown(c, kid)
  /\ ~(Unknown(c, kid) /\ ~Stale(c) /\ Age(c) < RefetchAfter)

FetchesAtBroker(c, kid) ==
  \/ cache[c].keys = {} \/ Stale(c)
  \/ Unknown(c, kid) /\ Age(c) >= RefetchAfter

Fetches(c, kid) ==
  IF c = "idp at broker" THEN FetchesAtBroker(c, kid) ELSE FetchesAtApi(c, kid)

\* The set after the lookup: a fetch that fails leaves what is cached.
AfterLookup(c, kid) ==
  IF Fetches(c, kid) /\ serving[Publisher[c]]
  THEN [keys |-> published[Publisher[c]], at |-> now]
  ELSE cache[c]

Knows(c, kid) == kid \in AfterLookup(c, kid).keys
LooksUp(c, kid) == cache' = [cache EXCEPT ![c] = AfterLookup(c, kid)]

---------------------------------------------------------------------------
(* The broker.                                                              *)

Least(a, b) == IF a <= b THEN a ELSE b

\* Mutant: a token made from a delegated one gets a lifetime of its own.
MintedAfresh(from, chain, scopes, life, loosened) ==
  [iss |-> "broker", kid |-> signing["broker"], iat |-> now, exp |-> now + Least(life, Lifetime),
   scopes |-> scopes, chain |-> chain, until |-> from.until, loosened |-> loosened]

Minted(from, chain, scopes, life, loosened) ==
  [iss |-> "broker", kid |-> signing["broker"], iat |-> now,
   exp |-> Least(now + Least(life, Lifetime), from.exp),
   scopes |-> scopes, chain |-> chain, until |-> from.until, loosened |-> loosened]

Room == Cardinality(tokens) < MaxTokens

Mints(token) == tokens' = tokens \union {token} /\ answer' = Silence
Refuses      == answer' = Silence /\ UNCHANGED tokens

\* Mutant: a token that expires as it is issued is signed.
ExpiredBefore(token) == token.exp < token.iat

\* mint refuses to sign what has already expired.
Expired(token) == token.exp <= token.iat

Requestable == {s \in SUBSET Scopes : s # {} /\ s \intersect NeverDelegable = {}}

UserVerifies(t) == Knows("idp at broker", t.kid) /\ now <= t.exp + Leeway
OwnVerifies(t)  == t.kid = signing["broker"] /\ now <= t.exp

Delegable == Scopes \ NeverDelegable

ForUser(p) == IF "ceiling.user_only" \in settings THEN Delegable ELSE Ceiling[p]

\* Mutant: the agent's own ceiling bounds every exchange.
ForAnyone(p, t) == Ceiling[p]
ForDelegated(p, t) == IF "chain.widen" \in settings THEN Ceiling[p] ELSE t.scopes

MayExtend(t) == Len(t.chain) < BrokerDepth

ForAction(op) == Needs[op]

FirstActor(p) == <<p>>

ExchangeUserToken(p, t, requested) ==
  /\ Room /\ t.iss = "idp" /\ requested \in Requestable
  /\ LET loose == "ceiling.user_only" \in settings
         token == Minted(t, FirstActor(p), requested, Lifetime, loose)
     IN  IF UserVerifies(t) /\ requested \subseteq ForUser(p) /\ ~Expired(token)
         THEN Mints(token)
         ELSE Refuses
  /\ LooksUp("idp at broker", t.kid)
  /\ UNCHANGED <<now, signing, published, withdrawn, serving, settings, changes>>

ExchangeDelegatedToken(p, t, requested) ==
  /\ Room /\ t.iss = "broker" /\ requested \in Requestable
  /\ LET loose == "chain.widen" \in settings
         token == Minted(t, Append(t.chain, p), requested, Lifetime, loose \/ t.loosened)
     IN  IF /\ OwnVerifies(t) /\ MayExtend(t)
            /\ requested \subseteq ForDelegated(p, t) /\ ~Expired(token)
         THEN Mints(token)
         ELSE Refuses
  /\ UNCHANGED <<now, signing, published, withdrawn, serving, cache, settings, changes>>

\* The gateway mints outside its handler: an expired token is not an answer.
Gateway(p, op, t) ==
  /\ Room /\ t.iss = "idp" /\ "broker.passthrough" \notin settings
  /\ LET token == Minted(t, FirstActor(p), {ForAction(op)}, GatewayLifetime, FALSE) IN
     IF ~UserVerifies(t) \/ ForAction(op) \notin Ceiling[p] \ NeverDelegable
     THEN Refuses
     ELSE IF Expired(token) THEN answer' = Says("unhandled", t) /\ UNCHANGED tokens
     ELSE Mints(token)
  /\ LooksUp("idp at broker", t.kid)
  /\ UNCHANGED <<now, signing, published, withdrawn, serving, settings, changes>>

\* With the switch at true the user's own token goes on to the API: nothing is
\* minted, and what the API answers is Verify of that token.
GatewayPasses(t) ==
  /\ t.iss = "idp" /\ "broker.passthrough" \in settings
  /\ answer' = Silence
  /\ LooksUp("idp at broker", t.kid)
  /\ UNCHANGED <<now, tokens, signing, published, withdrawn, serving, settings, changes>>

---------------------------------------------------------------------------
(* The API: the issuer a token names chooses the rules it is held to.       *)

ApiCache(t) == IF t.iss = "idp" THEN "idp at api" ELSE "broker at api"

ClaimsHold(t) == now <= t.exp + Leeway
ActorChainHolds(t) == t.iss = "broker" => Len(t.chain) \in 1..ApiDepth
ShortLived(t) == t.iss = "broker" => t.exp - t.iat \in 1..ApiLifetime

Verify(t) ==
  /\ answer' = IF /\ Knows(ApiCache(t), t.kid)
                  /\ ClaimsHold(t) /\ ActorChainHolds(t) /\ ShortLived(t)
               THEN Says("accepted", t) ELSE Silence
  /\ LooksUp(ApiCache(t), t.kid)
  /\ UNCHANGED <<now, tokens, signing, published, withdrawn, serving, settings, changes>>

---------------------------------------------------------------------------
(* The memory service: the provider's keys, for a token that names it.      *)

NoKey == 0
\* The broker's key ids are none of the provider's, and are looked up first.
KidAtMemory(t) == IF t.iss = "idp" THEN t.kid ELSE NoKey

VerifyAtMemory(t) ==
  /\ answer' = IF Knows("idp at memory", KidAtMemory(t)) /\ t.iss = "idp" /\ ClaimsHold(t)
               THEN Says("accepted", t) ELSE Silence
  /\ LooksUp("idp at memory", KidAtMemory(t))
  /\ UNCHANGED <<now, tokens, signing, published, withdrawn, serving, settings, changes>>

---------------------------------------------------------------------------
(* Around them.                                                             *)

Tick ==
  /\ now < MaxTime /\ now' = now + 1 /\ answer' = Silence
  /\ UNCHANGED <<tokens, signing, published, withdrawn, serving, cache, settings, changes>>

LogIn ==
  /\ Room
  /\ tokens' = tokens \union {[NoToken EXCEPT !.kid = signing["idp"], !.iat = now,
                                              !.exp = now + UserLife, !.until = now + UserLife]}
  /\ answer' = Silence
  /\ UNCHANGED <<now, signing, published, withdrawn, serving, cache, settings, changes>>

Changes == changes < MaxChanges /\ changes' = changes + 1

\* A new signing key, published at once beside the old one or instead of it.
Rotate(i, keep) ==
  /\ Changes
  /\ answer' = Silence
  /\ signing' = [signing EXCEPT ![i] = @ + 1]
  /\ published' = [published EXCEPT ![i] = (IF keep THEN @ ELSE {}) \union {signing[i] + 1}]
  /\ withdrawn' = withdrawn \union
       {[iss |-> i, kid |-> k, at |-> now] : k \in IF keep THEN {} ELSE published[i]}
  /\ UNCHANGED <<now, tokens, serving, settings>>

RotateProvider(keep) == Rotate("idp", keep) /\ UNCHANGED cache

\* The broker has one key, and reads it when it starts: it forgets its cache.
RestartBroker ==
  \/ /\ Rotate("broker", FALSE)
     /\ cache' = [cache EXCEPT !["idp at broker"] = Empty]
  \/ /\ Changes /\ answer' = Silence
     /\ cache' = [cache EXCEPT !["idp at broker"] = Empty]
     /\ UNCHANGED <<now, tokens, signing, published, withdrawn, serving, settings>>

AtApi == {"idp at api", "broker at api"}

RestartApi ==
  /\ Changes /\ answer' = Silence
  /\ cache' = [c \in Caches |-> IF c \in AtApi THEN Empty ELSE cache[c]]
  /\ UNCHANGED <<now, tokens, signing, published, withdrawn, serving, settings>>

RestartMemory ==
  /\ Changes /\ answer' = Silence
  /\ cache' = [cache EXCEPT !["idp at memory"] = Empty]
  /\ UNCHANGED <<now, tokens, signing, published, withdrawn, serving, settings>>

StopOrServe(i) ==
  /\ answer' = Silence
  /\ serving[i] => Changes
  /\ ~serving[i] => UNCHANGED changes
  /\ serving' = [serving EXCEPT ![i] = ~@]
  /\ UNCHANGED <<now, tokens, signing, published, withdrawn, cache, settings>>

SetSwitch(s) ==
  /\ Changes /\ answer' = Silence
  /\ settings' = IF s \in settings THEN settings \ {s} ELSE settings \union {s}
  /\ UNCHANGED <<now, tokens, signing, published, withdrawn, serving, cache>>

Next ==
  \/ Tick \/ LogIn \/ RestartBroker \/ RestartApi \/ RestartMemory
  \/ \E t \in tokens :
       \/ Verify(t) \/ VerifyAtMemory(t) \/ GatewayPasses(t)
       \/ \E p \in Profiles :
            \/ \E op \in Operations : Gateway(p, op, t)
            \/ \E requested \in Requestable :
                 ExchangeUserToken(p, t, requested) \/ ExchangeDelegatedToken(p, t, requested)
  \/ \E keep \in BOOLEAN : RotateProvider(keep)
  \/ \E i \in Issuers : StopOrServe(i)
  \/ \E s \in Switches : SetSwitch(s)

Spec == Init /\ [][Next]_vars

---------------------------------------------------------------------------
(* Properties.                                                              *)

\* Every variable keeps its type; the broker's tokens, and only they, name agents.
TypeOK ==
  /\ now \in Nat /\ changes \in Nat
  /\ tokens \subseteq Token
  /\ \A t \in tokens : t.iss = "broker" <=> t.chain # <<>>
  /\ signing \in [Issuers -> Nat] /\ published \in [Issuers -> SUBSET Nat]
  /\ withdrawn \subseteq [iss: Issuers, kid: Nat, at: Nat]
  /\ serving \in [Issuers -> BOOLEAN]
  /\ cache \in [Caches -> [keys: SUBSET Nat, at: Int]]
  /\ settings \subseteq Switches
  /\ answer \in [what: {"nothing", "unhandled", "accepted"}, token: Token]

\* However often a token is exchanged, and whatever is rotated or switched in
\* between: no delegated token carries a scope that may not be delegated, and
\* unless an armed switch had a part in it, none carries more than the agent
\* the user delegated to may hold.
NarrowsAlongTheChain ==
  \A t \in tokens : t.iss = "broker" =>
    /\ t.scopes \intersect NeverDelegable = {}
    /\ t.loosened \/ t.scopes \subseteq Ceiling[t.chain[1]]

\* An agent's authority ends with the user's: the API accepts no token, at any
\* number of exchanges, later than it would have accepted the user's own.
DelegatedDiesWithUser ==
  answer.what = "accepted" => now <= answer.token.until + Leeway

\* The two services agree on what a delegated token is: one that the broker
\* has minted is within the limits the API holds it to, for depth and lifetime.
MintedIsAcceptable ==
  \A t \in tokens : ActorChainHolds(t) /\ ShortLived(t)

\* A key that is no longer published is not accepted, by the API or the memory
\* service, for longer than a key set is cached, unless the publisher is out
\* of reach when it is used.
RetiredKeysDie ==
  [][answer'.what = "accepted" =>
       \A w \in withdrawn :
         w.iss = answer'.token.iss /\ w.kid = answer'.token.kid =>
           now - w.at <= CacheFor \/ ~serving[w.iss]]_vars

=============================================================================
