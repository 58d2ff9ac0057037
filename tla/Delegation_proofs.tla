--------------------------- MODULE Delegation_proofs ---------------------------
(* Proofs of the safety properties of Delegation, for every set of agents and *)
(* scopes, every lifetime and limit, and any number of tokens, rotations,     *)
(* outages and switches.                                                      *)
EXTENDS Delegation, TLAPS

(* A token ends no later than the user's it comes from; the broker's carry    *)
(* what the first agent of the chain may hold, within the API's limits.       *)
TokenSound(t) ==
  /\ t.exp <= t.until
  /\ t.iss = "broker" =>
       /\ t.scopes \intersect NeverDelegable = {}
       /\ t.loosened \/ t.scopes \subseteq Ceiling[t.chain[1]]
       /\ Len(t.chain) \in 1..ApiDepth
       /\ t.exp - t.iat \in 1..ApiLifetime

TokensSound == \A t \in tokens : TokenSound(t)

(* A key is published at most once; a key set that still holds a withdrawn    *)
(* key was fetched before the key was withdrawn.                              *)
KeysSound ==
  /\ \A i \in Issuers : published[i] \subseteq 1..signing[i]
  /\ \A w \in withdrawn : w.kid <= signing[w.iss] /\ w.kid \notin published[w.iss]
  /\ \A c \in Caches : cache[c].at <= now
  /\ \A c \in Caches, w \in withdrawn :
       w.iss = Publisher[c] /\ w.kid \in cache[c].keys => cache[c].at <= w.at

BrokerInv == TypeOK /\ TokensSound /\ KeysSound /\ DelegatedDiesWithUser

-----------------------------------------------------------------------------
(* Tokens and answers.                                                        *)
LEMMA Constants ==
  /\ UserLife \in Nat /\ Lifetime \in Nat /\ GatewayLifetime \in Nat /\ Leeway \in Nat
  /\ CacheFor \in Nat /\ RefetchAfter \in Nat /\ MaxTime \in Nat
  /\ BrokerDepth \in Nat /\ ApiDepth \in Nat /\ ApiLifetime \in Nat
BY DelegationAssumption

LEMMA NoTokenIsToken == NoToken \in Token /\ TokenSound(NoToken) /\ NoToken.iss = "idp"
                        /\ NoToken.chain = <<>> /\ NoToken.exp = 0 /\ NoToken.until = 0
<1>1. <<>> \in Seq(Profiles)
  OBVIOUS
<1> QED  BY <1>1 DEF NoToken, Token, TokenSound, Issuers

LEMMA SilenceIsAnswer ==
  Silence \in [what: {"nothing", "unhandled", "accepted"}, token: Token] /\ Silence.what = "nothing"
BY NoTokenIsToken DEF Silence, Says

LEMMA LeastOf ==
  ASSUME NEW a \in Nat, NEW b \in Nat
  PROVE  Least(a, b) \in Nat /\ Least(a, b) <= a /\ Least(a, b) <= b
BY DEF Least

LEMMA FieldsMakeToken ==
  ASSUME NEW i \in Issuers, NEW k \in Nat, NEW a \in Nat, NEW e \in Nat, NEW s \in SUBSET Scopes,
         NEW c \in Seq(Profiles), NEW u \in Nat, NEW l \in BOOLEAN
  PROVE  [iss |-> i, kid |-> k, iat |-> a, exp |-> e, scopes |-> s, chain |-> c,
          until |-> u, loosened |-> l] \in Token
BY Zenon DEF Token

(* What the broker signs is a sound token, when the scopes and the chain are. *)
LEMMA MintedIsSound ==
  ASSUME TypeOK, NEW from \in Token, TokenSound(from),
         NEW chain \in Seq(Profiles), NEW scopes \in SUBSET Scopes,
         NEW life \in Nat, NEW loose \in BOOLEAN,
         Len(chain) \in 1..ApiDepth,
         scopes \intersect NeverDelegable = {},
         loose \/ scopes \subseteq Ceiling[chain[1]],
         ~Expired(Minted(from, chain, scopes, life, loose))
  PROVE  /\ Minted(from, chain, scopes, life, loose) \in Token
         /\ TokenSound(Minted(from, chain, scopes, life, loose))
         /\ Minted(from, chain, scopes, life, loose).iss = "broker"
         /\ Minted(from, chain, scopes, life, loose).chain = chain
<1> DEFINE token == Minted(from, chain, scopes, life, loose)
           exp   == Least(now + Least(life, Lifetime), from.exp)
<1>1. /\ token.iss = "broker" /\ token.kid = signing["broker"] /\ token.iat = now
      /\ token.exp = exp /\ token.scopes = scopes /\ token.chain = chain
      /\ token.until = from.until /\ token.loosened = loose
  BY DEF Minted
<1>2. now \in Nat /\ signing["broker"] \in Nat
  BY DEF TypeOK, Issuers
<1>3. from.exp \in Nat /\ from.until \in Nat /\ from.exp <= from.until
  BY DEF Token, TokenSound
<1>4. Least(life, Lifetime) \in Nat /\ Least(life, Lifetime) <= Lifetime
  BY Constants, LeastOf
<1>5. exp \in Nat /\ exp <= now + Least(life, Lifetime) /\ exp <= from.exp
  <2>1. now + Least(life, Lifetime) \in Nat
    BY <1>2, <1>4
  <2> QED  BY <1>3, <2>1, LeastOf
<1>6. token \in Token
  <2>1. token = [iss |-> "broker", kid |-> signing["broker"], iat |-> now, exp |-> exp,
                 scopes |-> scopes, chain |-> chain, until |-> from.until, loosened |-> loose]
    BY DEF Minted
  <2> HIDE DEF token, exp
  <2>2. "broker" \in Issuers
    BY DEF Issuers
  <2> QED  BY <1>2, <1>3, <1>5, <2>1, <2>2, FieldsMakeToken
<1>7. exp > now
  <2>1. ~(token.exp <= token.iat)
    BY DEF Expired
  <2> HIDE DEF token, exp
  <2> QED  BY <1>1, <1>2, <1>5, <2>1
<1>8. exp - now \in 1..ApiLifetime
  <2> HIDE DEF exp
  <2> QED  BY <1>2, <1>4, <1>5, <1>7, DelegationAssumption, Constants
<1>9. exp <= from.until
  <2> HIDE DEF exp
  <2> QED  BY <1>3, <1>5
<1> HIDE DEF token, exp
<1>10. TokenSound(token)
  BY <1>1, <1>8, <1>9 DEF TokenSound
<1> QED  BY <1>1, <1>6, <1>10 DEF token

(* A handler either refuses or hands out one token more.                      *)
LEMMA HandsOut ==
  ASSUME BrokerInv, NEW token,
         \/ Refuses
         \/ /\ Mints(token) /\ token \in Token /\ TokenSound(token)
            /\ token.iss = "broker" <=> token.chain # <<>>
  PROVE  /\ tokens' \subseteq Token
         /\ \A t \in tokens' : t.iss = "broker" <=> t.chain # <<>>
         /\ TokensSound'
         /\ answer' = Silence
BY DEF BrokerInv, TypeOK, TokensSound, TokenSound, Refuses, Mints

LEMMA SilentAnswer ==
  ASSUME answer' = Silence
  PROVE  /\ answer' \in [what: {"nothing", "unhandled", "accepted"}, token: Token]
         /\ DelegatedDiesWithUser'
BY SilenceIsAnswer DEF DelegatedDiesWithUser

-----------------------------------------------------------------------------
(* Key sets.                                                                  *)
LEMMA Publishers == \A c \in Caches : Publisher[c] \in Issuers
BY DEF Caches, Publisher, Issuers

(* A lookup leaves the key sets typed and sound.                              *)
LEMMA LookupKeeps ==
  ASSUME BrokerInv, NEW c \in Caches, NEW kid, LooksUp(c, kid),
         UNCHANGED <<now, signing, published, withdrawn>>
  PROVE  cache' \in [Caches -> [keys: SUBSET Nat, at: Int]] /\ KeysSound'
<1> DEFINE new == AfterLookup(c, kid)
<1>1. cache' = [cache EXCEPT ![c] = new]
  BY DEF LooksUp
<1>2. /\ now \in Nat /\ cache \in [Caches -> [keys: SUBSET Nat, at: Int]]
      /\ published \in [Issuers -> SUBSET Nat]
      /\ withdrawn \subseteq [iss: Issuers, kid: Nat, at: Nat]
  BY DEF BrokerInv, TypeOK
<1>3. /\ new \in [keys: SUBSET Nat, at: Int]
      /\ new.at <= now
      /\ \A w \in withdrawn : w.iss = Publisher[c] /\ w.kid \in new.keys => new.at <= w.at
  <2>1. CASE Fetches(c, kid) /\ serving[Publisher[c]]
    <3>1. new = [keys |-> published[Publisher[c]], at |-> now]
      BY <2>1 DEF AfterLookup
    <3>2. published[Publisher[c]] \in SUBSET Nat
      BY <1>2, Publishers
    <3>3. \A w \in withdrawn : w.kid \notin published[w.iss]
      BY DEF BrokerInv, KeysSound
    <3> HIDE DEF new
    <3> QED  BY <1>2, <3>1, <3>2, <3>3
  <2>2. CASE ~(Fetches(c, kid) /\ serving[Publisher[c]])
    <3>1. new = cache[c]
      BY <2>2 DEF AfterLookup
    <3> HIDE DEF new
    <3> QED  BY <1>2, <3>1 DEF BrokerInv, KeysSound
  <2> QED  BY <2>1, <2>2
<1> HIDE DEF new
<1>4. cache' \in [Caches -> [keys: SUBSET Nat, at: Int]]
  BY <1>1, <1>2, <1>3
<1>5. \A d \in Caches : cache'[d] = IF d = c THEN new ELSE cache[d]
  BY <1>1, <1>2
<1>6. KeysSound'
  BY <1>3, <1>5 DEF BrokerInv, KeysSound
<1> QED  BY <1>4, <1>6

(* So does time, while nothing is fetched or withdrawn.                       *)
LEMMA KeysUntouched ==
  ASSUME BrokerInv, now' \in Nat, now <= now', UNCHANGED <<signing, published, withdrawn, cache>>
  PROVE  KeysSound'
<1>1. now \in Nat /\ cache \in [Caches -> [keys: SUBSET Nat, at: Int]]
  BY DEF BrokerInv, TypeOK
<1>2. \A c \in Caches : cache[c].at <= now'
  BY <1>1 DEF BrokerInv, KeysSound
<1> QED  BY <1>2 DEF BrokerInv, KeysSound

(* A cache that is forgotten holds no key.                                    *)
LEMMA EmptyCache == Empty.keys = {} /\ Empty.at \in Int /\ Empty.at < 0
                    /\ Empty \in [keys: SUBSET Nat, at: Int]
BY Constants DEF Empty

-----------------------------------------------------------------------------
(* The broker's handlers.                                                     *)
LEMMA ExchangeUserTokenKeeps ==
  ASSUME BrokerInv, NEW t \in tokens, NEW p \in Profiles, NEW requested \in Requestable,
         ExchangeUserToken(p, t, requested)
  PROVE  BrokerInv'
<1> DEFINE loose == "ceiling.user_only" \in settings
           token == Minted(t, FirstActor(p), requested, Lifetime, loose)
<1>1. t \in Token /\ TokenSound(t) /\ TypeOK
  BY DEF BrokerInv, TypeOK, TokensSound
<1>2. requested \in SUBSET Scopes /\ requested \intersect NeverDelegable = {}
  BY DEF Requestable
<1>3. /\ FirstActor(p) \in Seq(Profiles) /\ FirstActor(p)[1] = p /\ FirstActor(p) # <<>>
      /\ Len(FirstActor(p)) = 1 /\ Len(FirstActor(p)) \in 1..ApiDepth
  BY DelegationAssumption, Constants DEF FirstActor
<1>4. Refuses \/ (Mints(token) /\ requested \subseteq ForUser(p) /\ ~Expired(token))
  BY DEF ExchangeUserToken
<1>5. /\ LooksUp("idp at broker", t.kid)
      /\ UNCHANGED <<now, signing, published, withdrawn, serving, settings, changes>>
  BY DEF ExchangeUserToken
<1>6. /\ tokens' \subseteq Token
      /\ \A u \in tokens' : u.iss = "broker" <=> u.chain # <<>>
      /\ TokensSound'
      /\ answer' = Silence
  <2>1. CASE Refuses
    BY <2>1, HandsOut
  <2>2. CASE Mints(token) /\ requested \subseteq ForUser(p) /\ ~Expired(token)
    <3>1. loose \in BOOLEAN /\ (loose \/ requested \subseteq Ceiling[FirstActor(p)[1]])
      BY <1>3, <2>2 DEF ForUser
    <3> DEFINE chain == FirstActor(p)
    <3>2. token \in Token /\ TokenSound(token) /\ token.iss = "broker" /\ token.chain = chain
      <4>1. /\ chain \in Seq(Profiles) /\ Len(chain) \in 1..ApiDepth
            /\ loose \/ requested \subseteq Ceiling[chain[1]]
        BY <1>3, <3>1
      <4>2. token = Minted(t, chain, requested, Lifetime, loose) /\ ~Expired(token)
        BY <2>2
      <4> HIDE DEF loose, chain, token
      <4> QED  BY <1>1, <1>2, <3>1, <4>1, <4>2, Constants, MintedIsSound
    <3> HIDE DEF token
    <3> QED  BY <1>3, <2>2, <3>2, HandsOut
  <2> QED  BY <1>4, <2>1, <2>2
<1>7. cache' \in [Caches -> [keys: SUBSET Nat, at: Int]] /\ KeysSound'
  BY <1>5, LookupKeeps DEF Caches
<1>8. TypeOK'
  BY <1>1, <1>5, <1>6, <1>7, SilentAnswer DEF TypeOK
<1> QED  BY <1>6, <1>7, <1>8, SilentAnswer DEF BrokerInv

LEMMA ExchangeDelegatedTokenKeeps ==
  ASSUME BrokerInv, NEW t \in tokens, NEW p \in Profiles, NEW requested \in Requestable,
         ExchangeDelegatedToken(p, t, requested)
  PROVE  BrokerInv'
<1> DEFINE loose == "chain.widen" \in settings \/ t.loosened
           chain == Append(t.chain, p)
           token == Minted(t, chain, requested, Lifetime, loose)
<1>1. t \in Token /\ TokenSound(t) /\ TypeOK /\ t.iss = "broker" /\ t.chain # <<>>
  BY DEF BrokerInv, TypeOK, TokensSound, ExchangeDelegatedToken
<1>2. requested \in SUBSET Scopes /\ requested \intersect NeverDelegable = {}
  BY DEF Requestable
<1>3. Refuses \/ (/\ Mints(token) /\ Len(t.chain) < BrokerDepth
                  /\ requested \subseteq ForDelegated(p, t) /\ ~Expired(token))
  BY DEF ExchangeDelegatedToken, MayExtend
<1>4. UNCHANGED <<now, signing, published, withdrawn, serving, cache, settings, changes>>
  BY DEF ExchangeDelegatedToken
<1>5. /\ tokens' \subseteq Token
      /\ \A u \in tokens' : u.iss = "broker" <=> u.chain # <<>>
      /\ TokensSound'
      /\ answer' = Silence
  <2>1. CASE Refuses
    BY <2>1, HandsOut
  <2>2. CASE /\ Mints(token) /\ Len(t.chain) < BrokerDepth
             /\ requested \subseteq ForDelegated(p, t) /\ ~Expired(token)
    <3>1. t.chain \in Seq(Profiles) /\ t.loosened \in BOOLEAN
      BY <1>1 DEF Token
    <3>2. /\ chain \in Seq(Profiles) /\ chain # <<>> /\ Len(chain) = Len(t.chain) + 1
          /\ chain[1] = t.chain[1]
      BY <1>1, <3>1
    <3>3. Len(chain) \in 1..ApiDepth
      BY <2>2, <3>1, <3>2, Constants, DelegationAssumption
    <3>4. loose \in BOOLEAN /\ (loose \/ requested \subseteq Ceiling[chain[1]])
      BY <1>1, <2>2, <3>2 DEF ForDelegated, TokenSound
    <3> HIDE DEF chain, loose
    <3>5. token \in Token /\ TokenSound(token) /\ token.iss = "broker" /\ token.chain = chain
      BY <1>1, <1>2, <2>2, <3>2, <3>3, <3>4, Constants, MintedIsSound
    <3> HIDE DEF token
    <3> QED  BY <2>2, <3>2, <3>5, HandsOut
  <2> QED  BY <1>3, <2>1, <2>2
<1>6. KeysSound'
  BY <1>1, <1>4, KeysUntouched DEF TypeOK
<1>7. TypeOK'
  BY <1>1, <1>4, <1>5, SilentAnswer DEF TypeOK
<1> QED  BY <1>5, <1>6, <1>7, SilentAnswer DEF BrokerInv

LEMMA GatewayKeeps ==
  ASSUME BrokerInv, NEW t \in tokens, NEW p \in Profiles, NEW op \in Operations,
         Gateway(p, op, t)
  PROVE  BrokerInv'
<1> DEFINE token == Minted(t, FirstActor(p), {ForAction(op)}, GatewayLifetime, FALSE)
<1>1. t \in Token /\ TokenSound(t) /\ TypeOK
  BY DEF BrokerInv, TypeOK, TokensSound
<1>2. /\ FirstActor(p) \in Seq(Profiles) /\ FirstActor(p)[1] = p /\ FirstActor(p) # <<>>
      /\ Len(FirstActor(p)) = 1 /\ Len(FirstActor(p)) \in 1..ApiDepth
  BY DelegationAssumption, Constants DEF FirstActor
<1>3. \/ Refuses
      \/ answer' = Says("unhandled", t) /\ UNCHANGED tokens
      \/ Mints(token) /\ ForAction(op) \in Ceiling[p] \ NeverDelegable /\ ~Expired(token)
  BY DEF Gateway
<1>4. /\ LooksUp("idp at broker", t.kid)
      /\ UNCHANGED <<now, signing, published, withdrawn, serving, settings, changes>>
  BY DEF Gateway
<1>5. /\ tokens' \subseteq Token
      /\ \A u \in tokens' : u.iss = "broker" <=> u.chain # <<>>
      /\ TokensSound'
      /\ answer' = Silence \/ answer' = Says("unhandled", t)
  <2>1. CASE Refuses
    BY <2>1, HandsOut
  <2>2. CASE answer' = Says("unhandled", t) /\ UNCHANGED tokens
    BY <1>1, <2>2 DEF BrokerInv, TypeOK, TokensSound, TokenSound
  <2>3. CASE Mints(token) /\ ForAction(op) \in Ceiling[p] \ NeverDelegable /\ ~Expired(token)
    <3>1. /\ {ForAction(op)} \in SUBSET Scopes /\ {ForAction(op)} \intersect NeverDelegable = {}
          /\ {ForAction(op)} \subseteq Ceiling[FirstActor(p)[1]]
      BY <1>2, <2>3, DelegationAssumption
    <3> DEFINE chain == FirstActor(p)
               scopes == {ForAction(op)}
               loose == FALSE
    <3>2. token \in Token /\ TokenSound(token) /\ token.iss = "broker" /\ token.chain = chain
      <4>1. /\ chain \in Seq(Profiles) /\ Len(chain) \in 1..ApiDepth
            /\ scopes \in SUBSET Scopes /\ scopes \intersect NeverDelegable = {}
            /\ loose \in BOOLEAN /\ (loose \/ scopes \subseteq Ceiling[chain[1]])
        BY <1>2, <3>1
      <4>2. token = Minted(t, chain, scopes, GatewayLifetime, loose) /\ ~Expired(token)
        BY <2>3
      <4> HIDE DEF loose, chain, scopes, token
      <4> QED  BY <1>1, <4>1, <4>2, Constants, MintedIsSound
    <3> HIDE DEF token
    <3> QED  BY <1>2, <2>3, <3>2, HandsOut
  <2> QED  BY <1>3, <2>1, <2>2, <2>3
<1>6. cache' \in [Caches -> [keys: SUBSET Nat, at: Int]] /\ KeysSound'
  BY <1>4, LookupKeeps DEF Caches
<1>7. /\ answer' \in [what: {"nothing", "unhandled", "accepted"}, token: Token]
      /\ DelegatedDiesWithUser'
  <2>1. CASE answer' = Silence
    BY <2>1, SilentAnswer
  <2>2. CASE answer' = Says("unhandled", t)
    BY <1>1, <2>2 DEF Says, DelegatedDiesWithUser
  <2> QED  BY <1>5, <2>1, <2>2
<1>8. TypeOK'
  BY <1>1, <1>4, <1>5, <1>6, <1>7 DEF TypeOK
<1> QED  BY <1>5, <1>6, <1>7, <1>8 DEF BrokerInv

LEMMA GatewayPassesKeeps ==
  ASSUME BrokerInv, NEW t \in tokens, GatewayPasses(t)
  PROVE  BrokerInv'
<1>1. /\ LooksUp("idp at broker", t.kid) /\ answer' = Silence
      /\ UNCHANGED <<now, tokens, signing, published, withdrawn, serving, settings, changes>>
  BY DEF GatewayPasses
<1>2. cache' \in [Caches -> [keys: SUBSET Nat, at: Int]] /\ KeysSound'
  BY <1>1, LookupKeeps DEF Caches
<1>3. TypeOK' /\ TokensSound'
  BY <1>1, <1>2, SilentAnswer DEF BrokerInv, TypeOK, TokensSound, TokenSound
<1> QED  BY <1>1, <1>2, <1>3, SilentAnswer DEF BrokerInv

-----------------------------------------------------------------------------
(* The API and the memory service.                                            *)
LEMMA VerdictKeeps ==
  ASSUME BrokerInv, NEW t \in tokens, NEW c \in Caches, NEW kid, LooksUp(c, kid),
         UNCHANGED <<now, tokens, signing, published, withdrawn, serving, settings, changes>>,
         answer' = Silence \/ (answer' = Says("accepted", t) /\ now <= t.exp + Leeway)
  PROVE  BrokerInv'
<1>1. t \in Token /\ TokenSound(t) /\ TypeOK
  BY DEF BrokerInv, TypeOK, TokensSound
<1>2. /\ UNCHANGED <<now, tokens, signing, published, withdrawn, serving, settings, changes>>
      /\ answer' = Silence \/ (answer' = Says("accepted", t) /\ now <= t.exp + Leeway)
  OBVIOUS
<1>3. cache' \in [Caches -> [keys: SUBSET Nat, at: Int]] /\ KeysSound'
  BY <1>2, LookupKeeps
<1>4. /\ answer' \in [what: {"nothing", "unhandled", "accepted"}, token: Token]
      /\ DelegatedDiesWithUser'
  <2>1. CASE answer' = Silence
    BY <2>1, SilentAnswer
  <2>2. CASE answer' = Says("accepted", t) /\ now <= t.exp + Leeway
    <3>1. answer' \in [what: {"nothing", "unhandled", "accepted"}, token: Token]
          /\ answer'.token = t
      BY <1>1, <2>2 DEF Says
    <3>2. t.exp \in Nat /\ t.until \in Nat /\ t.exp <= t.until /\ now \in Nat
      BY <1>1 DEF Token, TokenSound, TypeOK
    <3>3. now <= t.until + Leeway
      BY <2>2, <3>2, Constants
    <3> QED  BY <1>2, <3>1, <3>3 DEF DelegatedDiesWithUser
  <2> QED  BY <1>2, <2>1, <2>2
<1>5. TypeOK' /\ TokensSound'
  BY <1>1, <1>2, <1>3, <1>4 DEF BrokerInv, TypeOK, TokensSound, TokenSound
<1> QED  BY <1>3, <1>4, <1>5 DEF BrokerInv

LEMMA VerifyKeeps ==
  ASSUME BrokerInv, NEW t \in tokens, Verify(t)
  PROVE  BrokerInv'
<1>1. ApiCache(t) \in Caches
  BY DEF ApiCache, Caches
<1> QED  BY <1>1, VerdictKeeps DEF Verify, ClaimsHold

LEMMA VerifyAtMemoryKeeps ==
  ASSUME BrokerInv, NEW t \in tokens, VerifyAtMemory(t)
  PROVE  BrokerInv'
<1>1. "idp at memory" \in Caches
  BY DEF Caches
<1> QED  BY <1>1, VerdictKeeps DEF VerifyAtMemory, ClaimsHold

(* The key sets that JwksCache keeps.                                         *)
ByJwksCache == Caches \ {"idp at broker"}

(* A withdrawn key is accepted from a cache that is still fresh, or because   *)
(* the publisher could not be asked.                                          *)
LEMMA RetiredKeyKnown ==
  ASSUME BrokerInv, NEW c \in ByJwksCache, NEW w \in withdrawn,
         w.iss = Publisher[c], Knows(c, w.kid)
  PROVE  now - w.at <= CacheFor \/ ~serving[w.iss]
<1> DEFINE kid == w.kid
<1>1. kid \in AfterLookup(c, kid).keys
  BY DEF Knows
<1>2. /\ now \in Nat /\ w.at \in Nat /\ cache[c].at \in Int
      /\ kid \notin published[Publisher[c]]
      /\ kid \in cache[c].keys => cache[c].at <= w.at
  BY DEF BrokerInv, TypeOK, KeysSound, ByJwksCache
<1> HIDE DEF kid
<1>3. CASE Fetches(c, kid) /\ serving[Publisher[c]]
  <2>1. AfterLookup(c, kid) = [keys |-> published[Publisher[c]], at |-> now]
    BY <1>3 DEF AfterLookup
  <2> QED  BY <1>1, <1>2, <2>1
<1>4. CASE ~serving[Publisher[c]]
  BY <1>4
<1>5. CASE ~Fetches(c, kid)
  <2>1. kid \in cache[c].keys
    BY <1>1, <1>5 DEF AfterLookup
  <2>2. ~Stale(c)
    BY <1>5, <2>1 DEF Fetches, FetchesAtApi, Unknown, ByJwksCache
  <2> QED  BY <1>2, <2>1, <2>2, Constants DEF Stale, Age
<1> QED  BY <1>3, <1>4, <1>5

LEMMA RetiredKeyAccepted ==
  ASSUME BrokerInv, NEW t \in tokens, Verify(t) \/ VerifyAtMemory(t),
         answer'.what = "accepted",
         NEW w \in withdrawn, w.iss = answer'.token.iss, w.kid = answer'.token.kid
  PROVE  now - w.at <= CacheFor \/ ~serving[w.iss]
<1>1. CASE Verify(t)
  <2>1. answer' = Says("accepted", t) /\ Knows(ApiCache(t), t.kid)
    BY <1>1, SilenceIsAnswer DEF Verify
  <2>2. ApiCache(t) \in ByJwksCache /\ Publisher[ApiCache(t)] = t.iss
    BY DEF ByJwksCache, ApiCache, Caches, Publisher, BrokerInv, TypeOK, Token, Issuers
  <2>3. w.iss = t.iss /\ w.kid = t.kid
    BY <2>1 DEF Says
  <2> QED  BY <2>1, <2>2, <2>3, RetiredKeyKnown
<1>2. CASE VerifyAtMemory(t)
  <2>1. answer' = Says("accepted", t) /\ t.iss = "idp" /\ Knows("idp at memory", t.kid)
    BY <1>2, SilenceIsAnswer DEF VerifyAtMemory, KidAtMemory
  <2>2. "idp at memory" \in ByJwksCache /\ Publisher["idp at memory"] = t.iss
    BY <2>1 DEF ByJwksCache, Caches, Publisher
  <2>3. w.iss = t.iss /\ w.kid = t.kid
    BY <2>1 DEF Says
  <2> QED  BY <2>1, <2>2, <2>3, RetiredKeyKnown
<1> QED  BY <1>1, <1>2

-----------------------------------------------------------------------------
(* Around them.                                                               *)
LEMMA TickKeeps ==
  ASSUME BrokerInv, Tick
  PROVE  BrokerInv'
<1>1. /\ now \in Nat /\ now' = now + 1 /\ answer' = Silence
      /\ UNCHANGED <<tokens, signing, published, withdrawn, serving, cache, settings, changes>>
  BY DEF Tick, BrokerInv, TypeOK
<1>2. now' \in Nat /\ now <= now'
  BY <1>1
<1>3. KeysSound'
  BY <1>1, <1>2, KeysUntouched
<1>4. TypeOK' /\ TokensSound'
  BY <1>1, <1>2, SilentAnswer DEF BrokerInv, TypeOK, TokensSound, TokenSound
<1> QED  BY <1>1, <1>3, <1>4, SilentAnswer DEF BrokerInv

LEMMA LogInKeeps ==
  ASSUME BrokerInv, LogIn
  PROVE  BrokerInv'
<1> DEFINE token == [NoToken EXCEPT !.kid = signing["idp"], !.iat = now, !.exp = now + UserLife,
                                    !.until = now + UserLife]
<1>1. /\ tokens' = tokens \union {token} /\ answer' = Silence
      /\ UNCHANGED <<now, signing, published, withdrawn, serving, cache, settings, changes>>
  BY DEF LogIn
<1>2. /\ now \in Nat /\ now + UserLife \in Nat /\ signing["idp"] \in Nat
      /\ "idp" \in Issuers /\ <<>> \in Seq(Profiles)
  BY Constants DEF BrokerInv, TypeOK, Issuers
<1>3. /\ token \in Token /\ token.iss = "idp" /\ token.chain = <<>>
      /\ token.exp = now + UserLife /\ token.until = now + UserLife
  <2>1. NoToken \in Token /\ NoToken.iss = "idp" /\ NoToken.chain = <<>>
    BY NoTokenIsToken
  <2> QED  BY <1>2, <2>1 DEF Token
<1>4. token \in Token
  BY <1>3
<1>5. TokenSound(token) /\ token.iss = "idp" /\ token.chain = <<>>
  <2> HIDE DEF token
  <2> QED  BY <1>2, <1>3 DEF TokenSound
<1> HIDE DEF token
<1>6. /\ tokens' \subseteq Token /\ TokensSound'
      /\ \A t \in tokens' : t.iss = "broker" <=> t.chain # <<>>
  BY <1>1, <1>4, <1>5 DEF BrokerInv, TypeOK, TokensSound, TokenSound
<1>7. KeysSound'
  BY <1>1, <1>2, KeysUntouched
<1>8. TypeOK'
  BY <1>1, <1>6, SilentAnswer DEF BrokerInv, TypeOK
<1> QED  BY <1>1, <1>6, <1>7, <1>8, SilentAnswer DEF BrokerInv

LEMMA ChangesCount ==
  ASSUME BrokerInv, Changes
  PROVE  changes' \in Nat
<1>1. changes \in Nat /\ changes' = changes + 1
  BY DEF BrokerInv, TypeOK, Changes
<1> QED  BY <1>1

(* A rotation withdraws keys that were fetched before it, for good.           *)
LEMMA RotateKeeps ==
  ASSUME BrokerInv, NEW i \in Issuers, NEW keep \in BOOLEAN, Rotate(i, keep),
         cache' \in [Caches -> [keys: SUBSET Nat, at: Int]],
         \A c \in Caches : cache'[c] = cache[c] \/ cache'[c] = Empty
  PROVE  BrokerInv'
<1> DEFINE gone == {[iss |-> i, kid |-> k, at |-> now] : k \in IF keep THEN {} ELSE published[i]}
           kept == IF keep THEN published[i] ELSE {}
<1>1. /\ answer' = Silence
      /\ signing' = [signing EXCEPT ![i] = @ + 1]
      /\ published' = [published EXCEPT ![i] = kept \union {signing[i] + 1}]
      /\ withdrawn' = withdrawn \union gone
      /\ UNCHANGED <<now, tokens, serving, settings>>
  BY DEF Rotate
<1>2. /\ now \in Nat
      /\ signing \in [Issuers -> Nat] /\ published \in [Issuers -> SUBSET Nat]
      /\ withdrawn \subseteq [iss: Issuers, kid: Nat, at: Nat]
      /\ cache \in [Caches -> [keys: SUBSET Nat, at: Int]]
  BY DEF BrokerInv, TypeOK
<1>3. \A w \in gone : /\ w \in [iss: Issuers, kid: Nat, at: Nat]
                      /\ w.iss = i /\ w.at = now /\ w.kid \in published[i]
                      /\ kept = {}
  BY <1>2
<1>4. kept \subseteq published[i] /\ published[i] \subseteq 1..signing[i] /\ signing[i] \in Nat
  BY <1>2 DEF BrokerInv, KeysSound
<1> HIDE DEF gone, kept
<1>5. /\ signing' \in [Issuers -> Nat] /\ published' \in [Issuers -> SUBSET Nat]
      /\ withdrawn' \subseteq [iss: Issuers, kid: Nat, at: Nat]
  <2>1. signing[i] + 1 \in Nat
    BY <1>4
  <2>2. kept \union {signing[i] + 1} \in SUBSET Nat
    BY <1>2, <1>4, <2>1
  <2>3. signing' \in [Issuers -> Nat]
    BY <1>1, <1>2, <2>1
  <2>4. published' \in [Issuers -> SUBSET Nat]
    BY <1>1, <1>2, <2>2
  <2>5. withdrawn' \subseteq [iss: Issuers, kid: Nat, at: Nat]
    BY <1>1, <1>2, <1>3
  <2> QED  BY <2>3, <2>4, <2>5
<1>6. /\ \A j \in Issuers \ {i} : signing'[j] = signing[j] /\ published'[j] = published[j]
      /\ signing'[i] = signing[i] + 1 /\ published'[i] = kept \union {signing[i] + 1}
  BY <1>1, <1>2
<1>7. \A j \in Issuers : published'[j] \subseteq 1..signing'[j]
  <2> SUFFICES ASSUME NEW j \in Issuers PROVE published'[j] \subseteq 1..signing'[j]
    OBVIOUS
  <2>1. CASE j = i
    <3>1. \A k \in published[i] : k \in 1..(signing[i] + 1)
      BY <1>4
    <3>2. signing[i] + 1 \in 1..(signing[i] + 1)
      BY <1>4
    <3> QED  BY <1>4, <1>6, <2>1, <3>1, <3>2
  <2>2. CASE j # i
    BY <1>6, <2>2 DEF BrokerInv, KeysSound
  <2> QED  BY <2>1, <2>2
<1>8. \A w \in withdrawn' : w.kid <= signing'[w.iss] /\ w.kid \notin published'[w.iss]
  <2> SUFFICES ASSUME NEW w \in withdrawn'
               PROVE  w.kid <= signing'[w.iss] /\ w.kid \notin published'[w.iss]
    OBVIOUS
  <2>1. CASE w \in gone
    <3>1. w.iss = i /\ w.kid \in 1..signing[i] /\ kept = {}
      BY <1>3, <1>4, <2>1
    <3>2. w.kid <= signing[i] + 1 /\ w.kid # signing[i] + 1
      BY <1>4, <3>1
    <3> QED  BY <1>6, <3>1, <3>2
  <2>2. CASE w \in withdrawn
    <3>1. w.kid \in Nat /\ w.iss \in Issuers /\ w.kid <= signing[w.iss] /\ w.kid \notin published[w.iss]
      BY <1>2, <2>2 DEF BrokerInv, KeysSound
    <3>2. CASE w.iss = i
      <4>1. w.kid <= signing[i] + 1 /\ w.kid # signing[i] + 1
        BY <1>4, <3>1, <3>2
      <4> QED  BY <1>4, <1>6, <3>1, <3>2, <4>1
    <3>3. CASE w.iss # i
      BY <1>6, <3>1, <3>3
    <3> QED  BY <3>2, <3>3
  <2> QED  BY <1>1, <2>1, <2>2
<1>9. \A c \in Caches : cache[c].at \in Int /\ cache[c].at <= now
  BY <1>2 DEF BrokerInv, KeysSound
<1>10. \A c \in Caches : cache'[c].at <= now'
  BY <1>1, <1>2, <1>9, EmptyCache
<1>11. \A c \in Caches, w \in withdrawn' :
         w.iss = Publisher[c] /\ w.kid \in cache'[c].keys => cache'[c].at <= w.at
  <2> SUFFICES ASSUME NEW c \in Caches, NEW w \in withdrawn', w.iss = Publisher[c],
                      w.kid \in cache'[c].keys
               PROVE  cache'[c].at <= w.at
    OBVIOUS
  <2>1. cache'[c] = cache[c]
    BY EmptyCache
  <2>2. CASE w \in gone
    BY <1>3, <1>9, <2>1, <2>2
  <2>3. CASE w \in withdrawn
    BY <2>1, <2>3 DEF BrokerInv, KeysSound
  <2> QED  BY <1>1, <2>2, <2>3
<1>12. KeysSound'
  BY <1>7, <1>8, <1>10, <1>11 DEF KeysSound
<1>13. changes' \in Nat
  BY ChangesCount DEF Rotate
<1>14. TypeOK' /\ TokensSound'
  BY <1>1, <1>5, <1>13, SilentAnswer DEF BrokerInv, TypeOK, TokensSound, TokenSound
<1> QED  BY <1>1, <1>12, <1>14, SilentAnswer DEF BrokerInv

(* Forgetting key sets withdraws nothing.                                     *)
LEMMA ForgetKeeps ==
  ASSUME BrokerInv, changes' \in Nat, answer' = Silence,
         UNCHANGED <<now, tokens, signing, published, withdrawn, serving, settings>>,
         cache' \in [Caches -> [keys: SUBSET Nat, at: Int]],
         \A c \in Caches : cache'[c] = cache[c] \/ cache'[c] = Empty
  PROVE  BrokerInv'
<1>1. now \in Nat
  BY DEF BrokerInv, TypeOK
<1>2. KeysSound'
  BY <1>1, EmptyCache DEF BrokerInv, KeysSound
<1>3. TypeOK' /\ TokensSound'
  BY SilentAnswer DEF BrokerInv, TypeOK, TokensSound, TokenSound
<1> QED  BY <1>2, <1>3, SilentAnswer DEF BrokerInv

LEMMA RestartsKeep ==
  ASSUME BrokerInv, RestartBroker \/ RestartApi \/ RestartMemory
  PROVE  BrokerInv'
<1>1. cache \in [Caches -> [keys: SUBSET Nat, at: Int]]
  BY DEF BrokerInv, TypeOK
<1>2. /\ cache' \in [Caches -> [keys: SUBSET Nat, at: Int]]
      /\ \A c \in Caches : cache'[c] = cache[c] \/ cache'[c] = Empty
  <2>1. CASE cache' = [cache EXCEPT !["idp at broker"] = Empty]
    BY <1>1, <2>1, EmptyCache
  <2>2. CASE cache' = [c \in Caches |-> IF c \in AtApi THEN Empty ELSE cache[c]]
    BY <1>1, <2>2, EmptyCache
  <2>3. CASE cache' = [cache EXCEPT !["idp at memory"] = Empty]
    BY <1>1, <2>3, EmptyCache
  <2> QED  BY <2>1, <2>2, <2>3 DEF RestartBroker, RestartApi, RestartMemory
<1>3. CASE Rotate("broker", FALSE)
  BY <1>2, <1>3, RotateKeeps DEF Issuers
<1>4. CASE /\ Changes /\ answer' = Silence
           /\ UNCHANGED <<now, tokens, signing, published, withdrawn, serving, settings>>
  BY <1>2, <1>4, ChangesCount, ForgetKeeps
<1> QED  BY <1>3, <1>4 DEF RestartBroker, RestartApi, RestartMemory

LEMMA RotateProviderKeeps ==
  ASSUME BrokerInv, NEW keep \in BOOLEAN, RotateProvider(keep)
  PROVE  BrokerInv'
<1>1. cache' = cache /\ cache \in [Caches -> [keys: SUBSET Nat, at: Int]]
  BY DEF RotateProvider, BrokerInv, TypeOK
<1> QED  BY <1>1, RotateKeeps DEF RotateProvider, Issuers

LEMMA StopOrServeKeeps ==
  ASSUME BrokerInv, NEW i \in Issuers, StopOrServe(i)
  PROVE  BrokerInv'
<1>1. /\ answer' = Silence /\ serving' = [serving EXCEPT ![i] = ~@]
      /\ UNCHANGED <<now, tokens, signing, published, withdrawn, cache, settings>>
  BY DEF StopOrServe
<1>2. changes' \in Nat
  BY ChangesCount DEF StopOrServe, BrokerInv, TypeOK
<1>3. serving' \in [Issuers -> BOOLEAN] /\ now \in Nat
  BY <1>1 DEF BrokerInv, TypeOK
<1>4. KeysSound'
  BY <1>1, <1>3, KeysUntouched
<1>5. TypeOK' /\ TokensSound'
  BY <1>1, <1>2, <1>3, SilentAnswer DEF BrokerInv, TypeOK, TokensSound, TokenSound
<1> QED  BY <1>1, <1>4, <1>5, SilentAnswer DEF BrokerInv

LEMMA SetSwitchKeeps ==
  ASSUME BrokerInv, NEW s \in Switches, SetSwitch(s)
  PROVE  BrokerInv'
<1>1. /\ answer' = Silence
      /\ UNCHANGED <<now, tokens, signing, published, withdrawn, serving, cache>>
  BY DEF SetSwitch
<1>2. changes' \in Nat
  BY ChangesCount DEF SetSwitch
<1>3. settings' \subseteq Switches /\ now \in Nat
  BY DEF SetSwitch, BrokerInv, TypeOK
<1>4. KeysSound'
  BY <1>1, <1>3, KeysUntouched
<1>5. TypeOK' /\ TokensSound'
  BY <1>1, <1>2, <1>3, SilentAnswer DEF BrokerInv, TypeOK, TokensSound, TokenSound
<1> QED  BY <1>1, <1>4, <1>5, SilentAnswer DEF BrokerInv

-----------------------------------------------------------------------------
LEMMA InitSound == Init => BrokerInv
<1> SUFFICES ASSUME Init PROVE BrokerInv
  OBVIOUS
<1>1. TypeOK
  BY EmptyCache, SilenceIsAnswer DEF Init, TypeOK
<1>2. TokensSound /\ DelegatedDiesWithUser
  BY SilenceIsAnswer DEF Init, TokensSound, DelegatedDiesWithUser
<1>3. KeysSound
  BY EmptyCache DEF Init, KeysSound
<1> QED  BY <1>1, <1>2, <1>3 DEF BrokerInv

LEMMA StepKeeps == BrokerInv /\ [Next]_vars => BrokerInv'
<1> SUFFICES ASSUME BrokerInv, [Next]_vars PROVE BrokerInv'
  OBVIOUS
<1>1. CASE UNCHANGED vars
  <2>1. UNCHANGED <<now, tokens, signing, published, withdrawn, serving, cache, settings, changes,
                    answer>>
    BY <1>1 DEF vars
  <2> QED  BY <2>1 DEF BrokerInv, TypeOK, TokensSound, TokenSound, KeysSound, DelegatedDiesWithUser
<1>2. CASE Tick \/ LogIn \/ RestartBroker \/ RestartApi \/ RestartMemory
  BY <1>2, TickKeeps, LogInKeeps, RestartsKeep
<1>3. ASSUME NEW t \in tokens, Verify(t) \/ VerifyAtMemory(t) \/ GatewayPasses(t)
      PROVE  BrokerInv'
  BY <1>3, VerifyKeeps, VerifyAtMemoryKeeps, GatewayPassesKeeps
<1>4. ASSUME NEW t \in tokens, NEW p \in Profiles, NEW op \in Operations, Gateway(p, op, t)
      PROVE  BrokerInv'
  BY <1>4, GatewayKeeps
<1>5. ASSUME NEW t \in tokens, NEW p \in Profiles, NEW requested \in Requestable,
             ExchangeUserToken(p, t, requested) \/ ExchangeDelegatedToken(p, t, requested)
      PROVE  BrokerInv'
  BY <1>5, ExchangeUserTokenKeeps, ExchangeDelegatedTokenKeeps
<1>6. ASSUME NEW keep \in BOOLEAN, RotateProvider(keep)
      PROVE  BrokerInv'
  BY <1>6, RotateProviderKeeps
<1>7. ASSUME NEW i \in Issuers, StopOrServe(i)
      PROVE  BrokerInv'
  BY <1>7, StopOrServeKeeps
<1>8. ASSUME NEW s \in Switches, SetSwitch(s)
      PROVE  BrokerInv'
  BY <1>8, SetSwitchKeeps
<1> QED  BY <1>1, <1>2, <1>3, <1>4, <1>5, <1>6, <1>7, <1>8 DEF Next

(* BrokerInv holds in every reachable state.                                  *)
THEOREM BrokerInvariant == Spec => []BrokerInv
BY InitSound, StepKeeps, PTL DEF Spec

(* Every variable keeps its type, and the broker's tokens (exchange.py), and  *)
(* only they, name agents.                                                    *)
THEOREM DelegationTypeCorrect == Spec => []TypeOK
<1>1. BrokerInv => TypeOK
  BY DEF BrokerInv
<1> QED  BY <1>1, BrokerInvariant, PTL

(* Without an armed switch, no chain of exchanges (exchange.py) widens what   *)
(* the first agent of the chain may hold.                                     *)
THEOREM ChainsNarrow == Spec => []NarrowsAlongTheChain
<1>1. BrokerInv => NarrowsAlongTheChain
  BY DEF BrokerInv, TokensSound, TokenSound, NarrowsAlongTheChain
<1> QED  BY <1>1, BrokerInvariant, PTL

(* No token is accepted (auth/tokens.py, at either service) after the user's  *)
(* own would have been refused: every exchange takes the earlier expiry.      *)
THEOREM AuthorityEndsWithTheUsers == Spec => []DelegatedDiesWithUser
<1>1. BrokerInv => DelegatedDiesWithUser
  BY DEF BrokerInv
<1> QED  BY <1>1, BrokerInvariant, PTL

(* What the broker mints is within the limits on depth and lifetime that the  *)
(* API verifies, for all limits related as the settings' defaults are.        *)
THEOREM MintedTokensAreAcceptable == Spec => []MintedIsAcceptable
<1>1. BrokerInv => MintedIsAcceptable
  BY DEF BrokerInv, TokensSound, TokenSound, MintedIsAcceptable, ActorChainHolds, ShortLived
<1> QED  BY <1>1, BrokerInvariant, PTL

(* A withdrawn key is accepted for no longer than a key set is cached, unless *)
(* its publisher cannot be asked (JwksCache.get).                             *)
THEOREM RetiredKeysAreForgotten == Spec => RetiredKeysDie
<1> DEFINE Dies == answer'.what = "accepted" =>
                     \A w \in withdrawn :
                       w.iss = answer'.token.iss /\ w.kid = answer'.token.kid =>
                         now - w.at <= CacheFor \/ ~serving[w.iss]
<1>1. ASSUME BrokerInv, Next PROVE Dies
  <2>1. ASSUME NEW t \in tokens, Verify(t) \/ VerifyAtMemory(t) PROVE Dies
    <3> SUFFICES ASSUME answer'.what = "accepted", NEW w \in withdrawn,
                        w.iss = answer'.token.iss, w.kid = answer'.token.kid
                 PROVE  now - w.at <= CacheFor \/ ~serving[w.iss]
      OBVIOUS
    <3> QED  BY <1>1, <2>1, RetiredKeyAccepted
  <2>2. CASE ~\E t \in tokens : Verify(t) \/ VerifyAtMemory(t)
    <3>1. ASSUME Tick \/ LogIn \/ RestartBroker \/ RestartApi \/ RestartMemory
          PROVE  answer' = Silence
      BY <3>1 DEF Tick, LogIn, RestartBroker, RestartApi, RestartMemory, Rotate
    <3>2. ASSUME NEW t \in tokens, NEW p \in Profiles, NEW op \in Operations, Gateway(p, op, t)
          PROVE  answer' = Silence \/ answer' = Says("unhandled", t)
      BY <3>2 DEF Gateway, Mints, Refuses
    <3>3. ASSUME NEW t \in tokens, NEW p \in Profiles, NEW requested \in Requestable,
                 ExchangeUserToken(p, t, requested) \/ ExchangeDelegatedToken(p, t, requested)
          PROVE  answer' = Silence
      BY <3>3 DEF ExchangeUserToken, ExchangeDelegatedToken, Mints, Refuses
    <3>4. ASSUME NEW t \in tokens, GatewayPasses(t)
          PROVE  answer' = Silence
      BY <3>4 DEF GatewayPasses
    <3>5. ASSUME \/ \E keep \in BOOLEAN : RotateProvider(keep)
                 \/ \E i \in Issuers : StopOrServe(i)
                 \/ \E s \in Switches : SetSwitch(s)
          PROVE  answer' = Silence
      BY <3>5 DEF RotateProvider, Rotate, StopOrServe, SetSwitch
    <3>6. answer' = Silence \/ \E t : answer' = Says("unhandled", t)
      BY <1>1, <2>2, <3>1, <3>2, <3>3, <3>4, <3>5 DEF Next
    <3> QED  BY <3>6, SilenceIsAnswer DEF Says
  <2> QED  BY <2>1, <2>2
<1>2. BrokerInv /\ [Next]_vars => [Dies]_vars
  BY <1>1
<1> QED  BY <1>2, BrokerInvariant, PTL DEF Spec, RetiredKeysDie
=============================================================================
