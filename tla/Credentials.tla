----------------------------- MODULE Credentials -----------------------------
(***************************************************************************)
(* Pod-agency credentials: PodAgencyProvider.Get of                        *)
(* internal/huawei/podagency.go, which caches what the metadata service    *)
(* hands out, and Client.ensureSDK of internal/huawei/client.go, which     *)
(* builds the SDK client that signs every Huawei call.  Both run under a   *)
(* lock, so that one call at a time is in progress; the only time that     *)
(* passes inside a call is that of the metadata request.  What the service *)
(* answers is taken as it is: fetch looks at no lifetime.                  *)
(***************************************************************************)
EXTENDS Integers, FiniteSets

CONSTANTS
  MaxCacheAge, MinRefreshLatency, MetadataTimeout,
  Lives,     \* lifetimes of the tokens the metadata service issues
  MaxTokens, \* bound on the tokens it issues
  Horizon,   \* bound on the clock
  NoCreds

ASSUME DurationsAssumption ==
  /\ MaxCacheAge \in Nat
  /\ MinRefreshLatency \in Nat
  /\ MetadataTimeout \in Nat
  /\ Lives \subseteq Nat
  /\ MaxTokens \in Nat
  /\ Horizon \in Nat

Time == 0 .. Horizon

(* Credentials; ak, the access key, is the time the token was issued at. *)
Creds == [ak : Nat, fetchedAt : Nat, expiresAt : Nat]

(* What the metadata service answers. *)
Tokens == [ak : Nat, expiresAt : Nat]

ASSUME NoCredsAssumption == NoCreds \notin Creds \cup Tokens

VARIABLES
  now,
  token,   \* what the metadata service serves
  issued,  \* history: when it issued a token
  cache,   \* PodAgencyProvider.cache
  sdk,     \* the credentials Client.sdk was built from
  started, \* when the Get in progress began, or -1
  reply,   \* the answer to its metadata request that is on its way
  answer   \* what the last ensureSDK got from Get: how, when, and the credentials

service == <<token, issued>>

vars == <<now, service, cache, sdk, started, reply, answer>>

-----------------------------------------------------------------------------
Age(c, t) == t - c.fetchedAt

(* Mutant: no minimum between two refreshes. *)
needsRefresh_NoMinimum(c, t) ==
  \/ Age(c, t) > MaxCacheAge
  \/ 2 * Age(c, t) >= c.expiresAt - c.fetchedAt

(* Past the age cap, or past half of the lifetime but not in the first minute. *)
needsRefresh(c, t) ==
  \/ Age(c, t) > MaxCacheAge
  \/ /\ 2 * Age(c, t) >= c.expiresAt - c.fetchedAt
     /\ Age(c, t) >= MinRefreshLatency

(* Mutant: what could not be refreshed is never given up. *)
IsExpired_Never(c, t) == FALSE

IsExpired(c, t) == t >= c.expiresAt

(* ensureSDK after Get answered c, with Get's cache then being k: a new client
   when there is none, or when the access keys of k and c differ. *)
ensureSDK(c, k) ==
  sdk' = IF sdk = NoCreds \/ k = NoCreds \/ k.ak # c.ak THEN c ELSE sdk

Answer(how, c) == answer' = [how |-> how, at |-> now, creds |-> c]

-----------------------------------------------------------------------------
Hit ==
  /\ started = -1
  /\ cache # NoCreds
  /\ ~needsRefresh(cache, now)
  /\ Answer("hit", cache)
  /\ ensureSDK(cache, cache)
  /\ UNCHANGED <<now, service, cache, started, reply>>

(* Get turns to the metadata service; its clock stays at started. *)
BeginFetch ==
  /\ started = -1
  /\ cache # NoCreds => needsRefresh(cache, now)
  /\ started' = now
  /\ UNCHANGED <<now, service, cache, sdk, reply, answer>>

(* The metadata service answers with the token of the moment. *)
Serve ==
  /\ started # -1
  /\ reply = NoCreds
  /\ reply' = token
  /\ UNCHANGED <<now, service, cache, sdk, started, answer>>

Return == started' = -1 /\ reply' = NoCreds /\ UNCHANGED <<now, service>>


(* Mutant: an expires_at that does not parse leaves the zero time. *)
fetch_ZeroExpiry ==
  LET c == [ak |-> reply.ak, fetchedAt |-> now, expiresAt |-> -1] IN
  /\ started # -1
  /\ reply # NoCreds
  /\ cache' = c
  /\ Answer("fresh", c)
  /\ ensureSDK(c, c)
  /\ Return

(* The answer arrives and is cached, whatever is left of the token's life. *)
fetch ==
  LET c == [ak |-> reply.ak, fetchedAt |-> now, expiresAt |-> reply.expiresAt] IN
  /\ started # -1
  /\ reply # NoCreds
  /\ cache' = c
  /\ Answer("fresh", c)
  /\ ensureSDK(c, c)
  /\ Return

(* Mutant: a failed refresh counts as one, so as not to be repeated at once. *)
Fallback_Renews ==
  /\ started # -1
  /\ cache # NoCreds
  /\ ~IsExpired(cache, started)
  /\ cache' = [cache EXCEPT !.fetchedAt = now]
  /\ Answer("stale", cache)
  /\ ensureSDK(cache, cache)
  /\ Return

(* The request failed, or its answer was no good or is lost, but the cached
   credentials had not expired when Get began. *)
Fallback ==
  /\ started # -1
  /\ cache # NoCreds
  /\ ~IsExpired(cache, started)
  /\ Answer("stale", cache)
  /\ ensureSDK(cache, cache)
  /\ Return
  /\ UNCHANGED cache

(* The request failed and there is nothing to fall back on: the Huawei call fails. *)
GiveUp ==
  /\ started # -1
  /\ cache # NoCreds => IsExpired(cache, started)
  /\ Answer("error", NoCreds)
  /\ Return
  /\ UNCHANGED <<cache, sdk>>

(* The operator process starts anew; NewClient fetches nothing. *)
Restart ==
  /\ cache' = NoCreds
  /\ sdk' = NoCreds
  /\ answer' = [how |-> "none", at |-> now, creds |-> NoCreds]
  /\ Return

(* The metadata service issues another token, or none for as long as it likes. *)
Issue ==
  /\ now > token.ak
  /\ Cardinality(issued) < MaxTokens
  /\ \E life \in Lives : token' = [ak |-> now, expiresAt |-> now + life]
  /\ issued' = issued \cup {now}
  /\ UNCHANGED <<now, cache, sdk, started, reply, answer>>

(* Time passes; a metadata request is given up after its timeout. *)
Tick ==
  /\ now < Horizon
  /\ started # -1 => now < started + MetadataTimeout
  /\ now' = now + 1
  /\ UNCHANGED <<service, cache, sdk, started, reply, answer>>

Init ==
  /\ now = 0
  /\ \E life \in Lives : token = [ak |-> 0, expiresAt |-> life]
  /\ issued = {0}
  /\ cache = NoCreds
  /\ sdk = NoCreds
  /\ started = -1
  /\ reply = NoCreds
  /\ answer = [how |-> "none", at |-> 0, creds |-> NoCreds]

Next ==
  \/ Hit \/ BeginFetch \/ Serve \/ fetch \/ Fallback \/ GiveUp \/ Restart \/ Issue \/ Tick

Spec == Init /\ [][Next]_vars

-----------------------------------------------------------------------------
TypeOK ==
  /\ now \in Time
  /\ token \in [ak : Time, expiresAt : Nat]
  /\ issued \subseteq Time
  /\ cache \in Creds \cup {NoCreds}
  /\ sdk \in Creds \cup {NoCreds}
  /\ started \in Time \cup {-1}
  /\ reply \in [ak : Time, expiresAt : Nat] \cup {NoCreds}
  /\ answer \in [how : {"none", "hit", "fresh", "stale", "error"}, at : Time,
                 creds : Creds \cup {NoCreds}]

(* What Get answers from its cache has expired in two cases only: within
   MinRefreshLatency of a fetch that brought a token with less than that left
   (line 86), and, the fallback being judged with the clock read before the
   request (line 120), by the time which the failed request took. *)
ServedAlive ==
  /\ answer.how = "hit" => \/ ~IsExpired(answer.creds, answer.at)
                           \/ answer.at < answer.creds.fetchedAt + MinRefreshLatency
  /\ answer.how = "stale" => answer.at < answer.creds.expiresAt + MetadataTimeout

(* "Hard cap at 10 min regardless" (podagency.go:34): as long as its requests
   succeed, Get drops a token that the service has replaced within MaxCacheAge,
   however long it lives, and the time that the last request for it took,
   over answers in transit, failed refreshes and restarts. *)
RotationSeen ==
  \A t \in issued :
    answer.how \in {"hit", "fresh"} /\ answer.creds.ak < t
    => answer.at <= t + MaxCacheAge + MetadataTimeout

(* "Never refresh more often than every 60s" (podagency.go:55): fetches that
   succeed are at least MinRefreshLatency apart, as long as the process lives. *)
RefreshesApart ==
  [][cache # NoCreds /\ cache' # NoCreds /\ cache' # cache
     => cache'.fetchedAt >= cache.fetchedAt + MinRefreshLatency]_vars

-----------------------------------------------------------------------------
(* "Get returns the most recent valid credentials. Refreshes if cache is missing
   or close to expiry" (podagency.go:116-117): it does not in the first minute
   after a fetch (line 86), even if the token has expired by then. *)
HitsAlive == answer.how = "hit" => ~IsExpired(answer.creds, answer.at)

(* "Refreshes the cached creds + rebuilds the SDK client" (client.go:143-144):
   the SDK client signs with the credentials Get just answered.  ensureSDK
   compares the provider's cache with the answer, which is that same cache,
   and never with what the SDK client was built from (line 171). *)
SdkCurrent == answer.creds # NoCreds => sdk.ak = answer.creds.ak
=============================================================================
