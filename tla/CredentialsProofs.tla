-------------------------- MODULE CredentialsProofs --------------------------
(***************************************************************************)
(* Proofs about Credentials for any durations, lifetimes and horizon, and  *)
(* any pattern of metadata outages and process restarts.                   *)
(***************************************************************************)
EXTENDS Credentials, TLAPS

(* A Get in progress has waited no longer than the timeout, and has a reason. *)
CacheInv ==
  /\ cache # NoCreds => cache.fetchedAt <= now
  /\ started # -1 => /\ started <= now
                     /\ now <= started + MetadataTimeout
                     /\ cache # NoCreds => needsRefresh(cache, started)
                     /\ cache # NoCreds => cache.fetchedAt <= started

(* A token that was replaced at t was not asked for after t; its answer may
   have come a timeout later. *)
RotationInv ==
  /\ answer.at <= now
  /\ reply # NoCreds => started # -1
  /\ \A t \in issued :
       /\ t <= now /\ t <= token.ak
       /\ reply # NoCreds /\ reply.ak < t => started <= t
       /\ cache # NoCreds /\ cache.ak < t => cache.fetchedAt <= t + MetadataTimeout

CredsInv == TypeOK /\ CacheInv /\ RotationInv

(* The answer of a Get that ends now with the credentials c. *)
LEMMA Answered ==
  ASSUME TypeOK, NEW c \in Creds, NEW how \in {"hit", "fresh", "stale"}, Answer(how, c)
  PROVE  /\ answer' \in [how : {"none", "hit", "fresh", "stale", "error"}, at : Time,
                          creds : Creds \cup {NoCreds}]
         /\ answer'.creds = c /\ answer'.at = now /\ answer'.how = how
BY DEF Answer, TypeOK

(* ensureSDK builds the SDK client from what Get answered, or keeps it. *)
LEMMA EnsureSdkType ==
  ASSUME TypeOK, NEW c \in Creds, NEW k, ensureSDK(c, k)
  PROVE  sdk' \in Creds \cup {NoCreds}
BY DEF ensureSDK, TypeOK

(* What fetch makes of the answer. *)
Fetched == [ak |-> reply.ak, fetchedAt |-> now, expiresAt |-> reply.expiresAt]

LEMMA FetchedCreds ==
  ASSUME TypeOK, reply # NoCreds
  PROVE  /\ Fetched \in Creds
         /\ Fetched.ak = reply.ak /\ Fetched.fetchedAt = now
BY DurationsAssumption DEF TypeOK, Creds, Time, Fetched

LEMMA CredsInvInit == Init => CredsInv
BY DurationsAssumption DEF Init, CredsInv, TypeOK, CacheInv, RotationInv, Time

LEMMA CredsInvStep == CredsInv /\ [Next]_vars => CredsInv'
<1> SUFFICES ASSUME CredsInv, [Next]_vars PROVE CredsInv'
  OBVIOUS
<1> USE DurationsAssumption DEF CredsInv, Return, service
<1>1. CASE Hit
  <2>1. cache \in Creds
    BY <1>1 DEF Hit, TypeOK
  <2>. QED BY <1>1, <2>1, Answered, EnsureSdkType DEF Hit, TypeOK, CacheInv, RotationInv, Time
<1>2. CASE BeginFetch
  BY <1>2 DEF BeginFetch, TypeOK, CacheInv, RotationInv, Time, Creds, needsRefresh, Age
<1>3. CASE Serve
  <2>1. reply' = token /\ started # -1 /\ UNCHANGED <<now, token, issued, cache, sdk, started, answer>>
    BY <1>3 DEF Serve
  <2>2. TypeOK'
    BY <2>1 DEF TypeOK
  <2>3. CacheInv'
    BY <2>1 DEF CacheInv, needsRefresh
  <2>4. RotationInv'
    BY <2>1 DEF RotationInv, TypeOK, Time
  <2>. QED BY <2>2, <2>3, <2>4
<1>4. CASE fetch
  <2>1. /\ reply # NoCreds /\ started # -1
        /\ cache' = Fetched /\ started' = -1 /\ reply' = NoCreds
        /\ Answer("fresh", Fetched) /\ ensureSDK(Fetched, Fetched)
        /\ UNCHANGED <<now, token, issued>>
    BY <1>4 DEF fetch, Fetched
  <2>2. Fetched \in Creds /\ Fetched.ak = reply.ak /\ Fetched.fetchedAt = now
    BY <2>1, FetchedCreds
  <2>3. TypeOK'
    BY <2>1, <2>2, Answered, EnsureSdkType DEF TypeOK
  <2>4. CacheInv'
    BY <2>1, <2>2 DEF CacheInv, TypeOK, Time
  <2>5. RotationInv'
    <3>1. answer'.at = now
      BY <2>1, <2>2, Answered
    <3>. QED BY <2>1, <2>2, <3>1 DEF RotationInv, CacheInv, TypeOK, Time
  <2>. QED BY <2>3, <2>4, <2>5
<1>5. CASE Fallback
  <2>1. cache \in Creds
    BY <1>5 DEF Fallback, TypeOK
  <2>. QED BY <1>5, <2>1, Answered, EnsureSdkType DEF Fallback, TypeOK, CacheInv, RotationInv, Time
<1>6. CASE GiveUp
  BY <1>6 DEF GiveUp, Answer, TypeOK, CacheInv, RotationInv, Time
<1>7. CASE Restart
  BY <1>7 DEF Restart, TypeOK, CacheInv, RotationInv, Time
<1>8. CASE Issue
  <2>1. PICK life \in Lives : token' = [ak |-> now, expiresAt |-> now + life]
    BY <1>8 DEF Issue
  <2>2. token' \in [ak : Time, expiresAt : Nat] /\ token'.ak = now
    BY <2>1 DEF TypeOK, Time
  <2>3. issued' = issued \cup {now} /\ UNCHANGED <<now, cache, sdk, started, reply, answer>>
    BY <1>8 DEF Issue
  <2>4. TypeOK' /\ CacheInv'
    BY <2>2, <2>3 DEF TypeOK, CacheInv, needsRefresh
  <2>5. RotationInv'
    <3>1. cache # NoCreds => cache.fetchedAt \in Nat /\ cache.fetchedAt <= now
      BY DEF TypeOK, CacheInv, Creds
    <3>2. reply # NoCreds => started \in Time /\ started <= now
      BY DEF TypeOK, CacheInv, RotationInv
    <3>. QED BY <2>2, <2>3, <3>1, <3>2 DEF RotationInv, TypeOK, Time
  <2>. QED BY <2>4, <2>5
<1>9. CASE Tick
  <2>1. TypeOK'
    BY <1>9 DEF Tick, TypeOK, Time
  <2>2. CacheInv'
    BY <1>9 DEF Tick, TypeOK, CacheInv, Time, Creds, needsRefresh
  <2>3. RotationInv'
    BY <1>9 DEF Tick, TypeOK, RotationInv, Time
  <2>. QED BY <2>1, <2>2, <2>3
<1>10. CASE UNCHANGED vars
  BY <1>10 DEF vars, TypeOK, CacheInv, RotationInv, needsRefresh
<1>. QED BY <1>1, <1>2, <1>3, <1>4, <1>5, <1>6, <1>7, <1>8, <1>9, <1>10 DEF Next

LEMMA CredsInvariant == Spec => []CredsInv
BY CredsInvInit, CredsInvStep, PTL DEF Spec

(* Cached and answered credentials, the clock and the tokens keep their types:
   fetch caches nothing that has no expiry. *)
THEOREM TypeCorrect == Spec => []TypeOK
<1>1. CredsInv => TypeOK
  BY DEF CredsInv
<1>. QED BY <1>1, CredsInvariant, PTL

(* Whatever tokens the metadata service hands out: what Get answers from its
   cache is alive, but for MinRefreshLatency after the fetch of a token that had
   less left, and for the time that a failed metadata request took. *)
THEOREM AnswersAlive == Spec => []ServedAlive
<1>1. Init => ServedAlive
  BY DEF Init, ServedAlive
<1>2. ASSUME CredsInv, ServedAlive, [Next]_vars PROVE ServedAlive'
  <2> USE <1>2, DurationsAssumption DEF CredsInv
  <2>1. CASE Hit
    <3>1. cache \in Creds /\ Answer("hit", cache)
      BY <2>1 DEF Hit, TypeOK
    <3>2. now < cache.expiresAt \/ now < cache.fetchedAt + MinRefreshLatency
      BY <2>1, <3>1 DEF Hit, needsRefresh, Age, CacheInv, Creds, TypeOK, Time
    <3>3. answer'.how = "hit" /\ answer'.creds = cache /\ answer'.at = now
      BY <3>1, Answered
    <3>4. ~IsExpired(answer'.creds, answer'.at) \/ now < cache.fetchedAt + MinRefreshLatency
      BY <3>1, <3>2, <3>3 DEF IsExpired, Creds, TypeOK, Time
    <3>. QED BY <3>3, <3>4 DEF ServedAlive, IsExpired
  <2>2. CASE Fallback
    <3>1. cache \in Creds /\ Answer("stale", cache)
      BY <2>2 DEF Fallback, TypeOK
    <3>2. started < cache.expiresAt /\ now <= started + MetadataTimeout
      BY <2>2, <3>1 DEF Fallback, IsExpired, CacheInv, TypeOK, Time, Creds
    <3>3. now < cache.expiresAt + MetadataTimeout
      BY <2>2, <3>1, <3>2 DEF Fallback, TypeOK, Time, Creds
    <3>. QED BY <3>1, <3>3, Answered DEF ServedAlive
  <2>3. CASE fetch \/ GiveUp \/ Restart
    BY <2>3 DEF fetch, GiveUp, Restart, Answer, ServedAlive
  <2>4. CASE BeginFetch \/ Serve \/ Issue \/ Tick \/ UNCHANGED vars
    BY <2>4 DEF BeginFetch, Serve, Issue, Tick, vars, ServedAlive, IsExpired
  <2>. QED BY <2>1, <2>2, <2>3, <2>4 DEF Next
<1>. QED BY <1>1, <1>2, CredsInvariant, PTL DEF Spec

(* A token that was replaced is dropped within MaxCacheAge and the timeout,
   whatever its lifetime and whatever failed, if its refresh does not. *)
THEOREM RotationBounded == Spec => []RotationSeen
<1>1. Init => RotationSeen
  BY DEF Init, RotationSeen
<1>2. ASSUME CredsInv, RotationSeen, [Next]_vars PROVE RotationSeen'
  <2> USE <1>2, DurationsAssumption DEF CredsInv, Return, service
  <2>1. CASE Hit
    <3>1. cache \in Creds /\ Answer("hit", cache) /\ issued' = issued
      BY <2>1 DEF Hit, TypeOK
    <3>2. now <= cache.fetchedAt + MaxCacheAge
      BY <2>1, <3>1 DEF Hit, needsRefresh, Age, Creds, TypeOK, Time
    <3>3. answer'.creds = cache /\ answer'.at = now
      BY <3>1, Answered
    <3>4. ASSUME NEW t \in issued, cache.ak < t PROVE now <= t + MaxCacheAge + MetadataTimeout
      BY <2>1, <3>1, <3>2, <3>4 DEF Hit, RotationInv, Creds, TypeOK, Time
    <3>. QED BY <3>1, <3>3, <3>4 DEF RotationSeen
  <2>2. CASE fetch
    <3>1. /\ reply # NoCreds /\ started # -1 /\ Answer("fresh", Fetched) /\ issued' = issued
      BY <2>2 DEF fetch, Fetched
    <3>2. answer'.creds.ak = reply.ak /\ answer'.at = now
      BY <3>1, FetchedCreds, Answered
    <3>3. ASSUME NEW t \in issued, reply.ak < t PROVE now <= t + MaxCacheAge + MetadataTimeout
      BY <3>1, <3>3 DEF CacheInv, RotationInv, TypeOK, Time
    <3>. QED BY <3>1, <3>2, <3>3 DEF RotationSeen
  <2>3. CASE Fallback \/ GiveUp \/ Restart
    BY <2>3 DEF Fallback, GiveUp, Restart, Answer, RotationSeen
  <2>4. CASE Issue
    <3>1. issued' = issued \cup {now} /\ answer' = answer /\ answer.at <= now
      BY <2>4 DEF Issue, RotationInv
    <3>2. answer.at <= now + MaxCacheAge + MetadataTimeout
      BY <3>1 DEF TypeOK, Time
    <3>. QED BY <3>1, <3>2 DEF RotationSeen
  <2>5. CASE BeginFetch \/ Serve \/ Tick \/ UNCHANGED vars
    BY <2>5 DEF BeginFetch, Serve, Tick, vars, RotationSeen
  <2>. QED BY <2>1, <2>2, <2>3, <2>4, <2>5 DEF Next
<1>. QED BY <1>1, <1>2, CredsInvariant, PTL DEF Spec

(* Two successful refreshes are MinRefreshLatency apart, if the age cap is no
   shorter than that. *)
THEOREM RefreshSpacing ==
  ASSUME MaxCacheAge >= MinRefreshLatency
  PROVE  Spec => RefreshesApart
<1>1. ASSUME CredsInv, [Next]_vars
      PROVE  [cache # NoCreds /\ cache' # NoCreds /\ cache' # cache
              => cache'.fetchedAt >= cache.fetchedAt + MinRefreshLatency]_vars
  <2> USE <1>1, DurationsAssumption DEF CredsInv
  <2>1. CASE fetch
    <3>1. ASSUME cache # NoCreds PROVE now >= cache.fetchedAt + MinRefreshLatency
      <4>1. cache \in Creds /\ started \in Time /\ started <= now
        BY <2>1, <3>1 DEF fetch, TypeOK, CacheInv
      <4>2. needsRefresh(cache, started)
        BY <2>1, <3>1 DEF fetch, CacheInv
      <4>. QED BY <4>1, <4>2 DEF needsRefresh, Age, Creds, TypeOK, Time
    <3>. QED BY <2>1, <3>1 DEF fetch
  <2>2. CASE Restart
    BY <2>2 DEF Restart
  <2>3. CASE UNCHANGED cache
    BY <2>3
  <2>. QED BY <2>1, <2>2, <2>3 DEF Next, Hit, BeginFetch, Serve, Fallback, GiveUp, Issue, Tick, vars
<1>. QED BY <1>1, CredsInvariant, PTL DEF Spec, RefreshesApart
=============================================================================
