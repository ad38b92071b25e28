--------------------------- MODULE TokenRotation ---------------------------
(***************************************************************************)
(* The OAuth authorization of one Feishu user and the rotation of its      *)
(* tokens (feishu_user_auth.py).  The row, the secret files and Feishu are *)
(* shared by the callers of get_access_token: API routes, Celery tasks and *)
(* the connector, each in a process of its own.                            *)
(*                                                                         *)
(* A step is a transaction with the file operations next to it, or an HTTP *)
(* exchange.  A token is the number of the pair Feishu issued.  Feishu     *)
(* accepts only the refresh token of its newest pair.  required_scopes is  *)
(* taken to stay as it was, so PERMISSION_MISSING is never lifted.         *)
(***************************************************************************)
EXTENDS Naturals, FiniteSets

CONSTANTS
    Callers,         \* processes that call get_access_token
    Attempts,        \* OAuth attempts the user starts
    Browsers,        \* deliveries of the OAuth callback
    MaxTokens,       \* bound on the token pairs of the authorization
    MaxLapses,       \* bound on the leases that run out while their owner lives
    MaxFaults,       \* bound on crashes and failed exchanges
    MaxDisconnects   \* bound on revocations by the user

ASSUME TokenAssumption ==
    /\ "nobody" \notin Callers
    /\ "none" \notin Attempts
    /\ MaxTokens \in Nat \ {0}
    /\ {MaxLapses, MaxFaults, MaxDisconnects} \subseteq Nat

VARIABLES
    attempt,    \* attempt[a]: its row of feishu_oauth_attempts
    verifiers,  \* attempts whose verifier and state files exist
    exchanged,  \* exchanged[a]: codes of attempt a sent to Feishu
    browser,    \* browser[b]: where delivery b of the callback is
    auth,       \* the row of feishu_user_authorizations
    files,      \* the secret files: files.access[v] is the token in version v
    issued,     \* the newest pair of the authorization at Feishu
    sent,       \* sent[t]: times refresh token t was sent
    caller,     \* caller[c]: where it is in get_access_token
    used        \* lapses, takeovers, faults and revocations so far

tokenVars == <<attempt, verifiers, exchanged, browser, auth, files, issued, sent, caller, used>>

userVars == <<attempt, verifiers, exchanged, browser>>
-----------------------------------------------------------------------------
Tokens == 0..MaxTokens   \* 0: no token, no version

\* The rows of feishu_oauth_attempts: not there, open, or consumed.
AttemptRows == [Attempts -> {"none", "open", "used"}]

\* Where a delivery of the callback is in complete_authorization.
Callback == [at : {"idle", "consumed", "exchanged"}, attempt : Attempts \cup {"none"}]

\* A file holds one token, or the bundle of a pair; 0 is no file.  Writing
\* replaces a file at once, deleting does not mind that there is none.
SecretFiles == [{"access", "refresh", "bundle"} -> [Tokens -> Tokens]]

Statuses == {"ABSENT", "CONNECTED", "REFRESHING", "REAUTH_REQUIRED", "EXPIRED",
             "PERMISSION_MISSING", "REVOKED"}

\* life: both tokens good, access token within refresh_skew of its end, or
\* refresh token past its end too.  owner is the caller that drew the UUID.
Authorization ==
    [status : Statuses, version : Tokens, life : {"fresh", "stale", "expired"},
     pending : Tokens, owner : Callers \cup {"nobody"}, lease : {"none", "live", "lapsed"},
     phase : {"IDLE", "CLAIMED", "REQUEST_STARTED", "RESULT_DURABLE", "ACTIVATED"},
     started : BOOLEAN, fence : Nat]

NoAuthorization ==
    [status |-> "ABSENT", version |-> 0, life |-> "fresh", pending |-> 0, owner |-> "nobody",
     lease |-> "none", phase |-> "IDLE", started |-> FALSE, fence |-> 0]

\* What a call of get_access_token holds: the claim (gen, fence, its refresh
\* token), or the row it read, and the access token it returns.
Caller ==
    [at : {"idle", "prepare", "reset", "claimed", "requested", "received", "durable",
           "activated", "failed", "call"},
     force : BOOLEAN, retried : BOOLEAN, gen : Tokens, fence : Nat,
     life : {"fresh", "stale", "expired"}, token : Tokens]

Idle == [at |-> "idle", force |-> FALSE, retried |-> FALSE, gen |-> 0, fence |-> 0,
         life |-> "fresh", token |-> 0]

NoCallback == [at |-> "idle", attempt |-> "none"]

TokenInit ==
    /\ attempt = [a \in Attempts |-> "none"]
    /\ verifiers = {}
    /\ exchanged = [a \in Attempts |-> 0]
    /\ browser = [b \in Browsers |-> NoCallback]
    /\ auth = NoAuthorization
    /\ files = [kind \in {"access", "refresh", "bundle"} |-> [v \in Tokens |-> 0]]
    /\ issued = 0
    /\ sent = [t \in Tokens |-> 0]
    /\ caller = [c \in Callers |-> Idle]
    /\ used = [lapses |-> 0, takeovers |-> 0, faults |-> 0, revoked |-> 0]

Count(event) == used' = [used EXCEPT ![event] = @ + 1]

\* The token files of version v in f hold pair x, or are deleted when x is 0.
WithPair(f, v, x) == [f EXCEPT !.access[v] = x, !.refresh[v] = x]

Fault == used.faults < MaxFaults /\ Count("faults")

\* FeishuUserAuthorization.__post_init__ refuses any other row.
Readable == auth.pending = 0 \/ auth.pending > auth.version

-----------------------------------------------------------------------------
\* The user's side: FeishuUserAuthorizationService.

\* start_authorization: the files come first and are removed when the transaction
\* fails; the last case is a process that dies in between.
StartAuthorization(a) ==
    /\ attempt[a] = "none"
    /\ \/ /\ attempt' = [attempt EXCEPT ![a] = "open"]
          /\ verifiers' = verifiers \cup {a}
          /\ UNCHANGED used
       \/ /\ a \notin verifiers
          /\ verifiers' = verifiers \cup {a}
          /\ Fault
          /\ UNCHANGED attempt
    /\ UNCHANGED <<exchanged, browser, auth, files, issued, sent, caller>>

\* Mutant: a consumed state is accepted again.
ConsumableMut(a) == attempt[a] # "none"

\* FeishuOAuthAttempt.consume; an expired attempt takes no part any more.
Consumable(a) == attempt[a] = "open"

\* complete_authorization, first transaction: the callback consumes the state.
ConsumeState(b, a) ==
    /\ browser[b].at = "idle"
    /\ Consumable(a)
    /\ attempt' = [attempt EXCEPT ![a] = "used"]
    /\ browser' = [browser EXCEPT ![b] = [at |-> "consumed", attempt |-> a]]
    /\ UNCHANGED <<verifiers, exchanged, auth, files, issued, sent, caller, used>>

\* It reads the verifier and sends the code.
ExchangeCode(b) ==
    LET a == browser[b].attempt IN
    /\ browser[b].at = "consumed"
    /\ a \in verifiers
    /\ exchanged' = [exchanged EXCEPT ![a] = @ + 1]
    /\ browser' = [browser EXCEPT ![b].at = "exchanged"]
    /\ UNCHANGED <<attempt, verifiers, auth, files, issued, sent, caller, used>>

\* The rest of it: the files of version 1, and a new row, unless the identity has
\* one (uq_feishu_user_authorization_identity) or something fails: then the new
\* files go.  The verifier goes in any case.
StoreAuthorization(b) ==
    /\ browser[b].at = "exchanged"
    /\ \/ /\ auth.status = "ABSENT"
          /\ \E status \in {"CONNECTED", "PERMISSION_MISSING"} :
                auth' = [NoAuthorization EXCEPT !.status = status, !.version = 1]
          /\ files' = WithPair(files, 1, 1)
          /\ issued' = 1
          /\ UNCHANGED used
       \/ /\ IF auth.status = "ABSENT" THEN Fault ELSE UNCHANGED used
          /\ UNCHANGED <<auth, files, issued>>
    /\ verifiers' = verifiers \ {browser[b].attempt}
    /\ browser' = [browser EXCEPT ![b] = NoCallback]
    /\ UNCHANGED <<attempt, exchanged, sent, caller>>

\* The verifier cannot be read, or the process dies.
CallbackFails(b) ==
    /\ browser[b].at # "idle"
    /\ \/ browser[b].attempt \notin verifiers /\ UNCHANGED used
       \/ Fault
    /\ browser' = [browser EXCEPT ![b] = NoCallback]
    /\ UNCHANGED <<attempt, verifiers, exchanged, auth, files, issued, sent, caller>>

\* disconnect: the files go after the commit, unless the process dies there.  A
\* pending rotation stays pending.
Disconnect ==
    /\ auth.status # "ABSENT" /\ Readable
    /\ used.revoked < MaxDisconnects
    /\ auth' = [auth EXCEPT !.status = "REVOKED"]
    /\ \/ files' = WithPair(files, auth.version, 0)
       \/ UNCHANGED files
    /\ Count("revoked")
    /\ UNCHANGED <<attempt, verifiers, exchanged, browser, issued, sent, caller>>

-----------------------------------------------------------------------------
\* Time passes.
TokensAge ==
    /\ \/ auth.life = "fresh" /\ auth' = [auth EXCEPT !.life = "stale"]
       \/ auth.life = "stale" /\ auth' = [auth EXCEPT !.life = "expired"]
    /\ UNCHANGED <<userVars, files, issued, sent, caller, used>>

Working(c) == caller[c].at \notin {"idle", "prepare", "call"}

\* rotation_expires_at passes: at once when nobody is left to finish.
LeaseLapses ==
    /\ auth.lease = "live"
    /\ auth' = [auth EXCEPT !.lease = "lapsed"]
    /\ IF \E c \in Callers : Working(c)
       THEN used.lapses < MaxLapses /\ Count("lapses")
       ELSE UNCHANGED used
    /\ UNCHANGED <<userVars, files, issued, sent, caller>>

-----------------------------------------------------------------------------
\* The provider's side: FeishuUserTokenProvider.
\* Mutant: the lease is left behind.
ClearedMut(status, phase) ==
    [auth EXCEPT !.pending = 0, !.owner = "nobody", !.status = status, !.phase = phase]

\* clear_pending_rotation, with the status and the phase it is called to leave.
Cleared(status, phase) ==
    [auth EXCEPT !.pending = 0, !.owner = "nobody", !.lease = "none",
                 !.status = status, !.phase = phase]

Goes(c, where) == caller' = [caller EXCEPT ![c].at = where]

Raises(c) == caller' = [caller EXCEPT ![c] = Idle]

Hands(c) == caller' = [caller EXCEPT ![c] = [Idle EXCEPT !.at = "call", !.retried = caller[c].retried]]

BundleExists == auth.pending # 0 /\ files.bundle[auth.pending] # 0

\* get_access_token, from _request_response: the first try of a request.
BeginRequest(c) ==
    /\ caller[c].at = "idle"
    /\ Goes(c, "prepare")
    /\ UNCHANGED <<userVars, auth, files, issued, sent, used>>

\* _activate_locked_generation up to its commit.
Activation(c) ==
    LET v == auth.pending IN
    /\ v = auth.version + 1
    /\ files.bundle[v] # 0
    /\ files' = WithPair(files, v, files.bundle[v])
    /\ \E status \in {"CONNECTED", "PERMISSION_MISSING"} :
          auth' = [Cleared(status, "ACTIVATED") EXCEPT !.version = v, !.life = "fresh"]
    /\ caller' = [caller EXCEPT ![c].at = "activated", ![c].gen = v]

\* The files _cleanup_known_orphans removes for a row of version v.
WithoutOrphans(f, v, pending) ==
    [kind \in DOMAIN f |->
        [n \in Tokens |-> IF n \in 1..v /\ (IF kind = "bundle" THEN n # pending ELSE n # v)
                          THEN 0 ELSE f[kind][n]]]

\* _prepare_rotation finds the bundle of the pending generation.
PrepareActivates(c) ==
    /\ caller[c].at = "prepare" /\ Readable
    /\ BundleExists
    /\ Activation(c)
    /\ UNCHANGED <<userVars, issued, sent, used>>

\* Another owner's lease runs: sleep, and never force again; or give up.
PrepareWaits(c) ==
    /\ caller[c].at = "prepare" /\ Readable
    /\ ~BundleExists /\ auth.pending # 0 /\ auth.lease = "live"
    /\ \/ caller' = [caller EXCEPT ![c].force = FALSE]
       \/ Raises(c)
    /\ UNCHANGED <<userVars, auth, files, issued, sent, used>>

Unstarted == auth.phase = "CLAIMED" /\ ~auth.started

\* A lapsed rotation that sent nothing is cleared.  The commit ends the row lock
\* and the function goes on with the row it holds in memory.
PrepareResets(c) ==
    /\ caller[c].at = "prepare" /\ Readable
    /\ ~BundleExists /\ auth.pending # 0 /\ auth.lease = "lapsed"
    /\ Unstarted
    /\ auth' = Cleared("CONNECTED", "IDLE")
    /\ caller' = [caller EXCEPT ![c].at = "reset", ![c].gen = auth.version,
                                ![c].fence = auth.fence, ![c].life = auth.life]
    /\ Count("takeovers")
    /\ UNCHANGED <<userVars, files, issued, sent>>

\* Mutant: the old refresh token is tried again.
UncertainMut == "CONNECTED"

\* The status of an authorization whose rotation has an unknown outcome.
Uncertain == "REAUTH_REQUIRED"

\* A lapsed rotation whose request may have reached Feishu.
PrepareGivesUp(c) ==
    /\ caller[c].at = "prepare" /\ Readable
    /\ ~BundleExists /\ auth.pending # 0 /\ auth.lease = "lapsed"
    /\ ~Unstarted
    /\ auth' = Cleared(Uncertain, IF auth.phase = "IDLE" THEN "REQUEST_STARTED" ELSE auth.phase)
    /\ Raises(c)
    /\ UNCHANGED <<userVars, files, issued, sent, used>>

Claim(c, version, fence) ==
    [auth EXCEPT !.status = "REFRESHING", !.pending = version + 1, !.owner = c, !.lease = "live",
                 !.fence = fence + 1, !.phase = "CLAIMED"]

Claimant(c, version, fence) ==
    [caller EXCEPT ![c].at = "claimed", ![c].gen = version + 1, ![c].fence = fence + 1,
                   ![c].token = files.refresh[version]]

\* Nothing is pending: orphans go, and the row is judged.
PrepareReads(c) ==
    /\ caller[c].at = "prepare" /\ Readable
    /\ auth.pending = 0 /\ auth.status # "ABSENT"
    /\ files' = WithoutOrphans(files, auth.version, 0)
    /\ \/ /\ auth.status # "CONNECTED"
          /\ Raises(c)
          /\ UNCHANGED auth
       \/ /\ auth.status = "CONNECTED"
          /\ ~caller[c].force /\ auth.life = "fresh"
          /\ IF files.access[auth.version] # 0
             THEN Hands(c) ELSE Raises(c)
          /\ UNCHANGED auth
       \/ /\ auth.status = "CONNECTED"
          /\ (caller[c].force \/ auth.life # "fresh") /\ auth.life = "expired"
          /\ auth' = [auth EXCEPT !.status = "EXPIRED"]
          /\ Raises(c)
       \/ /\ auth.status = "CONNECTED"
          /\ (caller[c].force \/ auth.life # "fresh") /\ auth.life # "expired"
          /\ auth.version < MaxTokens
          /\ IF files.refresh[auth.version] # 0
             THEN /\ auth' = [Claim(c, auth.version, auth.fence) EXCEPT !.started = FALSE]
                  /\ caller' = Claimant(c, auth.version, auth.fence)
             ELSE Raises(c) /\ UNCHANGED auth
    /\ UNCHANGED <<userVars, issued, sent, used>>

\* The same after the reset, from memory: only the columns that differ from the
\* row in memory are written, rotation_request_started_at is not among them.
ResetReads(c) ==
    LET v == caller[c].gen IN
    /\ caller[c].at = "reset"
    /\ files' = WithoutOrphans(files, v, 0)
    /\ \/ /\ ~caller[c].force /\ caller[c].life = "fresh"
          /\ IF files.access[v] # 0 THEN Hands(c) ELSE Raises(c)
          /\ UNCHANGED auth
       \/ /\ (caller[c].force \/ caller[c].life # "fresh") /\ caller[c].life = "expired"
          /\ auth' = [auth EXCEPT !.status = "EXPIRED"]
          /\ Raises(c)
       \/ /\ (caller[c].force \/ caller[c].life # "fresh") /\ caller[c].life # "expired"
          /\ v < MaxTokens
          /\ IF files.refresh[v] # 0
             THEN auth' = Claim(c, v, caller[c].fence) /\ caller' = Claimant(c, v, caller[c].fence)
             ELSE Raises(c) /\ UNCHANGED auth
    /\ UNCHANGED <<userVars, issued, sent, used>>

\* The row is absent, or cannot be loaded.
Unavailable(c) ==
    /\ caller[c].at \notin {"idle", "reset", "requested", "activated", "call"}
    /\ auth.status = "ABSENT" \/ ~Readable
    /\ Raises(c)
    /\ UNCHANGED <<userVars, auth, files, issued, sent, used>>

\* _require_current_claim.
CurrentClaim(c) ==
    /\ auth.pending = caller[c].gen
    /\ auth.owner = c
    /\ auth.fence = caller[c].fence

\* _mark_request_started; it is outside the try, so a refusal only raises.
MarkRequestStarted(c) ==
    /\ caller[c].at = "claimed" /\ Readable
    /\ IF CurrentClaim(c) /\ auth.phase = "CLAIMED"
       THEN auth' = [auth EXCEPT !.phase = "REQUEST_STARTED", !.started = TRUE] /\ Goes(c, "requested")
       ELSE Raises(c) /\ UNCHANGED auth
    /\ UNCHANGED <<userVars, files, issued, sent, used>>

\* The except branch: the failure is recorded unless there is a bundle.
Excepts(c) ==
    IF files.bundle[caller[c].gen] = 0 THEN Goes(c, "failed") ELSE Raises(c)

\* Feishu accepts a refresh token: that of its newest pair.
Accepted(t) == t = issued /\ issued < MaxTokens

\* The exchange with Feishu and write_token_generation.  A fault is a request or
\* an answer that is lost, or a disk that refuses the bundle.
Refresh(c) ==
    LET t == caller[c].token IN
    /\ caller[c].at = "requested"
    /\ sent' = [sent EXCEPT ![t] = @ + 1]
    /\ \/ /\ Accepted(t)
          /\ issued' = issued + 1
          /\ files' = [files EXCEPT !.bundle[caller[c].gen] = issued + 1]
          /\ Goes(c, "received")
          /\ UNCHANGED used
       \/ /\ Accepted(t)
          /\ issued' = issued + 1
          /\ Fault
          /\ Excepts(c)
          /\ UNCHANGED files
       \/ /\ \/ t # issued /\ UNCHANGED used
             \/ Fault
          /\ Excepts(c)
          /\ UNCHANGED <<issued, files>>
    /\ UNCHANGED <<userVars, auth>>

\* _mark_result_durable.
MarkResultDurable(c) ==
    /\ caller[c].at = "received" /\ Readable
    /\ IF CurrentClaim(c) /\ auth.phase = "REQUEST_STARTED" /\ files.bundle[caller[c].gen] # 0
       THEN auth' = [auth EXCEPT !.phase = "RESULT_DURABLE"] /\ Goes(c, "durable")
       ELSE Excepts(c) /\ UNCHANGED auth
    /\ UNCHANGED <<userVars, files, issued, sent, used>>

\* _activate_pending_generation with the claim.
ActivatePending(c) ==
    /\ caller[c].at = "durable" /\ Readable
    /\ \/ /\ auth.pending = 0
          /\ IF files.access[auth.version] # 0
             THEN Hands(c) ELSE Excepts(c)
          /\ UNCHANGED <<auth, files>>
       \/ auth.pending # 0 /\ CurrentClaim(c) /\ Activation(c)
       \/ /\ auth.pending # 0
          /\ ~CurrentClaim(c) \/ auth.pending # auth.version + 1 \/ ~BundleExists
          /\ Excepts(c)
          /\ UNCHANGED <<auth, files>>
    /\ UNCHANGED <<userVars, issued, sent, used>>

\* After the commit: the bundle and the replaced files, then known orphans.
CleanUp(c) ==
    LET v == caller[c].gen IN
    /\ caller[c].at = "activated"
    /\ files' = WithoutOrphans(WithPair([files EXCEPT !.bundle[v] = 0], v - 1, 0), v, 0)
    /\ Hands(c)
    /\ UNCHANGED <<userVars, auth, issued, sent, used>>

\* Mutant: a failed exchange leaves the authorization connected.
FailedMut == "CONNECTED"

\* Its status after a failed exchange, whatever the HTTP status was.
Failed == "REAUTH_REQUIRED"

\* _record_rotation_failure; the exception then leaves get_access_token.
RecordFailure(c) ==
    /\ caller[c].at = "failed" /\ Readable
    /\ auth' = IF auth.pending = caller[c].gen /\ auth.owner = c /\ auth.fence = caller[c].fence
               THEN Cleared(Failed, auth.phase)
               ELSE auth
    /\ Raises(c)
    /\ UNCHANGED <<userVars, files, issued, sent, used>>

\* _request_response: the first 401 forces a refresh, anything else ends it.
Call(c) ==
    /\ caller[c].at = "call"
    /\ \/ Raises(c)
       \/ /\ ~caller[c].retried
          /\ caller' = [caller EXCEPT ![c] = [Idle EXCEPT !.at = "prepare", !.force = TRUE,
                                                          !.retried = TRUE]]
    /\ UNCHANGED <<userVars, auth, files, issued, sent, used>>

\* The process of c dies; in Activation the new files may be there already.
Crash(c) ==
    /\ Working(c)
    /\ \/ UNCHANGED files
       \/ /\ caller[c].at = "durable" /\ BundleExists
          /\ files' = WithPair(files, auth.pending, files.bundle[auth.pending])
    /\ Fault
    /\ Raises(c)
    /\ UNCHANGED <<userVars, auth, issued, sent>>

UserNext ==
    \/ \E a \in Attempts : StartAuthorization(a)
    \/ \E b \in Browsers, a \in Attempts : ConsumeState(b, a)
    \/ \E b \in Browsers : ExchangeCode(b) \/ StoreAuthorization(b) \/ CallbackFails(b)
    \/ Disconnect

CallerNext(c) ==
    \/ BeginRequest(c) \/ PrepareActivates(c) \/ PrepareWaits(c) \/ PrepareResets(c)
    \/ PrepareGivesUp(c) \/ PrepareReads(c) \/ ResetReads(c) \/ Unavailable(c)
    \/ MarkRequestStarted(c) \/ Refresh(c) \/ MarkResultDurable(c) \/ ActivatePending(c)
    \/ CleanUp(c) \/ RecordFailure(c) \/ Call(c) \/ Crash(c)

TokenNext == UserNext \/ TokensAge \/ LeaseLapses \/ \E c \in Callers : CallerNext(c)

TokenSpec == TokenInit /\ [][TokenNext]_tokenVars

-----------------------------------------------------------------------------
\* Every variable stays within its type, and the columns of a pending rotation
\* are set and cleared together (FeishuUserAuthorization.__post_init__).
TokenTypeOK ==
    /\ attempt \in AttemptRows
    /\ verifiers \subseteq Attempts
    /\ exchanged \in [Attempts -> Nat]
    /\ browser \in [Browsers -> Callback]
    /\ auth \in Authorization
    /\ auth.pending = 0 <=> auth.owner = "nobody"
    /\ auth.pending = 0 <=> auth.lease = "none"
    /\ files \in SecretFiles
    /\ issued \in Tokens
    /\ sent \in [Tokens -> Nat]
    /\ caller \in [Callers -> Caller]
    /\ used \in [lapses : Nat, takeovers : Nat, faults : Nat, revoked : Nat]

\* However often the callback of an attempt is delivered, and wherever it fails,
\* its code is exchanged at most once (consume under the row lock).
CodeIsExchangedOnce == \A a \in Attempts : exchanged[a] <= 1

\* A connected authorization can be used and refreshed: the files of its version
\* hold the newest pair of Feishu.  Crashes at any point of a rotation keep it
\* so; only a takeover or a revocation may break it.
ConnectedHoldsNewestTokens ==
    auth.status = "CONNECTED" /\ used.takeovers = 0 /\ used.revoked = 0 =>
        /\ files.access[auth.version] = issued
        /\ files.refresh[auth.version] = issued

\* No refresh token is sent twice, unless a rotation was taken over: not by two
\* callers at once, not after a crash, a lost answer or a lapsed lease.
SentTwiceOnlyAfterTakeover ==
    used.takeovers = 0 => \A t \in 1..MaxTokens : sent[t] <= 1
=============================================================================
