------------------------- MODULE TokenRotationProofs -------------------------
(***************************************************************************)
(* What the authorization of a user keeps, for every number of callers,    *)
(* OAuth attempts, callbacks, pairs of tokens, lapses, faults and          *)
(* revocations.                                                            *)
(*                                                                         *)
(* While no rotation was taken over, version v of the authorization has    *)
(* pair v of Feishu, one caller at most has a claim on the next version    *)
(* and has not sent the refresh token yet, and a token that was sent       *)
(* leaves the authorization claimed, or dead, until the next version.      *)
(***************************************************************************)
EXTENDS TokenRotation, TLAPS

\* A delivery of the callback has an attempt that it alone consumed, and until it
\* has sent the code nobody did.
CodeIsOfOneCallback ==
    /\ \A b \in Browsers : browser[b].at # "idle" =>
           /\ browser[b].attempt \in Attempts
           /\ attempt[browser[b].attempt] = "used"
    /\ \A b, d \in Browsers :
           /\ browser[b].at # "idle"
           /\ browser[d].at # "idle"
           /\ browser[b].attempt = browser[d].attempt
           => b = d
    /\ \A b \in Browsers : browser[b].at = "consumed" => exchanged[browser[b].attempt] = 0
    /\ \A a \in Attempts : attempt[a] # "used" => exchanged[a] = 0

CodeInv == CodeIsOfOneCallback /\ CodeIsExchangedOnce

-----------------------------------------------------------------------------
Kinds == {"access", "refresh", "bundle"}

Taken == used.takeovers # 0

\* The caller is about to send the refresh token it has claimed.
Sending(c) == caller[c].at \in {"claimed", "requested"}

\* No claim is made on the authorization any more.
Dead == auth.pending = 0 /\ auth.status \notin {"ABSENT", "CONNECTED", "REFRESHING"}

Claimed == auth.pending # 0 \/ Dead

\* Only a take-over resets a claim.
OnlyTakeoversReset == \A c \in Callers : caller[c].at # "reset"

\* The row: the next version is pending or none.
RowIsInOrder ==
    /\ auth.pending \in {0, auth.version + 1}
    /\ auth.status = "CONNECTED" => auth.pending = 0
    /\ auth.status = "REFRESHING" => auth.pending # 0
    /\ auth.status = "ABSENT" <=> auth.version = 0
    /\ auth.status = "ABSENT" => auth.pending = 0

\* Who is about to send has the token of the row, and is alone.
SenderHasTheClaim ==
    /\ \A c \in Callers : Sending(c) =>
           /\ caller[c].gen = auth.version + 1
           /\ caller[c].token = auth.version
           /\ Claimed
           /\ auth.status # "ABSENT"
    /\ \A c, d \in Callers : Sending(c) /\ Sending(d) => c = d

\* A token that was sent is of this version or an older one; sending that of this
\* version ended the claim of its sender.
SentIsClaimed ==
    /\ \A t \in Tokens : sent[t] # 0 => t <= auth.version
    /\ sent[auth.version] # 0 => Claimed /\ \A c \in Callers : ~Sending(c)

\* Version v has pair v, and a bundle comes of the token before it.
FilesAreNumbered ==
    /\ \A kind \in Kinds, v \in Tokens : files[kind][v] \in {0, v}
    /\ \A v \in 1..MaxTokens : files.bundle[v] # 0 => sent[v - 1] # 0 /\ v <= issued

\* Feishu issued the pair of this version, or the next after its token was sent.
IssuedIsNext ==
    /\ issued \in {auth.version, auth.version + 1}
    /\ issued # auth.version => sent[auth.version] # 0

\* Cleaning up is about versions that were replaced.
CleansTheOld ==
    \A c \in Callers : caller[c].at = "activated" => caller[c].gen <= auth.version

FilesOfTheVersion ==
    used.revoked = 0 =>
        /\ files.access[auth.version] = auth.version
        /\ files.refresh[auth.version] = auth.version

SentOnce == \A t \in 1..MaxTokens : sent[t] <= 1

Numbered ==
    /\ OnlyTakeoversReset
    /\ RowIsInOrder
    /\ SenderHasTheClaim
    /\ SentIsClaimed
    /\ FilesAreNumbered
    /\ IssuedIsNext
    /\ CleansTheOld
    /\ FilesOfTheVersion
    /\ SentOnce

TokenInv == TokenTypeOK /\ CodeInv /\ (Taken \/ Numbered)

-----------------------------------------------------------------------------
LEMMA Bounds ==
    /\ MaxTokens \in Nat /\ Tokens \subseteq Nat /\ 0 \in Tokens /\ 1 \in Tokens
    /\ \A v \in Tokens : v < MaxTokens => v + 1 \in Tokens
    /\ \A v \in Tokens : v \in 1..MaxTokens => v - 1 \in Tokens
    /\ 1..MaxTokens \subseteq Tokens
BY TokenAssumption DEF Tokens

\* A file is written.
LEMMA FileWritten ==
    ASSUME NEW f \in SecretFiles, NEW kind \in Kinds, NEW v, NEW x \in Tokens
    PROVE  /\ [f EXCEPT ![kind][v] = x] \in SecretFiles
           /\ \A k \in Kinds, n \in Tokens :
                  [f EXCEPT ![kind][v] = x][k][n] = IF k = kind /\ n = v THEN x ELSE f[k][n]
BY DEF SecretFiles, Kinds

\* The files of a pair are written.
LEMMA PairWritten ==
    ASSUME NEW f \in SecretFiles, NEW v, NEW x \in Tokens
    PROVE  /\ WithPair(f, v, x) \in SecretFiles
           /\ \A n \in Tokens :
                  /\ WithPair(f, v, x).access[n] = IF n = v THEN x ELSE f.access[n]
                  /\ WithPair(f, v, x).refresh[n] = IF n = v THEN x ELSE f.refresh[n]
                  /\ WithPair(f, v, x).bundle[n] = f.bundle[n]
<1> DEFINE g == [f EXCEPT !.access[v] = x]
           h == [g EXCEPT !.refresh[v] = x]
<1>1. g \in SecretFiles
      /\ \A k \in Kinds, n \in Tokens : g[k][n] = IF k = "access" /\ n = v THEN x ELSE f[k][n]
  BY FileWritten DEF Kinds
<1>2. h = WithPair(f, v, x)
  BY DEF WithPair
<1> HIDE DEF g
<1>3. h \in SecretFiles
      /\ \A k \in Kinds, n \in Tokens : h[k][n] = IF k = "refresh" /\ n = v THEN x ELSE g[k][n]
  BY <1>1 DEF SecretFiles, Kinds
<1> HIDE DEF h
<1>4. \A n \in Tokens : /\ h.access[n] = IF n = v THEN x ELSE f.access[n]
                        /\ h.refresh[n] = IF n = v THEN x ELSE f.refresh[n]
                        /\ h.bundle[n] = f.bundle[n]
  BY <1>1, <1>3 DEF Kinds
<1> QED
  BY <1>2, <1>3, <1>4

LEMMA OrphansRemoved ==
    ASSUME NEW f \in SecretFiles, NEW v \in Tokens
    PROVE  /\ WithoutOrphans(f, v, 0) \in SecretFiles
           /\ \A k \in Kinds, n \in Tokens : WithoutOrphans(f, v, 0)[k][n] \in {0, f[k][n]}
           /\ \A k \in {"access", "refresh"}, n \in Tokens :
                  n >= v => WithoutOrphans(f, v, 0)[k][n] = f[k][n]
BY Bounds DEF WithoutOrphans, SecretFiles, Kinds

LEMMA RowIs ==
    ASSUME NEW row \in Authorization
    PROVE  /\ row.status \in Statuses /\ row.version \in Tokens /\ row.pending \in Tokens
           /\ row.fence \in Nat /\ row.owner \in Callers \cup {"nobody"}
           /\ row.lease \in {"none", "live", "lapsed"}
BY DEF Authorization

-----------------------------------------------------------------------------
\* What is counted only grows.
Counters == [lapses : Nat, takeovers : Nat, faults : Nat, revoked : Nat]

UsedGrows ==
    /\ used' \in Counters
    /\ Taken => Taken'
    /\ used'.revoked = 0 => used.revoked = 0

LEMMA CountGrows ==
    ASSUME used \in Counters,
           \/ UNCHANGED used \/ Fault \/ Count("lapses") \/ Count("faults")
           \/ Count("revoked") \/ Count("takeovers")
    PROVE  /\ UsedGrows
           /\ Count("takeovers") => Taken'
           /\ Count("revoked") => used'.revoked # 0
<1>1. CASE UNCHANGED used
  BY <1>1 DEF UsedGrows, Counters, Taken, Count
<1>2. CASE Count("lapses")
  BY <1>2 DEF UsedGrows, Counters, Taken, Count
<1>3. CASE Count("faults")
  BY <1>3 DEF UsedGrows, Counters, Taken, Count
<1>4. CASE Count("revoked")
  BY <1>4 DEF UsedGrows, Counters, Taken, Count
<1>5. CASE Count("takeovers")
  BY <1>5 DEF UsedGrows, Counters, Taken, Count
<1> QED
  BY <1>1, <1>2, <1>3, <1>4, <1>5 DEF Fault

-----------------------------------------------------------------------------
\* Caller c gets to x.
LEMMA CallerMoves ==
    ASSUME caller \in [Callers -> Caller], NEW c \in Callers, NEW x \in Caller,
           caller' = [caller EXCEPT ![c] = x]
    PROVE  /\ caller' \in [Callers -> Caller] /\ caller'[c] = x
           /\ \A d \in Callers \ {c} : caller'[d] = caller[d]
OBVIOUS

LEMMA IdleIsCaller == Idle \in Caller /\ Idle.at = "idle"
BY Bounds DEF Idle, Caller

Places == {"idle", "prepare", "reset", "claimed", "requested", "received", "durable",
           "activated", "failed", "call"}

LEMMA CallerIs ==
    ASSUME NEW x \in Caller
    PROVE  /\ x.at \in Places /\ x.gen \in Tokens /\ x.fence \in Nat /\ x.token \in Tokens
           /\ x.life \in {"fresh", "stale", "expired"} /\ x.retried \in BOOLEAN
BY DEF Caller, Places

LEMMA GoesIs ==
    ASSUME caller \in [Callers -> Caller], NEW c \in Callers, NEW where \in Places, Goes(c, where)
    PROVE  /\ caller' \in [Callers -> Caller] /\ caller'[c].at = where
           /\ caller'[c].gen = caller[c].gen /\ caller'[c].token = caller[c].token
           /\ \A d \in Callers \ {c} : caller'[d] = caller[d]
<1> DEFINE x == [caller[c] EXCEPT !.at = where]
<1>1. caller[c] \in Caller
  OBVIOUS
<1>2. x \in Caller /\ x.at = where /\ x.gen = caller[c].gen /\ x.token = caller[c].token
  BY <1>1 DEF Caller, Places
<1>3. caller' = [caller EXCEPT ![c] = x]
  BY DEF Goes
<1> HIDE DEF x
<1> QED
  BY <1>2, <1>3, CallerMoves

\* A caller gets to where others than the owner of a claim may be, or is about to
\* send the token that it was about to send.
Settles(c) ==
    /\ caller' \in [Callers -> Caller]
    /\ \/ caller'[c].at \notin {"claimed", "requested", "reset", "activated"}
       \/ /\ Sending(c)
          /\ caller'[c].at = "requested"
          /\ caller'[c].gen = caller[c].gen
          /\ caller'[c].token = caller[c].token
    /\ \A d \in Callers \ {c} : caller'[d] = caller[d]

LEMMA RaisesSettles ==
    ASSUME caller \in [Callers -> Caller], NEW c \in Callers, Raises(c)
    PROVE  Settles(c)
BY CallerMoves, IdleIsCaller DEF Raises, Settles

LEMMA HandsSettles ==
    ASSUME caller \in [Callers -> Caller], NEW c \in Callers, Hands(c)
    PROVE  Settles(c)
<1> DEFINE x == [Idle EXCEPT !.at = "call", !.retried = caller[c].retried]
<1>1. caller[c].retried \in BOOLEAN
  BY CallerIs
<1>2. x \in Caller /\ x.at = "call"
  BY <1>1, IdleIsCaller DEF Caller
<1>3. caller' = [caller EXCEPT ![c] = x]
  BY DEF Hands
<1> HIDE DEF x
<1> QED
  BY <1>2, <1>3, CallerMoves DEF Settles

LEMMA GoesSettles ==
    ASSUME caller \in [Callers -> Caller], NEW c \in Callers,
           NEW where \in Places \ {"claimed", "requested", "reset", "activated"}, Goes(c, where)
    PROVE  Settles(c)
BY GoesIs DEF Settles

LEMMA ExceptsSettles ==
    ASSUME caller \in [Callers -> Caller], NEW c \in Callers, Excepts(c)
    PROVE  Settles(c)
<1>1. "failed" \in Places \ {"claimed", "requested", "reset", "activated"}
  BY DEF Places
<1> QED
  BY <1>1, RaisesSettles, GoesSettles DEF Excepts

-----------------------------------------------------------------------------
\* A step within a version, after which nobody sends who did not before.
LEMMA SameVersion ==
    ASSUME TokenTypeOK, Numbered, auth'.version = auth.version, RowIsInOrder', FilesOfTheVersion',
           Claimed => Claimed', auth.status # "ABSENT" => auth'.status # "ABSENT",
           UNCHANGED <<issued, sent>>,
           UNCHANGED caller \/ \E c \in Callers : Settles(c),
           \A kind \in Kinds, v \in Tokens : files'[kind][v] \in {0, v},
           \A v \in Tokens : files'.bundle[v] # 0 => files.bundle[v] # 0
    PROVE  Numbered'
<1>1. \A c \in Callers :
          \/ caller'[c] = caller[c]
          \/ caller'[c].at \notin {"claimed", "requested", "reset", "activated"}
          \/ /\ Sending(c) /\ caller'[c].at = "requested"
             /\ caller'[c].gen = caller[c].gen /\ caller'[c].token = caller[c].token
  BY DEF Settles
<1>2. OnlyTakeoversReset' /\ CleansTheOld'
  BY <1>1 DEF Numbered, OnlyTakeoversReset, CleansTheOld
<1>3. SenderHasTheClaim'
  BY <1>1 DEF Numbered, SenderHasTheClaim, Sending
<1>4. SentIsClaimed'
  BY <1>1 DEF Numbered, SentIsClaimed, Sending
<1>5. FilesAreNumbered'
  BY Bounds DEF Numbered, FilesAreNumbered
<1>6. IssuedIsNext' /\ SentOnce'
  BY DEF Numbered, IssuedIsNext, SentOnce
<1> QED
  BY <1>2, <1>3, <1>4, <1>5, <1>6 DEF Numbered

-----------------------------------------------------------------------------
\* What the steps of the callers leave of the user's side.
LEMMA UserVarsSame ==
    ASSUME CodeInv, UNCHANGED userVars
    PROVE  CodeInv'
BY DEF CodeInv, CodeIsOfOneCallback, CodeIsExchangedOnce, userVars

UserTyped ==
    /\ attempt \in AttemptRows /\ verifiers \subseteq Attempts
    /\ exchanged \in [Attempts -> Nat] /\ browser \in [Browsers -> Callback]

RowTyped ==
    /\ auth \in Authorization
    /\ auth.pending = 0 <=> auth.owner = "nobody"
    /\ auth.pending = 0 <=> auth.lease = "none"

LEMMA TypeParts ==
    TokenTypeOK <=> /\ UserTyped /\ RowTyped /\ files \in SecretFiles /\ issued \in Tokens
                    /\ sent \in [Tokens -> Nat] /\ caller \in [Callers -> Caller]
                    /\ used \in Counters
BY DEF TokenTypeOK, UserTyped, RowTyped, Counters

TokenKept == TokenTypeOK' /\ CodeInv' /\ (Taken' \/ Numbered')

\* A step of the user's side that leaves the rest alone.
LEMMA OnlyUserSide ==
    ASSUME TokenInv, UserTyped', CodeInv', UsedGrows,
           UNCHANGED auth, UNCHANGED files, UNCHANGED issued, UNCHANGED sent, UNCHANGED caller
    PROVE  TokenKept
<1>1. TokenTypeOK'
  BY TypeParts DEF TokenInv, TokenTypeOK, UserTyped, UsedGrows, Counters
<1>2. CASE Taken
  BY <1>1, <1>2 DEF TokenKept, UsedGrows
<1>3. CASE ~Taken
  <2>1. Numbered
    BY <1>3 DEF TokenInv
  <2>2. Numbered'
    BY <2>1 DEF UsedGrows, Numbered, OnlyTakeoversReset, RowIsInOrder, SenderHasTheClaim, Sending,
       Claimed, Dead, SentIsClaimed, FilesAreNumbered, IssuedIsNext, CleansTheOld,
       FilesOfTheVersion, SentOnce
  <2> QED
    BY <1>1, <2>2 DEF TokenKept
<1> QED
  BY <1>2, <1>3

LEMMA StartAuthorizationKeeps ==
    ASSUME TokenInv, NEW a \in Attempts, StartAuthorization(a)
    PROVE  TokenKept
<1>1. /\ attempt[a] = "none"
      /\ attempt' = [attempt EXCEPT ![a] = "open"] \/ attempt' = attempt
      /\ verifiers' = verifiers \cup {a}
      /\ UNCHANGED used \/ Fault
      /\ UNCHANGED <<exchanged, browser>> /\ UNCHANGED auth /\ UNCHANGED files
      /\ UNCHANGED issued /\ UNCHANGED sent /\ UNCHANGED caller
  BY DEF StartAuthorization
<1>2. UserTyped /\ used \in Counters
  BY TypeParts DEF TokenInv
<1>3. UsedGrows
  BY <1>1, <1>2, CountGrows
<1>4. UserTyped'
  BY <1>1, <1>2 DEF UserTyped, AttemptRows
<1>5. CodeInv'
  BY <1>1, <1>2 DEF TokenInv, CodeInv, CodeIsOfOneCallback, CodeIsExchangedOnce, UserTyped, AttemptRows
<1> QED
  BY <1>1, <1>3, <1>4, <1>5, OnlyUserSide

LEMMA ConsumeStateKeeps ==
    ASSUME TokenInv, NEW b \in Browsers, NEW a \in Attempts, ConsumeState(b, a)
    PROVE  TokenKept
<1> DEFINE x == [at |-> "consumed", attempt |-> a]
<1>1. /\ attempt[a] = "open" /\ attempt' = [attempt EXCEPT ![a] = "used"]
      /\ browser[b].at = "idle" /\ browser' = [browser EXCEPT ![b] = x]
      /\ UNCHANGED verifiers /\ UNCHANGED exchanged /\ UNCHANGED used
      /\ UNCHANGED auth /\ UNCHANGED files /\ UNCHANGED issued /\ UNCHANGED sent /\ UNCHANGED caller
  BY DEF ConsumeState, Consumable
<1>2. UserTyped /\ used \in Counters /\ CodeInv
  BY TypeParts DEF TokenInv
<1>3. UsedGrows
  BY <1>1, <1>2, CountGrows
<1>4. x \in Callback /\ x.at = "consumed" /\ x.attempt = a
  BY DEF Callback
<1> HIDE DEF x
<1>5. /\ attempt' \in AttemptRows /\ attempt'[a] = "used"
      /\ \A e \in Attempts \ {a} : attempt'[e] = attempt[e]
      /\ browser' \in [Browsers -> Callback] /\ browser'[b] = x
      /\ \A d \in Browsers \ {b} : browser'[d] = browser[d]
  BY <1>1, <1>2, <1>4 DEF UserTyped, AttemptRows
<1>6. UserTyped'
  BY <1>1, <1>2, <1>5 DEF UserTyped
<1>7. CodeIsOfOneCallback'
  BY <1>1, <1>2, <1>4, <1>5 DEF CodeInv, CodeIsOfOneCallback
<1>8. CodeIsExchangedOnce'
  BY <1>1, <1>2 DEF CodeInv, CodeIsExchangedOnce
<1> QED
  BY <1>1, <1>3, <1>6, <1>7, <1>8, OnlyUserSide DEF CodeInv

LEMMA ExchangeCodeKeeps ==
    ASSUME TokenInv, NEW b \in Browsers, ExchangeCode(b)
    PROVE  TokenKept
<1> DEFINE a == browser[b].attempt
           x == [browser[b] EXCEPT !.at = "exchanged"]
<1>1. /\ browser[b].at = "consumed" /\ a \in verifiers
      /\ UNCHANGED attempt /\ UNCHANGED verifiers /\ UNCHANGED used
      /\ UNCHANGED auth /\ UNCHANGED files /\ UNCHANGED issued /\ UNCHANGED sent /\ UNCHANGED caller
  BY DEF ExchangeCode
<1>2. UserTyped /\ used \in Counters /\ CodeInv
  BY TypeParts DEF TokenInv
<1>3. UsedGrows
  BY <1>1, <1>2, CountGrows
<1>4. x \in Callback /\ x.at = "exchanged" /\ x.attempt = a /\ browser' = [browser EXCEPT ![b] = x]
  BY <1>2 DEF Callback, UserTyped, ExchangeCode
<1>5. a \in Attempts /\ exchanged[a] = 0
  BY <1>1, <1>2 DEF CodeInv, CodeIsOfOneCallback
<1>6. exchanged' = [exchanged EXCEPT ![a] = exchanged[a] + 1]
  BY <1>2, <1>5 DEF ExchangeCode, UserTyped
<1> HIDE DEF x
<1>7. /\ exchanged' \in [Attempts -> Nat] /\ exchanged'[a] = 1
      /\ \A e \in Attempts : e # a => exchanged'[e] = exchanged[e]
      /\ browser' \in [Browsers -> Callback] /\ browser'[b] = x
      /\ \A d \in Browsers \ {b} : browser'[d] = browser[d]
  BY <1>2, <1>4, <1>5, <1>6 DEF UserTyped
<1>8. UserTyped'
  BY <1>1, <1>2, <1>7 DEF UserTyped
<1>9. CodeIsOfOneCallback'
  BY <1>1, <1>2, <1>4, <1>5, <1>7 DEF CodeInv, CodeIsOfOneCallback
<1>10. CodeIsExchangedOnce'
  BY <1>2, <1>7 DEF CodeInv, CodeIsExchangedOnce
<1> QED
  BY <1>1, <1>3, <1>8, <1>9, <1>10, OnlyUserSide DEF CodeInv

\* A delivery of the callback is over.
LEMMA CallbackOver ==
    ASSUME TokenInv, NEW b \in Browsers, browser' = [browser EXCEPT ![b] = NoCallback],
           verifiers' \subseteq verifiers, UNCHANGED attempt, UNCHANGED exchanged
    PROVE  UserTyped' /\ CodeInv'
<1>1. UserTyped /\ CodeInv
  BY TypeParts DEF TokenInv
<1>2. NoCallback \in Callback /\ NoCallback.at = "idle"
  BY DEF NoCallback, Callback
<1>3. /\ browser' \in [Browsers -> Callback] /\ browser'[b].at = "idle"
      /\ \A d \in Browsers \ {b} : browser'[d] = browser[d]
  BY <1>1, <1>2 DEF UserTyped
<1>4. UserTyped'
  BY <1>1, <1>3 DEF UserTyped
<1>5. CodeIsOfOneCallback' /\ CodeIsExchangedOnce'
  BY <1>1, <1>3 DEF CodeInv, CodeIsOfOneCallback, CodeIsExchangedOnce
<1> QED
  BY <1>4, <1>5 DEF CodeInv

LEMMA CallbackFailsKeeps ==
    ASSUME TokenInv, NEW b \in Browsers, CallbackFails(b)
    PROVE  TokenKept
<1>1. /\ browser' = [browser EXCEPT ![b] = NoCallback] /\ UNCHANGED verifiers
      /\ UNCHANGED attempt /\ UNCHANGED exchanged
      /\ UNCHANGED auth /\ UNCHANGED files /\ UNCHANGED issued /\ UNCHANGED sent /\ UNCHANGED caller
      /\ UNCHANGED used \/ Fault
  BY DEF CallbackFails
<1>2. UsedGrows
  BY <1>1, CountGrows, TypeParts DEF TokenInv
<1> QED
  BY <1>1, <1>2, CallbackOver, OnlyUserSide

\* What is known before the first authorization is stored.
LEMMA NothingIsAuthorized ==
    ASSUME TokenTypeOK, Numbered, auth.status = "ABSENT"
    PROVE  /\ auth.version = 0 /\ auth.pending = 0 /\ issued = 0
           /\ \A t \in Tokens : sent[t] = 0
           /\ \A c \in Callers : ~Sending(c)
           /\ \A c \in Callers : caller[c].at = "activated" => caller[c].gen <= 0
           /\ \A v \in 1..MaxTokens : files.bundle[v] = 0
<1>1. auth.version = 0 /\ auth.pending = 0 /\ ~Claimed /\ 0 \in Tokens /\ Tokens \subseteq Nat
  BY Bounds DEF Numbered, RowIsInOrder, Claimed, Dead
<1>2. \A t \in Tokens : sent[t] = 0
  BY <1>1, TypeParts DEF Numbered, SentIsClaimed
<1>3. issued = 0
  BY <1>1, <1>2 DEF Numbered, IssuedIsNext
<1>4. \A v \in 1..MaxTokens : files.bundle[v] = 0
  BY <1>3 DEF Numbered, FilesAreNumbered
<1> QED
  BY <1>1, <1>2, <1>3, <1>4 DEF Numbered, SenderHasTheClaim, CleansTheOld

LEMMA StoreAuthorizationKeeps ==
    ASSUME TokenInv, NEW b \in Browsers, StoreAuthorization(b)
    PROVE  TokenKept
<1>1. /\ browser' = [browser EXCEPT ![b] = NoCallback] /\ verifiers' \subseteq verifiers
      /\ UNCHANGED attempt /\ UNCHANGED exchanged /\ UNCHANGED sent /\ UNCHANGED caller
  BY DEF StoreAuthorization
<1>2. UserTyped' /\ CodeInv'
  BY <1>1, CallbackOver
<1>3. CASE UNCHANGED <<auth, files, issued>> /\ (UNCHANGED used \/ Fault)
  <2>1. UNCHANGED auth /\ UNCHANGED files /\ UNCHANGED issued
    BY <1>3
  <2>2. UsedGrows
    BY <1>3, CountGrows, TypeParts DEF TokenInv
  <2> QED
    BY <1>1, <1>2, <2>1, <2>2, OnlyUserSide
<1>4. CASE /\ auth.status = "ABSENT"
           /\ \E status \in {"CONNECTED", "PERMISSION_MISSING"} :
                 auth' = [NoAuthorization EXCEPT !.status = status, !.version = 1]
           /\ files' = WithPair(files, 1, 1)
           /\ issued' = 1
           /\ UNCHANGED used
  <2>1. PICK status \in {"CONNECTED", "PERMISSION_MISSING"} :
            auth' = [NoAuthorization EXCEPT !.status = status, !.version = 1]
    BY <1>4
  <2>2. files \in SecretFiles /\ sent \in [Tokens -> Nat] /\ caller \in [Callers -> Caller]
        /\ used \in Counters /\ 1 \in Tokens /\ 0 \in Tokens
    BY TypeParts, Bounds DEF TokenInv
  <2>3. /\ auth' \in Authorization /\ auth'.status = status /\ auth'.version = 1
        /\ auth'.pending = 0 /\ auth'.owner = "nobody" /\ auth'.lease = "none"
    BY <2>1, <2>2 DEF NoAuthorization, Authorization, Statuses
  <2>4. /\ files' \in SecretFiles
        /\ \A n \in Tokens : /\ files'.access[n] = IF n = 1 THEN 1 ELSE files.access[n]
                             /\ files'.refresh[n] = IF n = 1 THEN 1 ELSE files.refresh[n]
                             /\ files'.bundle[n] = files.bundle[n]
    <3>1. files' = WithPair(files, 1, 1)
      BY <1>4
    <3>2. files \in SecretFiles /\ 1 \in Tokens
      BY <2>2
    <3> QED
      BY <3>1, <3>2, PairWritten
  <2>5. TokenTypeOK'
    <3>1. RowTyped'
      BY <2>3 DEF RowTyped
    <3> QED
      BY <1>1, <1>2, <1>4, <2>2, <2>4, <3>1 DEF TokenTypeOK, UserTyped, RowTyped, Counters
  <2>6. CASE Taken
    BY <1>2, <1>4, <2>5, <2>6 DEF TokenKept, Taken
  <2>7. CASE ~Taken
    <3>1. TokenTypeOK /\ Numbered
      BY <2>7 DEF TokenInv
    <3>2. /\ \A t \in Tokens : sent'[t] = 0
          /\ \A c \in Callers : caller'[c].at \notin {"claimed", "requested"}
          /\ \A c \in Callers : caller'[c].at = "activated" => caller'[c].gen <= 0
          /\ \A v \in 1..MaxTokens : files'.bundle[v] = 0
      BY <1>1, <1>4, <2>4, <3>1, NothingIsAuthorized, Bounds DEF Sending
    <3>3. OnlyTakeoversReset' /\ RowIsInOrder' /\ SenderHasTheClaim' /\ SentOnce'
      BY <1>1, <2>3, <3>1, <3>2, Bounds
         DEF Numbered, OnlyTakeoversReset, RowIsInOrder, SenderHasTheClaim, Sending, SentOnce
    <3>4. SentIsClaimed' /\ IssuedIsNext'
      BY <1>4, <2>2, <2>3, <3>2 DEF SentIsClaimed, IssuedIsNext
    <3>5. CleansTheOld'
      <4>1. \A c \in Callers : caller[c].gen \in Nat
        BY <2>2, CallerIs, Bounds
      <4> QED
        BY <1>1, <2>3, <3>2, <4>1 DEF CleansTheOld
    <3>6. FilesAreNumbered'
      <4>1. \A v \in Tokens : files'.access[v] \in {0, v} /\ files'.refresh[v] \in {0, v}
                              /\ files'.bundle[v] \in {0, v}
        BY <2>4, <3>1 DEF Numbered, FilesAreNumbered, Kinds
      <4> QED
        BY <3>2, <4>1 DEF FilesAreNumbered, Kinds
    <3>7. FilesOfTheVersion'
      BY <2>2, <2>3, <2>4 DEF FilesOfTheVersion
    <3> QED
      BY <1>2, <2>5, <3>3, <3>4, <3>5, <3>6, <3>7 DEF TokenKept, Numbered
  <2> QED
    BY <2>6, <2>7
<1> QED
  BY <1>3, <1>4 DEF StoreAuthorization

-----------------------------------------------------------------------------
\* The row and the files after a step within a version.
RowKept ==
    /\ auth'.version = auth.version
    /\ RowIsInOrder'
    /\ Claimed => Claimed'
    /\ auth.status # "ABSENT" => auth'.status # "ABSENT"

FilesKept ==
    /\ FilesOfTheVersion'
    /\ \A kind \in Kinds, v \in Tokens : files'[kind][v] \in {0, v}
    /\ \A v \in Tokens : files'.bundle[v] # 0 => files.bundle[v] # 0

LEMMA WithinVersion ==
    ASSUME TokenInv, UNCHANGED userVars, RowTyped', files' \in SecretFiles,
           UNCHANGED issued, UNCHANGED sent,
           UNCHANGED caller \/ \E c \in Callers : Settles(c), UsedGrows,
           TokenTypeOK /\ Numbered => RowKept /\ FilesKept
    PROVE  TokenKept
<1>1. CodeInv'
  BY UserVarsSame DEF TokenInv
<1>2. caller' \in [Callers -> Caller]
  BY TypeParts DEF TokenInv, Settles
<1>3. TokenTypeOK'
  BY <1>2, TypeParts DEF TokenInv, TokenTypeOK, UserTyped, RowTyped, userVars, UsedGrows, Counters
<1>4. CASE Taken
  BY <1>1, <1>3, <1>4 DEF TokenKept, UsedGrows
<1>5. CASE ~Taken
  <2>1. TokenTypeOK /\ Numbered
    BY <1>5 DEF TokenInv
  <2>2. Numbered'
    BY <2>1, SameVersion DEF RowKept, FilesKept
  <2> QED
    BY <1>1, <1>3, <2>2 DEF TokenKept
<1> QED
  BY <1>4, <1>5

LEMMA FilesSame ==
    ASSUME TokenTypeOK, Numbered, UNCHANGED files, auth'.version = auth.version, UsedGrows
    PROVE  FilesKept
BY DEF FilesKept, Numbered, FilesAreNumbered, FilesOfTheVersion, UsedGrows

LEMMA RowSame ==
    ASSUME Numbered, auth'.version = auth.version, auth'.pending = auth.pending,
           auth'.status = auth.status
    PROVE  RowKept
BY DEF RowKept, Numbered, RowIsInOrder, Claimed, Dead

\* Nobody can refresh a row any more.
LEMMA RowDead ==
    ASSUME Numbered, auth'.version = auth.version, auth'.pending = 0,
           auth'.status \notin {"ABSENT", "CONNECTED", "REFRESHING"}, auth.status # "ABSENT"
    PROVE  RowKept
BY DEF RowKept, Numbered, RowIsInOrder, Claimed, Dead

\* Only the caller moves.
LEMMA OnlyCaller ==
    ASSUME TokenInv, UNCHANGED userVars, UNCHANGED auth, UNCHANGED files, UNCHANGED issued,
           UNCHANGED sent, NEW c \in Callers, Settles(c), UsedGrows
    PROVE  TokenKept
<1>1. RowTyped' /\ files' \in SecretFiles
  BY TypeParts DEF TokenInv, RowTyped
<1>2. TokenTypeOK /\ Numbered => RowKept /\ FilesKept
  BY RowSame, FilesSame
<1> QED
  BY <1>1, <1>2, WithinVersion

LEMMA DisconnectKeeps ==
    ASSUME TokenInv, Disconnect
    PROVE  TokenKept
<1>1. /\ auth.status # "ABSENT" /\ auth' = [auth EXCEPT !.status = "REVOKED"]
      /\ files' = WithPair(files, auth.version, 0) \/ UNCHANGED files
      /\ Count("revoked")
      /\ UNCHANGED userVars /\ UNCHANGED issued /\ UNCHANGED sent /\ UNCHANGED caller
  BY DEF Disconnect, userVars
<1>2. RowTyped /\ files \in SecretFiles /\ used \in Counters /\ 0 \in Tokens
  BY TypeParts, Bounds DEF TokenInv
<1>3. UsedGrows /\ used'.revoked # 0
  BY <1>1, <1>2, CountGrows
<1>4. /\ auth' \in Authorization /\ auth'.status = "REVOKED" /\ auth'.version = auth.version
      /\ auth'.pending = auth.pending /\ auth'.owner = auth.owner /\ auth'.lease = auth.lease
  BY <1>1, <1>2 DEF RowTyped, Authorization, Statuses
<1>5. RowTyped'
  BY <1>2, <1>4 DEF RowTyped
<1>6. /\ files' \in SecretFiles
      /\ \A n \in Tokens : /\ files'.access[n] \in {0, files.access[n]}
                           /\ files'.refresh[n] \in {0, files.refresh[n]}
                           /\ files'.bundle[n] = files.bundle[n]
  BY <1>1, <1>2, PairWritten
<1>7. ASSUME TokenTypeOK, Numbered PROVE RowKept /\ FilesKept
  <2>1. RowKept
    BY <1>1, <1>4, <1>7 DEF RowKept, Numbered, RowIsInOrder, Claimed, Dead
  <2>2. FilesKept
    BY <1>3, <1>6, <1>7 DEF FilesKept, Numbered, FilesAreNumbered, FilesOfTheVersion, Kinds
  <2> QED
    BY <2>1, <2>2
<1> QED
  BY <1>1, <1>3, <1>5, <1>6, <1>7, WithinVersion

LEMMA TimeKeeps ==
    ASSUME TokenInv, TokensAge \/ LeaseLapses
    PROVE  TokenKept
<1>1. /\ \/ auth' = [auth EXCEPT !.life = "stale"] \/ auth' = [auth EXCEPT !.life = "expired"]
         \/ auth.lease = "live" /\ auth' = [auth EXCEPT !.lease = "lapsed"]
      /\ UNCHANGED used \/ Count("lapses")
      /\ UNCHANGED userVars /\ UNCHANGED files /\ UNCHANGED issued /\ UNCHANGED sent
      /\ UNCHANGED caller
  BY DEF TokensAge, LeaseLapses
<1>2. RowTyped /\ files \in SecretFiles /\ used \in Counters
  BY TypeParts DEF TokenInv
<1>3. UsedGrows
  BY <1>1, <1>2, CountGrows
<1>4. /\ auth' \in Authorization /\ auth'.status = auth.status /\ auth'.version = auth.version
      /\ auth'.pending = auth.pending /\ auth'.owner = auth.owner
      /\ auth'.lease = "none" <=> auth.lease = "none"
  BY <1>1, <1>2 DEF RowTyped, Authorization
<1>5. RowTyped' /\ files' \in SecretFiles
  BY <1>1, <1>2, <1>4 DEF RowTyped
<1>6. TokenTypeOK /\ Numbered => RowKept /\ FilesKept
  BY <1>1, <1>3, <1>4, RowSame, FilesSame
<1> QED
  BY <1>1, <1>3, <1>5, <1>6, WithinVersion

-----------------------------------------------------------------------------
LEMMA AtPlaces ==
    /\ \A where \in {"prepare", "received", "durable", "failed", "call"} :
           where \in Places \ {"claimed", "requested", "reset", "activated"}
    /\ {"requested", "activated"} \subseteq Places
BY DEF Places

LEMMA CallersAre ==
    ASSUME TokenInv
    PROVE  /\ caller \in [Callers -> Caller] /\ RowTyped /\ files \in SecretFiles
           /\ issued \in Tokens /\ sent \in [Tokens -> Nat] /\ used \in Counters
BY TypeParts DEF TokenInv

LEMMA SimpleCallerStepKeeps ==
    ASSUME TokenInv, NEW c \in Callers,
           BeginRequest(c) \/ PrepareWaits(c) \/ Unavailable(c) \/ Call(c)
    PROVE  TokenKept
<1>1. /\ UNCHANGED userVars /\ UNCHANGED auth /\ UNCHANGED files /\ UNCHANGED issued
      /\ UNCHANGED sent /\ UNCHANGED used
  BY DEF BeginRequest, PrepareWaits, Unavailable, Call
<1>2. caller \in [Callers -> Caller] /\ caller[c] \in Caller
  BY CallersAre
<1>3. Settles(c)
  <2>1. CASE Goes(c, "prepare") \/ Raises(c)
    BY <1>2, <2>1, AtPlaces, GoesSettles, RaisesSettles
  <2>2. CASE caller[c].at = "prepare" /\ caller' = [caller EXCEPT ![c].force = FALSE]
    <3> DEFINE x == [caller[c] EXCEPT !.force = FALSE]
    <3>1. x \in Caller /\ x.at = "prepare" /\ caller' = [caller EXCEPT ![c] = x]
      BY <1>2, <2>2 DEF Caller
    <3> HIDE DEF x
    <3> QED
      BY <1>2, <3>1, CallerMoves DEF Settles
  <2>3. CASE caller' = [caller EXCEPT ![c] = [Idle EXCEPT !.at = "prepare", !.force = TRUE,
                                                          !.retried = TRUE]]
    <3> DEFINE x == [Idle EXCEPT !.at = "prepare", !.force = TRUE, !.retried = TRUE]
    <3>1. x \in Caller /\ x.at = "prepare"
      BY IdleIsCaller DEF Caller
    <3>2. caller' = [caller EXCEPT ![c] = x]
      BY <2>3
    <3> HIDE DEF x
    <3> QED
      BY <1>2, <3>1, <3>2, CallerMoves DEF Settles
  <2> QED
    BY <2>1, <2>2, <2>3 DEF BeginRequest, PrepareWaits, Unavailable, Call
<1>4. UsedGrows
  BY <1>1, CallersAre, CountGrows
<1> QED
  BY <1>1, <1>3, <1>4, OnlyCaller

\* Clearing a pending rotation.
LEMMA ClearedIs ==
    ASSUME RowTyped, NEW s \in Statuses,
           NEW p \in {auth.phase, "IDLE", "REQUEST_STARTED", "ACTIVATED"}
    PROVE  /\ Cleared(s, p) \in Authorization /\ Cleared(s, p).status = s
           /\ Cleared(s, p).version = auth.version /\ Cleared(s, p).pending = 0
           /\ Cleared(s, p).owner = "nobody" /\ Cleared(s, p).lease = "none"
BY Bounds DEF RowTyped, Cleared, Authorization

LEMMA PrepareGivesUpKeeps ==
    ASSUME TokenInv, NEW c \in Callers, PrepareGivesUp(c)
    PROVE  TokenKept
<1> DEFINE p == IF auth.phase = "IDLE" THEN "REQUEST_STARTED" ELSE auth.phase
<1>1. /\ auth.pending # 0 /\ Raises(c)
      /\ UNCHANGED userVars /\ UNCHANGED files /\ UNCHANGED issued /\ UNCHANGED sent
      /\ UNCHANGED used
  BY DEF PrepareGivesUp
<1>2. auth' = Cleared("REAUTH_REQUIRED", p)
  BY DEF PrepareGivesUp, Uncertain
<1>3. p \in {auth.phase, "IDLE", "REQUEST_STARTED", "ACTIVATED"}
  OBVIOUS
<1> HIDE DEF p
<1>4. /\ auth' \in Authorization /\ auth'.status = "REAUTH_REQUIRED"
      /\ auth'.version = auth.version /\ auth'.pending = 0 /\ auth'.owner = "nobody"
      /\ auth'.lease = "none"
  BY <1>2, <1>3, CallersAre, ClearedIs DEF Statuses
<1>5. RowTyped' /\ files' \in SecretFiles
  BY <1>1, <1>4, CallersAre DEF RowTyped
<1>6. Settles(c) /\ UsedGrows
  BY <1>1, CallersAre, RaisesSettles, CountGrows
<1>7. ASSUME TokenTypeOK, Numbered PROVE RowKept /\ FilesKept
  <2>1. auth.status # "ABSENT"
    BY <1>1, <1>7 DEF Numbered, RowIsInOrder
  <2> QED
    BY <1>1, <1>4, <1>6, <1>7, <2>1, RowDead, FilesSame
<1> QED
  BY <1>1, <1>5, <1>6, <1>7, WithinVersion

LEMMA TypesKept ==
    ASSUME TokenInv, UNCHANGED userVars, RowTyped', files' \in SecretFiles, issued' \in Tokens,
           sent' \in [Tokens -> Nat], caller' \in [Callers -> Caller], UsedGrows
    PROVE  TokenTypeOK' /\ CodeInv'
<1>1. TokenTypeOK'
  BY TypeParts DEF TokenInv, TokenTypeOK, UserTyped, RowTyped, userVars, UsedGrows, Counters
<1> QED
  BY <1>1, UserVarsSame DEF TokenInv

LEMMA PrepareResetsKeeps ==
    ASSUME TokenInv, NEW c \in Callers, PrepareResets(c)
    PROVE  TokenKept
<1> DEFINE x == [caller[c] EXCEPT !.at = "reset", !.gen = auth.version, !.fence = auth.fence,
                                  !.life = auth.life]
<1>1. /\ auth' = Cleared("CONNECTED", "IDLE") /\ Count("takeovers")
      /\ UNCHANGED userVars /\ UNCHANGED files /\ UNCHANGED issued /\ UNCHANGED sent
  BY DEF PrepareResets
<1>2. caller[c] \in Caller /\ RowTyped /\ files \in SecretFiles /\ used \in Counters
  BY CallersAre
<1>3. RowTyped'
  BY <1>1, <1>2, ClearedIs DEF Statuses, RowTyped
<1>4. auth.version \in Tokens /\ auth.fence \in Nat /\ auth.life \in {"fresh", "stale", "expired"}
  BY <1>2 DEF RowTyped, Authorization
<1>5. x \in Caller
  BY <1>2, <1>4 DEF Caller
<1>6. caller' = [caller EXCEPT ![c] = x]
  BY <1>2, CallersAre DEF PrepareResets
<1>7. caller' \in [Callers -> Caller]
  <2> HIDE DEF x
  <2> QED
    BY <1>5, <1>6, CallersAre
<1>8. UsedGrows /\ Taken'
  BY <1>1, <1>2, CountGrows
<1> QED
  BY <1>1, <1>3, <1>7, <1>8, CallersAre, TypesKept DEF TokenKept

-----------------------------------------------------------------------------
\* A claim on the version after v, for caller c.
LEMMA ClaimIs ==
    ASSUME TokenInv, NEW c \in Callers, NEW v \in Tokens, v < MaxTokens, NEW f \in Nat,
           caller' = Claimant(c, v, f)
    PROVE  /\ caller' \in [Callers -> Caller]
           /\ caller'[c].at = "claimed" /\ caller'[c].gen = v + 1
           /\ caller'[c].token = files.refresh[v]
           /\ \A d \in Callers \ {c} : caller'[d] = caller[d]
           /\ Claim(c, v, f) \in Authorization /\ Claim(c, v, f).pending = v + 1
           /\ Claim(c, v, f).owner = c /\ Claim(c, v, f).lease = "live"
           /\ Claim(c, v, f).version = auth.version /\ Claim(c, v, f).status = "REFRESHING"
<1> DEFINE t == files.refresh[v]
           x == [caller[c] EXCEPT !.at = "claimed", !.gen = v + 1, !.fence = f + 1, !.token = t]
<1>1. caller[c] \in Caller /\ RowTyped /\ files \in SecretFiles
  BY CallersAre
<1>2. v + 1 \in Tokens /\ f + 1 \in Nat
  BY Bounds
<1>3. t \in Tokens
  BY <1>1 DEF SecretFiles
<1>4. caller' = [caller EXCEPT ![c] = x]
  BY <1>1, CallersAre DEF Claimant
<1> HIDE DEF t
<1>5. x \in Caller /\ x.at = "claimed" /\ x.gen = v + 1 /\ x.token = t
  BY <1>1, <1>2, <1>3 DEF Caller
<1> HIDE DEF x
<1>6. /\ caller' \in [Callers -> Caller] /\ caller'[c] = x
      /\ \A d \in Callers \ {c} : caller'[d] = caller[d]
  BY <1>4, <1>5, CallersAre, CallerMoves
<1>7. /\ Claim(c, v, f) \in Authorization /\ Claim(c, v, f).pending = v + 1
      /\ Claim(c, v, f).owner = c /\ Claim(c, v, f).lease = "live"
      /\ Claim(c, v, f).version = auth.version /\ Claim(c, v, f).status = "REFRESHING"
  BY <1>1, <1>2 DEF Claim, RowTyped, Authorization, Statuses
<1> QED
  BY <1>5, <1>6, <1>7 DEF t

\* A claim is made when there is none: nobody sends, and the token was not sent.
LEMMA ClaimMade ==
    ASSUME TokenTypeOK, Numbered, auth.status = "CONNECTED", NEW c \in Callers,
           auth'.version = auth.version, auth'.pending = auth.version + 1,
           auth'.status = "REFRESHING", FilesKept, UNCHANGED issued, UNCHANGED sent,
           caller'[c].at = "claimed", caller'[c].gen = auth.version + 1,
           caller'[c].token = files.refresh[auth.version], files.refresh[auth.version] # 0,
           \A d \in Callers \ {c} : caller'[d] = caller[d]
    PROVE  Numbered'
<1>1. auth.version \in Tokens /\ auth.version \in Nat
  BY TypeParts, RowIs, Bounds DEF RowTyped
<1>2. auth.pending = 0 /\ ~Claimed /\ auth.version # 0
  BY DEF Numbered, RowIsInOrder, Claimed, Dead
<1>3. (\A d \in Callers : ~Sending(d)) /\ sent[auth.version] = 0
  BY <1>2 DEF Numbered, SenderHasTheClaim, SentIsClaimed
<1>4. files.refresh[auth.version] = auth.version
  BY <1>1 DEF Numbered, FilesAreNumbered, Kinds
<1>5. OnlyTakeoversReset' /\ RowIsInOrder' /\ CleansTheOld'
  BY <1>1, <1>2 DEF Numbered, OnlyTakeoversReset, RowIsInOrder, CleansTheOld
<1>6. SenderHasTheClaim'
  <2>1. \A d \in Callers : caller'[d].at \in {"claimed", "requested"} => d = c
    BY <1>3 DEF Sending
  <2>2. auth'.pending # 0
    BY <1>1
  <2> QED
    BY <1>4, <2>1, <2>2 DEF SenderHasTheClaim, Sending, Claimed
<1>7. SentIsClaimed' /\ IssuedIsNext' /\ SentOnce'
  BY <1>3 DEF Numbered, SentIsClaimed, IssuedIsNext, SentOnce
<1>8. FilesAreNumbered' /\ FilesOfTheVersion'
  BY Bounds DEF Numbered, FilesAreNumbered, FilesKept
<1> QED
  BY <1>5, <1>6, <1>7, <1>8 DEF Numbered

\* Removing what earlier versions left.
LEMMA OrphansGo ==
    ASSUME TokenTypeOK, Numbered, UsedGrows, auth'.version = auth.version,
           files' = WithoutOrphans(files, auth.version, 0)
    PROVE  FilesKept
<1>1. files \in SecretFiles /\ auth.version \in Tokens /\ auth.version \in Nat
  BY TypeParts, RowIs, Bounds DEF RowTyped
<1>2. /\ \A k \in Kinds, n \in Tokens : files'[k][n] \in {0, files[k][n]}
      /\ \A k \in {"access", "refresh"}, n \in Tokens : n >= auth.version => files'[k][n] = files[k][n]
  BY <1>1, OrphansRemoved
<1>3. \A k \in Kinds, n \in Tokens : files'[k][n] \in {0, n}
  BY <1>2 DEF Numbered, FilesAreNumbered
<1>4. \A n \in Tokens : files'.bundle[n] # 0 => files.bundle[n] # 0
  BY <1>2 DEF Kinds
<1>5. FilesOfTheVersion'
  <2>1. /\ files'.access[auth.version] = files.access[auth.version]
        /\ files'.refresh[auth.version] = files.refresh[auth.version]
    <3>1. auth.version >= auth.version
      BY <1>1
    <3> QED
      BY <1>1, <1>2, <3>1
  <2> QED
    BY <2>1 DEF Numbered, FilesOfTheVersion, UsedGrows
<1> QED
  BY <1>3, <1>4, <1>5 DEF FilesKept

\* A row that is read, and is not claimed.
LEMMA ReadKeeps ==
    ASSUME TokenInv, NEW c \in Callers, UNCHANGED userVars, UNCHANGED issued, UNCHANGED sent,
           UNCHANGED used, Settles(c), NEW v \in Tokens,
           files' = WithoutOrphans(files, v, 0), Taken \/ v = auth.version,
           \/ UNCHANGED auth
           \/ /\ auth' = [auth EXCEPT !.status = "EXPIRED"]
              /\ Taken \/ auth.status = "CONNECTED"
    PROVE  TokenKept
<1>1. RowTyped /\ files \in SecretFiles /\ UsedGrows
  BY CallersAre, CountGrows
<1>2. /\ auth' \in Authorization /\ auth'.version = auth.version /\ auth'.pending = auth.pending
      /\ auth'.owner = auth.owner /\ auth'.lease = auth.lease
      /\ auth'.status = auth.status \/ auth'.status = "EXPIRED"
  BY <1>1 DEF RowTyped, Authorization, Statuses
<1>3. RowTyped' /\ files' \in SecretFiles
  BY <1>1, <1>2, OrphansRemoved DEF RowTyped
<1>4. CASE Taken
  <2>1. TokenTypeOK' /\ CodeInv'
    BY <1>1, <1>3, CallersAre, TypesKept DEF Settles
  <2> QED
    BY <1>1, <1>4, <2>1 DEF TokenKept, UsedGrows
<1>5. CASE ~Taken
  <2>1. ASSUME TokenTypeOK, Numbered PROVE RowKept /\ FilesKept
    <3>1. FilesKept
      BY <1>1, <1>2, <1>5, <2>1, OrphansGo
    <3>2. CASE auth'.status = auth.status
      BY <1>2, <2>1, <3>1, <3>2, RowSame
    <3>3. CASE auth'.status = "EXPIRED" /\ auth.status = "CONNECTED"
      <4>1. auth'.pending = 0
        BY <1>2, <2>1, <3>3 DEF Numbered, RowIsInOrder
      <4> QED
        BY <1>2, <2>1, <3>1, <3>3, <4>1, RowDead
    <3> QED
      BY <1>2, <1>5, <3>2, <3>3
  <2> QED
    BY <1>1, <1>3, <2>1, WithinVersion
<1> QED
  BY <1>4, <1>5

\* A row that is read, and claimed.
LEMMA ReadClaimKeeps ==
    ASSUME TokenInv, NEW c \in Callers, UNCHANGED userVars, UNCHANGED issued, UNCHANGED sent,
           UNCHANGED used, NEW v \in Tokens, v < MaxTokens, NEW f \in Nat,
           files' = WithoutOrphans(files, v, 0), files.refresh[v] # 0,
           caller' = Claimant(c, v, f),
           auth' = Claim(c, v, f) \/ auth' = [Claim(c, v, f) EXCEPT !.started = FALSE],
           Taken \/ (v = auth.version /\ auth.status = "CONNECTED")
    PROVE  TokenKept
<1> DEFINE row == Claim(c, v, f)
<1>1. RowTyped /\ files \in SecretFiles /\ UsedGrows
  BY CallersAre, CountGrows
<1>2. auth' = row \/ auth' = [row EXCEPT !.started = FALSE]
  OBVIOUS
<1>3. /\ caller' \in [Callers -> Caller]
      /\ caller'[c].at = "claimed" /\ caller'[c].gen = v + 1
      /\ caller'[c].token = files.refresh[v]
      /\ \A d \in Callers \ {c} : caller'[d] = caller[d]
      /\ row \in Authorization /\ row.pending = v + 1 /\ row.owner = c /\ row.lease = "live"
      /\ row.version = auth.version /\ row.status = "REFRESHING"
  BY ClaimIs
<1> HIDE DEF row
<1>4. /\ auth' \in Authorization /\ auth'.pending = v + 1 /\ auth'.owner = c
      /\ auth'.lease = "live" /\ auth'.version = auth.version /\ auth'.status = "REFRESHING"
  <2> DEFINE new == [row EXCEPT !.started = FALSE]
  <2>1. /\ new \in Authorization /\ new.pending = row.pending /\ new.owner = row.owner
        /\ new.lease = row.lease /\ new.version = row.version /\ new.status = row.status
    BY <1>3 DEF Authorization
  <2>2. auth' = row \/ auth' = new
    BY <1>2
  <2> HIDE DEF new
  <2> QED
    BY <1>3, <2>1, <2>2
<1>5. v + 1 # 0 /\ c # "nobody"
  BY TokenAssumption, Bounds
<1>6. RowTyped' /\ files' \in SecretFiles
  BY <1>1, <1>4, <1>5, OrphansRemoved DEF RowTyped
<1>7. TokenTypeOK' /\ CodeInv'
  BY <1>1, <1>3, <1>6, CallersAre, TypesKept
<1>8. CASE Taken
  BY <1>1, <1>7, <1>8 DEF TokenKept, UsedGrows
<1>9. CASE ~Taken
  <2>1. TokenTypeOK /\ Numbered /\ v = auth.version /\ auth.status = "CONNECTED"
    BY <1>9 DEF TokenInv
  <2>2. FilesKept
    BY <1>1, <1>4, <2>1, OrphansGo
  <2>3. Numbered'
    BY <1>3, <1>4, <2>1, <2>2, ClaimMade
  <2> QED
    BY <1>7, <2>3 DEF TokenKept
<1> QED
  BY <1>8, <1>9

LEMMA PrepareReadsKeeps ==
    ASSUME TokenInv, NEW c \in Callers, PrepareReads(c)
    PROVE  TokenKept
<1>1. /\ UNCHANGED userVars /\ UNCHANGED issued /\ UNCHANGED sent /\ UNCHANGED used
      /\ files' = WithoutOrphans(files, auth.version, 0)
  BY DEF PrepareReads
<1>2. caller \in [Callers -> Caller] /\ auth.version \in Tokens /\ auth.fence \in Nat
  BY CallersAre, RowIs DEF RowTyped
<1>3. CASE /\ Raises(c) \/ Hands(c)
           /\ UNCHANGED auth
  <2>1. Settles(c)
    BY <1>2, <1>3, RaisesSettles, HandsSettles
  <2> QED
    BY <1>1, <1>2, <1>3, <2>1, ReadKeeps
<1>4. CASE auth.status = "CONNECTED" /\ auth' = [auth EXCEPT !.status = "EXPIRED"] /\ Raises(c)
  BY <1>1, <1>2, <1>4, RaisesSettles, ReadKeeps
<1>5. CASE /\ auth.status = "CONNECTED" /\ auth.version < MaxTokens
           /\ files.refresh[auth.version] # 0
           /\ auth' = [Claim(c, auth.version, auth.fence) EXCEPT !.started = FALSE]
           /\ caller' = Claimant(c, auth.version, auth.fence)
  BY <1>1, <1>2, <1>5, ReadClaimKeeps
<1> QED
  BY <1>3, <1>4, <1>5 DEF PrepareReads

LEMMA ResetReadsKeeps ==
    ASSUME TokenInv, NEW c \in Callers, ResetReads(c)
    PROVE  TokenKept
<1> DEFINE v == caller[c].gen
<1>1. /\ UNCHANGED userVars /\ UNCHANGED issued /\ UNCHANGED sent /\ UNCHANGED used
      /\ files' = WithoutOrphans(files, v, 0) /\ caller[c].at = "reset"
  BY DEF ResetReads
<1>2. caller \in [Callers -> Caller] /\ v \in Tokens /\ caller[c].fence \in Nat
  BY CallersAre, CallerIs
<1>3. Taken
  BY <1>1 DEF TokenInv, Numbered, OnlyTakeoversReset
<1>4. CASE /\ Raises(c) \/ Hands(c)
           /\ UNCHANGED auth
  <2>1. Settles(c)
    BY <1>2, <1>4, RaisesSettles, HandsSettles
  <2> QED
    BY <1>1, <1>2, <1>3, <1>4, <2>1, ReadKeeps
<1>5. CASE auth' = [auth EXCEPT !.status = "EXPIRED"] /\ Raises(c)
  BY <1>1, <1>2, <1>3, <1>5, RaisesSettles, ReadKeeps
<1>6. CASE /\ v < MaxTokens /\ files.refresh[v] # 0
           /\ auth' = Claim(c, v, caller[c].fence)
           /\ caller' = Claimant(c, v, caller[c].fence)
  BY <1>1, <1>2, <1>3, <1>6, ReadClaimKeeps
<1> QED
  BY <1>4, <1>5, <1>6 DEF ResetReads

-----------------------------------------------------------------------------
\* The phase of the row and the place of the caller move.
LEMMA PhaseKeeps ==
    ASSUME TokenInv, NEW c \in Callers, UNCHANGED userVars, UNCHANGED files, UNCHANGED issued,
           UNCHANGED sent, UNCHANGED used, Settles(c),
           NEW p \in {"REQUEST_STARTED", "RESULT_DURABLE"},
           \/ UNCHANGED auth
           \/ auth' = [auth EXCEPT !.phase = p]
           \/ auth' = [auth EXCEPT !.phase = p, !.started = TRUE]
    PROVE  TokenKept
<1>1. RowTyped /\ files \in SecretFiles /\ UsedGrows
  BY CallersAre, CountGrows
<1>2. /\ auth' \in Authorization /\ auth'.version = auth.version /\ auth'.pending = auth.pending
      /\ auth'.owner = auth.owner /\ auth'.lease = auth.lease /\ auth'.status = auth.status
  BY <1>1 DEF RowTyped, Authorization
<1>3. RowTyped' /\ files' \in SecretFiles
  BY <1>1, <1>2 DEF RowTyped
<1>4. TokenTypeOK /\ Numbered => RowKept /\ FilesKept
  BY <1>1, <1>2, RowSame, FilesSame
<1> QED
  BY <1>1, <1>3, <1>4, WithinVersion

LEMMA MarkRequestStartedKeeps ==
    ASSUME TokenInv, NEW c \in Callers, MarkRequestStarted(c)
    PROVE  TokenKept
<1>1. /\ UNCHANGED userVars /\ UNCHANGED files /\ UNCHANGED issued /\ UNCHANGED sent
      /\ UNCHANGED used
      /\ caller[c].at = "claimed"
      /\ \/ auth' = [auth EXCEPT !.phase = "REQUEST_STARTED", !.started = TRUE] /\ Goes(c, "requested")
         \/ Raises(c) /\ UNCHANGED auth
  BY DEF MarkRequestStarted
<1>2. caller \in [Callers -> Caller]
  BY CallersAre
<1>3. Settles(c)
  BY <1>1, <1>2, AtPlaces, GoesIs, RaisesSettles DEF Settles, Sending
<1> QED
  BY <1>1, <1>3, PhaseKeeps

LEMMA MarkResultDurableKeeps ==
    ASSUME TokenInv, NEW c \in Callers, MarkResultDurable(c)
    PROVE  TokenKept
<1>1. /\ UNCHANGED userVars /\ UNCHANGED files /\ UNCHANGED issued /\ UNCHANGED sent
      /\ UNCHANGED used
      /\ \/ auth' = [auth EXCEPT !.phase = "RESULT_DURABLE"] /\ Goes(c, "durable")
         \/ Excepts(c) /\ UNCHANGED auth
  BY DEF MarkResultDurable
<1>2. caller \in [Callers -> Caller]
  BY CallersAre
<1>3. Settles(c)
  BY <1>1, <1>2, AtPlaces, GoesSettles, ExceptsSettles
<1> QED
  BY <1>1, <1>3, PhaseKeeps

LEMMA RecordFailureKeeps ==
    ASSUME TokenInv, NEW c \in Callers, RecordFailure(c)
    PROVE  TokenKept
<1>1. /\ UNCHANGED userVars /\ UNCHANGED files /\ UNCHANGED issued /\ UNCHANGED sent
      /\ UNCHANGED used /\ Raises(c)
      /\ \/ UNCHANGED auth
         \/ auth.owner = c /\ auth' = Cleared("REAUTH_REQUIRED", auth.phase)
  BY DEF RecordFailure, Failed
<1>2. caller \in [Callers -> Caller] /\ RowTyped /\ files \in SecretFiles
  BY CallersAre
<1>3. Settles(c) /\ UsedGrows
  BY <1>1, <1>2, CallersAre, CountGrows, RaisesSettles
<1>4. CASE UNCHANGED auth
  BY <1>1, <1>3, <1>4, OnlyCaller
<1>5. CASE auth.owner = c /\ auth' = Cleared("REAUTH_REQUIRED", auth.phase)
  <2>1. auth.pending # 0
    BY <1>2, <1>5, TokenAssumption DEF RowTyped
  <2>2. /\ auth' \in Authorization /\ auth'.status = "REAUTH_REQUIRED"
        /\ auth'.version = auth.version /\ auth'.pending = 0 /\ auth'.owner = "nobody"
        /\ auth'.lease = "none"
    BY <1>2, <1>5, ClearedIs DEF Statuses
  <2>3. RowTyped' /\ files' \in SecretFiles
    BY <1>1, <1>2, <2>2 DEF RowTyped
  <2>4. ASSUME TokenTypeOK, Numbered PROVE RowKept /\ FilesKept
    <3>1. auth.status # "ABSENT"
      BY <2>1, <2>4 DEF Numbered, RowIsInOrder
    <3> QED
      BY <1>1, <1>3, <2>2, <2>4, <3>1, RowDead, FilesSame
  <2> QED
    BY <1>1, <1>3, <2>3, <2>4, WithinVersion
<1> QED
  BY <1>1, <1>4, <1>5

LEMMA CleanUpKeeps ==
    ASSUME TokenInv, NEW c \in Callers, CleanUp(c)
    PROVE  TokenKept
<1> DEFINE v == caller[c].gen
           f == [files EXCEPT !.bundle[v] = 0]
           g == WithPair(f, v - 1, 0)
<1>1. /\ UNCHANGED userVars /\ UNCHANGED auth /\ UNCHANGED issued /\ UNCHANGED sent
      /\ UNCHANGED used /\ Hands(c) /\ caller[c].at = "activated"
      /\ files' = WithoutOrphans(g, v, 0)
  BY DEF CleanUp
<1>2. /\ caller \in [Callers -> Caller] /\ RowTyped /\ files \in SecretFiles
      /\ v \in Tokens /\ v \in Nat /\ 0 \in Tokens
  BY CallersAre, CallerIs, Bounds
<1> HIDE DEF v
<1>3. Settles(c) /\ UsedGrows
  BY <1>1, <1>2, CallersAre, CountGrows, HandsSettles
<1>4. /\ f \in SecretFiles
      /\ \A n \in Tokens : /\ f.access[n] = files.access[n] /\ f.refresh[n] = files.refresh[n]
                           /\ f.bundle[n] \in {0, files.bundle[n]}
  BY <1>2 DEF SecretFiles
<1> HIDE DEF f
<1>5. /\ g \in SecretFiles
      /\ \A n \in Tokens : /\ g.access[n] \in {0, files.access[n]}
                           /\ g.refresh[n] \in {0, files.refresh[n]}
                           /\ g.bundle[n] \in {0, files.bundle[n]}
                           /\ n # v - 1 => /\ g.access[n] = files.access[n]
                                           /\ g.refresh[n] = files.refresh[n]
  BY <1>2, <1>4, PairWritten
<1> HIDE DEF g
<1>6. /\ files' \in SecretFiles
      /\ \A k \in Kinds, n \in Tokens : files'[k][n] \in {0, g[k][n]}
      /\ \A k \in {"access", "refresh"}, n \in Tokens : n >= v => files'[k][n] = g[k][n]
  <2>1. g \in SecretFiles /\ v \in Tokens
    BY <1>2, <1>5
  <2>2. /\ WithoutOrphans(g, v, 0) \in SecretFiles
        /\ \A k \in Kinds, n \in Tokens : WithoutOrphans(g, v, 0)[k][n] \in {0, g[k][n]}
        /\ \A k \in {"access", "refresh"}, n \in Tokens :
               n >= v => WithoutOrphans(g, v, 0)[k][n] = g[k][n]
    BY <2>1, OrphansRemoved
  <2> QED
    BY <1>1, <2>2
<1>7. RowTyped'
  BY <1>1, <1>2 DEF RowTyped
<1>8. ASSUME TokenTypeOK, Numbered PROVE RowKept /\ FilesKept
  <2>1. RowKept
    BY <1>1, <1>8, RowSame
  <2>2. auth.version \in Tokens /\ auth.version \in Nat /\ v <= auth.version
    BY <1>1, <1>2, <1>8, RowIs, Bounds DEF RowTyped, Numbered, CleansTheOld, v
  <2>3. auth.version >= v /\ auth.version # v - 1
    BY <1>2, <2>2
  <2>4. /\ files'.access[auth.version] = files.access[auth.version]
        /\ files'.refresh[auth.version] = files.refresh[auth.version]
    BY <1>5, <1>6, <2>2, <2>3
  <2>5. FilesOfTheVersion'
    BY <1>1, <1>3, <1>8, <2>4 DEF Numbered, FilesOfTheVersion, UsedGrows
  <2>6. \A n \in Tokens : /\ files'.access[n] \in {0, n} /\ files'.refresh[n] \in {0, n}
                          /\ files'.bundle[n] \in {0, files.bundle[n]}
                          /\ files.bundle[n] \in {0, n}
    <3>1. \A n \in Tokens : /\ files'.access[n] \in {0, g.access[n]}
                            /\ files'.refresh[n] \in {0, g.refresh[n]}
                            /\ files'.bundle[n] \in {0, g.bundle[n]}
      BY <1>6 DEF Kinds
    <3>2. \A n \in Tokens : /\ files.access[n] \in {0, n} /\ files.refresh[n] \in {0, n}
                            /\ files.bundle[n] \in {0, n}
      BY <1>8 DEF Numbered, FilesAreNumbered, Kinds
    <3> QED
      BY <1>5, <3>1, <3>2
  <2> QED
    BY <2>1, <2>5, <2>6 DEF FilesKept, Kinds
<1> QED
  BY <1>1, <1>3, <1>6, <1>7, <1>8, WithinVersion

LEMMA CrashKeeps ==
    ASSUME TokenInv, NEW c \in Callers, Crash(c)
    PROVE  TokenKept
<1> DEFINE v == auth.pending
<1>1. /\ UNCHANGED userVars /\ UNCHANGED auth /\ UNCHANGED issued /\ UNCHANGED sent
      /\ Fault /\ Raises(c)
      /\ \/ UNCHANGED files
         \/ v # 0 /\ files' = WithPair(files, v, files.bundle[v])
  BY DEF Crash, BundleExists
<1>2. /\ caller \in [Callers -> Caller] /\ RowTyped /\ files \in SecretFiles
      /\ used \in Counters /\ v \in Tokens
  BY CallersAre, RowIs DEF RowTyped
<1>3. files.bundle[v] \in Tokens
  BY <1>2 DEF SecretFiles
<1>4. Settles(c) /\ UsedGrows
  BY <1>1, <1>2, CountGrows, RaisesSettles
<1>5. CASE UNCHANGED files
  BY <1>1, <1>4, <1>5, OnlyCaller
<1>6. CASE v # 0 /\ files' = WithPair(files, v, files.bundle[v])
  <2>1. /\ files' \in SecretFiles
        /\ \A n \in Tokens :
               /\ files'.access[n] = IF n = v THEN files.bundle[v] ELSE files.access[n]
               /\ files'.refresh[n] = IF n = v THEN files.bundle[v] ELSE files.refresh[n]
               /\ files'.bundle[n] = files.bundle[n]
    BY <1>2, <1>3, <1>6, PairWritten
  <2>2. RowTyped'
    BY <1>1, <1>2 DEF RowTyped
  <2>3. ASSUME TokenTypeOK, Numbered PROVE RowKept /\ FilesKept
    <3>1. RowKept
      BY <1>1, <2>3, RowSame
    <3>2. v = auth.version + 1 /\ auth.version \in Tokens /\ auth.version \in Nat
      BY <1>2, <1>6, <2>3, RowIs, Bounds DEF Numbered, RowIsInOrder, RowTyped
    <3>3. FilesOfTheVersion'
      <4>1. auth.version # v
        BY <3>2
      <4> QED
        BY <1>1, <1>4, <2>1, <2>3, <3>2, <4>1 DEF Numbered, FilesOfTheVersion, UsedGrows
    <3>4. \A n \in Tokens : /\ files.access[n] \in {0, n} /\ files.refresh[n] \in {0, n}
                            /\ files.bundle[n] \in {0, n}
      BY <2>3 DEF Numbered, FilesAreNumbered, Kinds
    <3>5. \A n \in Tokens : /\ files'.access[n] \in {0, n} /\ files'.refresh[n] \in {0, n}
                            /\ files'.bundle[n] = files.bundle[n]
      BY <1>2, <2>1, <3>4
    <3> QED
      BY <3>1, <3>3, <3>4, <3>5 DEF FilesKept, Kinds
  <2> QED
    BY <1>1, <1>4, <2>1, <2>2, <2>3, WithinVersion
<1> QED
  BY <1>1, <1>5, <1>6

-----------------------------------------------------------------------------
\* What is known when there is a bundle for the next version: its pair was issued
\* for the token of this version, and nobody has that token in hand any more.
LEMMA BundleIsTheNewest ==
    ASSUME TokenTypeOK, Numbered, NEW v \in Tokens, v = auth.version + 1, files.bundle[v] # 0
    PROVE  /\ files.bundle[v] = v /\ issued = v
           /\ \A c \in Callers : ~Sending(c)
           /\ \A t \in Tokens : sent[t] # 0 => t <= auth.version
<1>1. auth.version \in Nat /\ v \in 1..MaxTokens /\ v - 1 = auth.version
  <2>1. auth.version \in Nat
    BY TypeParts, RowIs, Bounds DEF RowTyped
  <2>2. v \in Nat /\ v <= MaxTokens
    BY TokenAssumption DEF Tokens
  <2> QED
    BY <2>1, <2>2, Bounds
<1>2. files.bundle[v] = v
  BY DEF Numbered, FilesAreNumbered, Kinds
<1>3. sent[auth.version] # 0 /\ v <= issued
  BY <1>1 DEF Numbered, FilesAreNumbered
<1>4. issued = v
  BY <1>1, <1>3 DEF Numbered, IssuedIsNext
<1> QED
  BY <1>2, <1>3, <1>4 DEF Numbered, SentIsClaimed

LEMMA ActivationKeeps ==
    ASSUME TokenInv, NEW c \in Callers, Activation(c), UNCHANGED userVars, UNCHANGED issued,
           UNCHANGED sent, UNCHANGED used
    PROVE  TokenKept
<1> DEFINE v == auth.pending
           x == [caller[c] EXCEPT !.at = "activated", !.gen = v]
<1>1. /\ v = auth.version + 1 /\ files.bundle[v] # 0
      /\ files' = WithPair(files, v, files.bundle[v])
  BY DEF Activation
<1>2. /\ caller \in [Callers -> Caller] /\ RowTyped /\ files \in SecretFiles
      /\ v \in Tokens /\ v \in Nat /\ auth.version \in Tokens /\ auth.version \in Nat
  BY CallersAre, RowIs, Bounds DEF RowTyped
<1>3. PICK status \in {"CONNECTED", "PERMISSION_MISSING"} :
          auth' = [Cleared(status, "ACTIVATED") EXCEPT !.version = v, !.life = "fresh"]
  BY DEF Activation
<1>4. caller' = [caller EXCEPT ![c] = x]
  BY <1>2 DEF Activation
<1>5. caller[c] \in Caller
  BY <1>2
<1>6. x \in Caller /\ x.at = "activated" /\ x.gen = v
  BY <1>2, <1>5 DEF Caller
<1> HIDE DEF x
<1>7. /\ caller' \in [Callers -> Caller] /\ caller'[c] = x
      /\ \A d \in Callers \ {c} : caller'[d] = caller[d]
  BY <1>2, <1>4, <1>6, CallerMoves
<1> DEFINE row == Cleared(status, "ACTIVATED")
<1>8. /\ row \in Authorization /\ row.status = status /\ row.pending = 0
      /\ row.owner = "nobody" /\ row.lease = "none"
  BY <1>2, ClearedIs DEF Statuses
<1>9. auth' = [row EXCEPT !.version = v, !.life = "fresh"]
  BY <1>3
<1> HIDE DEF row
<1>10. /\ auth' \in Authorization /\ auth'.status = status /\ auth'.version = v
       /\ auth'.pending = 0 /\ auth'.owner = "nobody" /\ auth'.lease = "none"
  BY <1>2, <1>8, <1>9 DEF Authorization
<1>11. files.bundle[v] \in Tokens
  BY <1>2 DEF SecretFiles
<1>12. /\ files' \in SecretFiles
       /\ \A n \in Tokens :
              /\ files'.access[n] = IF n = v THEN files.bundle[v] ELSE files.access[n]
              /\ files'.refresh[n] = IF n = v THEN files.bundle[v] ELSE files.refresh[n]
              /\ files'.bundle[n] = files.bundle[n]
  BY <1>1, <1>2, <1>11, PairWritten
<1>13. RowTyped'
  BY <1>10 DEF RowTyped
<1>14. UsedGrows
  BY CallersAre, CountGrows
<1>15. TokenTypeOK' /\ CodeInv'
  BY <1>7, <1>12, <1>13, <1>14, CallersAre, TypesKept
<1>16. CASE Taken
  BY <1>14, <1>15, <1>16 DEF TokenKept, UsedGrows
<1>17. CASE ~Taken
  <2>1. TokenTypeOK /\ Numbered
    BY <1>17 DEF TokenInv
  <2>2. /\ files.bundle[v] = v /\ issued = v
        /\ \A d \in Callers : ~Sending(d)
        /\ \A t \in Tokens : sent[t] # 0 => t <= auth.version
    BY <1>1, <1>2, <2>1, BundleIsTheNewest
  <2> HIDE DEF v
  <2>3. RowIsInOrder'
    BY <1>1, <1>2, <1>10 DEF RowIsInOrder
  <2>4. \A d \in Callers : caller'[d].at \notin {"claimed", "requested"}
    BY <1>6, <1>7, <2>2 DEF Sending
  <2>5. SenderHasTheClaim'
    BY <2>4 DEF SenderHasTheClaim, Sending
  <2>6. SentIsClaimed'
    BY <1>1, <1>2, <1>10, <2>2, <2>4, Bounds DEF SentIsClaimed
  <2>7. OnlyTakeoversReset'
    BY <1>6, <1>7, <2>1 DEF Numbered, OnlyTakeoversReset
  <2>8. CleansTheOld'
    <3>1. \A d \in Callers : caller[d].gen \in Nat
      BY <1>2, CallerIs, Bounds
    <3> QED
      BY <1>1, <1>2, <1>6, <1>7, <1>10, <2>1, <3>1 DEF Numbered, CleansTheOld
  <2>9. FilesAreNumbered'
    <3>1. \A n \in Tokens : /\ files.access[n] \in {0, n} /\ files.refresh[n] \in {0, n}
                            /\ files.bundle[n] \in {0, n}
      BY <2>1 DEF Numbered, FilesAreNumbered, Kinds
    <3>2. \A n \in Tokens : /\ files'.access[n] \in {0, n} /\ files'.refresh[n] \in {0, n}
                            /\ files'.bundle[n] \in {0, n}
      BY <1>12, <2>2, <3>1
    <3>3. \A n \in 1..MaxTokens : files'.bundle[n] # 0 => sent[n - 1] # 0 /\ n <= issued
      BY <1>12, <2>1, Bounds DEF Numbered, FilesAreNumbered
    <3> QED
      BY <3>2, <3>3 DEF FilesAreNumbered, Kinds
  <2>10. FilesOfTheVersion' /\ IssuedIsNext' /\ SentOnce'
    BY <1>2, <1>10, <1>12, <2>1, <2>2 DEF Numbered, FilesOfTheVersion, IssuedIsNext, SentOnce
  <2> QED
    BY <1>15, <2>3, <2>5, <2>6, <2>7, <2>8, <2>9, <2>10 DEF TokenKept, Numbered
<1> QED
  BY <1>16, <1>17

LEMMA PrepareActivatesKeeps ==
    ASSUME TokenInv, NEW c \in Callers, PrepareActivates(c)
    PROVE  TokenKept
BY ActivationKeeps DEF PrepareActivates

LEMMA ActivatePendingKeeps ==
    ASSUME TokenInv, NEW c \in Callers, ActivatePending(c)
    PROVE  TokenKept
<1>1. UNCHANGED userVars /\ UNCHANGED issued /\ UNCHANGED sent /\ UNCHANGED used
  BY DEF ActivatePending
<1>2. CASE Activation(c)
  BY <1>1, <1>2, ActivationKeeps
<1>3. CASE /\ Hands(c) \/ Excepts(c)
           /\ UNCHANGED auth /\ UNCHANGED files
  <2>1. Settles(c) /\ UsedGrows
    BY <1>1, <1>3, CallersAre, CountGrows, HandsSettles, ExceptsSettles
  <2> QED
    BY <1>1, <1>3, <2>1, OnlyCaller
<1> QED
  BY <1>2, <1>3 DEF ActivatePending

\* After the exchange its caller has no claim to send a token.
LEMMA ExceptsEnds ==
    ASSUME caller \in [Callers -> Caller], NEW c \in Callers, Goes(c, "received") \/ Excepts(c)
    PROVE  /\ caller' \in [Callers -> Caller]
           /\ caller'[c].at \in {"received", "failed", "idle"}
           /\ \A d \in Callers \ {c} : caller'[d] = caller[d]
BY GoesIs, CallerMoves, IdleIsCaller DEF Excepts, Raises, Places

LEMMA RefreshKeeps ==
    ASSUME TokenInv, NEW c \in Callers, Refresh(c)
    PROVE  TokenKept
<1> DEFINE t == caller[c].token
           v == caller[c].gen
<1>1. /\ UNCHANGED userVars /\ UNCHANGED auth /\ Sending(c)
      /\ Goes(c, "received") \/ Excepts(c)
      /\ UNCHANGED used \/ Fault
      /\ \/ issued' = issued
         \/ issued' = issued + 1 /\ t = issued /\ issued < MaxTokens
      /\ \/ files' = files
         \/ files' = [files EXCEPT !.bundle[v] = issued + 1] /\ issued' = issued + 1
  BY DEF Refresh, Accepted, Sending
<1>2. sent' = [sent EXCEPT ![t] = sent[t] + 1]
  BY CallersAre DEF Refresh
<1>3. /\ caller \in [Callers -> Caller] /\ RowTyped /\ files \in SecretFiles
      /\ t \in Tokens /\ v \in Tokens /\ issued \in Tokens /\ issued \in Nat
      /\ sent \in [Tokens -> Nat] /\ auth.version \in Tokens /\ auth.version \in Nat
  BY CallersAre, CallerIs, RowIs, Bounds DEF RowTyped
<1> HIDE DEF t, v
<1>4. UsedGrows
  BY <1>1, CallersAre, CountGrows
<1>5. /\ caller' \in [Callers -> Caller]
      /\ caller'[c].at \in {"received", "failed", "idle"}
      /\ \A d \in Callers \ {c} : caller'[d] = caller[d]
  BY <1>1, <1>3, ExceptsEnds
<1>6. issued' \in Tokens
  BY <1>1, <1>3, Bounds
<1>7. /\ files' \in SecretFiles
      /\ \A k \in Kinds, n \in Tokens :
             \/ files'[k][n] = files[k][n]
             \/ k = "bundle" /\ n = v /\ files'[k][n] = issued' /\ issued' = issued + 1
  <2>1. CASE files' = files
    BY <1>3, <2>1
  <2>2. CASE files' = [files EXCEPT !.bundle[v] = issued + 1] /\ issued' = issued + 1
    <3>1. issued + 1 \in Tokens
      BY <1>6, <2>2
    <3> DEFINE y == issued + 1
    <3> HIDE DEF y
    <3>2. y \in Tokens /\ files' = [files EXCEPT !["bundle"][v] = y]
      BY <2>2, <3>1 DEF y
    <3>3. /\ files' \in SecretFiles
          /\ \A k \in Kinds, n \in Tokens :
                 files'[k][n] = IF k = "bundle" /\ n = v THEN y ELSE files[k][n]
      BY <1>3, <3>2 DEF SecretFiles, Kinds
    <3> QED
      BY <2>2, <3>3 DEF y
  <2> QED
    BY <1>1, <2>1, <2>2
<1>8. /\ sent' \in [Tokens -> Nat] /\ sent'[t] = sent[t] + 1
      /\ \A n \in Tokens : n # t => sent'[n] = sent[n]
  BY <1>2, <1>3
<1>9. TokenTypeOK' /\ CodeInv'
  <2>1. RowTyped'
    BY <1>1, <1>3 DEF RowTyped
  <2> QED
    BY <1>1, <1>4, <1>5, <1>6, <1>7, <1>8, <2>1, TypesKept
<1>10. CASE Taken
  BY <1>4, <1>9, <1>10 DEF TokenKept, UsedGrows
<1>11. CASE ~Taken
  <2>1. TokenTypeOK /\ Numbered
    BY <1>11 DEF TokenInv
  <2>2. /\ v = auth.version + 1 /\ t = auth.version /\ Claimed /\ auth.version # 0
        /\ \A d \in Callers : Sending(d) => d = c
    BY <1>1, <2>1 DEF Numbered, SenderHasTheClaim, RowIsInOrder, t, v
  <2>3. sent[t] = 0
    BY <1>1, <2>1, <2>2 DEF Numbered, SentIsClaimed
  <2>4. issued = auth.version /\ sent'[t] = 1
    BY <1>8, <2>1, <2>2, <2>3 DEF Numbered, IssuedIsNext
  <2>5. \A d \in Callers : caller'[d].at \notin {"claimed", "requested"}
    BY <1>5, <2>2 DEF Sending
  <2>6. RowIsInOrder' /\ OnlyTakeoversReset' /\ CleansTheOld'
    BY <1>1, <1>5, <2>1 DEF Numbered, RowIsInOrder, OnlyTakeoversReset, CleansTheOld
  <2>7. SenderHasTheClaim'
    BY <2>5 DEF SenderHasTheClaim, Sending
  <2>8. SentIsClaimed'
    <3>1. \A n \in Tokens : sent'[n] # 0 => n <= auth'.version
      BY <1>1, <1>3, <1>8, <2>1, <2>2 DEF Numbered, SentIsClaimed
    <3>2. Claimed'
      BY <1>1, <2>2 DEF Claimed, Dead
    <3> QED
      BY <2>5, <3>1, <3>2 DEF SentIsClaimed, Sending
  <2>9. FilesAreNumbered'
    <3>1. \A k \in Kinds, n \in Tokens : files'[k][n] \in {0, n}
      BY <1>7, <2>1, <2>2, <2>4 DEF Numbered, FilesAreNumbered
    <3>2. \A n \in 1..MaxTokens : files'.bundle[n] # 0 => sent'[n - 1] # 0 /\ n <= issued'
      <4> SUFFICES ASSUME NEW n \in 1..MaxTokens, files'.bundle[n] # 0
                   PROVE  sent'[n - 1] # 0 /\ n <= issued'
        OBVIOUS
      <4>1. n \in Tokens /\ n \in Nat /\ n - 1 \in Tokens
        BY Bounds
      <4>2. CASE n = v
        <5>1. files.bundle[v] = 0
          <6>1. files.bundle[n] # 0 => sent[n - 1] # 0 /\ n <= issued
            BY <2>1 DEF Numbered, FilesAreNumbered
          <6> QED
            BY <1>3, <2>2, <2>4, <4>2, <6>1
        <5>2. issued' = issued + 1
          BY <1>7, <4>1, <4>2, <5>1 DEF Kinds
        <5> QED
          BY <1>3, <2>2, <2>4, <4>2, <5>2
      <4>3. CASE n # v
        <5>1. files.bundle[n] # 0
          BY <1>7, <4>1, <4>3 DEF Kinds
        <5>2. sent[n - 1] # 0 /\ n <= issued
          BY <2>1, <5>1 DEF Numbered, FilesAreNumbered
        <5>3. sent'[n - 1] # 0
          BY <1>8, <2>4, <4>1, <5>2
        <5> QED
          BY <1>1, <1>3, <4>1, <5>2, <5>3
      <4> QED
        BY <4>2, <4>3
    <3> QED
      BY <3>1, <3>2 DEF FilesAreNumbered
  <2>10. IssuedIsNext'
    BY <1>1, <2>2, <2>4 DEF IssuedIsNext
  <2>11. FilesOfTheVersion'
    BY <1>1, <1>3, <1>4, <1>7, <2>1 DEF Numbered, FilesOfTheVersion, UsedGrows, Kinds
  <2>12. SentOnce'
    BY <1>8, <2>1, <2>4, Bounds DEF Numbered, SentOnce
  <2> QED
    BY <1>9, <2>6, <2>7, <2>8, <2>9, <2>10, <2>11, <2>12 DEF TokenKept, Numbered
<1> QED
  BY <1>10, <1>11

-----------------------------------------------------------------------------
LEMMA InitKeeps ==
    ASSUME TokenInit
    PROVE  TokenInv
<1>1. /\ auth = NoAuthorization /\ issued = 0 /\ sent = [t \in Tokens |-> 0]
      /\ caller = [c \in Callers |-> Idle]
      /\ files = [kind \in Kinds |-> [v \in Tokens |-> 0]]
      /\ used = [lapses |-> 0, takeovers |-> 0, faults |-> 0, revoked |-> 0]
      /\ attempt = [a \in Attempts |-> "none"] /\ verifiers = {}
      /\ exchanged = [a \in Attempts |-> 0] /\ browser = [b \in Browsers |-> NoCallback]
  BY DEF TokenInit, Kinds
<1>2. /\ auth \in Authorization /\ auth.status = "ABSENT" /\ auth.version = 0
      /\ auth.pending = 0 /\ auth.owner = "nobody" /\ auth.lease = "none"
  BY <1>1, Bounds DEF NoAuthorization, Authorization, Statuses
<1>3. NoCallback \in Callback /\ NoCallback.at = "idle"
  BY DEF NoCallback, Callback
<1>4. UserTyped
  BY <1>1, <1>3 DEF UserTyped, AttemptRows
<1>5. files \in SecretFiles
  BY <1>1, Bounds DEF SecretFiles, Kinds
<1>6. TokenTypeOK
  <2>1. used \in Counters
    BY <1>1 DEF Counters
  <2>2. RowTyped
    BY <1>2 DEF RowTyped
  <2>3. issued \in Tokens /\ sent \in [Tokens -> Nat]
    BY <1>1, Bounds
  <2>4. caller \in [Callers -> Caller]
    BY <1>1, IdleIsCaller
  <2> QED
    BY <1>4, <1>5, <2>1, <2>2, <2>3, <2>4, TypeParts
<1>7. CodeInv
  BY <1>1, <1>3 DEF CodeInv, CodeIsOfOneCallback, CodeIsExchangedOnce
<1>8. \A c \in Callers : caller[c].at = "idle"
  BY <1>1, IdleIsCaller
<1>9. OnlyTakeoversReset /\ RowIsInOrder /\ SenderHasTheClaim /\ CleansTheOld
  BY <1>2, <1>8 DEF OnlyTakeoversReset, RowIsInOrder, SenderHasTheClaim, Sending, CleansTheOld
<1>10. SentIsClaimed /\ SentOnce /\ IssuedIsNext /\ FilesAreNumbered /\ FilesOfTheVersion
  BY <1>1, <1>2, Bounds
     DEF SentIsClaimed, SentOnce, IssuedIsNext, FilesAreNumbered, FilesOfTheVersion, Kinds
<1> QED
  BY <1>6, <1>7, <1>9, <1>10 DEF TokenInv, Numbered

LEMMA StutterKeeps ==
    ASSUME TokenInv, UNCHANGED tokenVars
    PROVE  TokenKept
<1>1. /\ UNCHANGED <<attempt, verifiers, exchanged, browser>> /\ UNCHANGED auth /\ UNCHANGED files
      /\ UNCHANGED issued /\ UNCHANGED sent /\ UNCHANGED caller /\ UNCHANGED used
  BY DEF tokenVars
<1>2. UserTyped'
  BY <1>1, TypeParts DEF TokenInv, UserTyped
<1>3. CodeInv'
  BY <1>1, UserVarsSame DEF TokenInv, userVars
<1>4. UsedGrows
  BY <1>1, CallersAre, CountGrows
<1> QED
  BY <1>1, <1>2, <1>3, <1>4, OnlyUserSide

LEMMA StepKeeps ==
    ASSUME TokenInv, [TokenNext]_tokenVars
    PROVE  TokenKept
<1>1. CASE UserNext
  BY <1>1, StartAuthorizationKeeps, ConsumeStateKeeps, ExchangeCodeKeeps,
     StoreAuthorizationKeeps, CallbackFailsKeeps, DisconnectKeeps DEF UserNext
<1>2. CASE TokensAge \/ LeaseLapses
  BY <1>2, TimeKeeps
<1>3. ASSUME NEW c \in Callers, CallerNext(c) PROVE TokenKept
  <2>1. CASE BeginRequest(c) \/ PrepareWaits(c) \/ Unavailable(c) \/ Call(c)
    BY <2>1, SimpleCallerStepKeeps
  <2>2. CASE PrepareActivates(c) \/ ActivatePending(c) \/ CleanUp(c) \/ Crash(c)
    BY <2>2, PrepareActivatesKeeps, ActivatePendingKeeps, CleanUpKeeps, CrashKeeps
  <2>3. CASE PrepareResets(c) \/ PrepareGivesUp(c) \/ PrepareReads(c) \/ ResetReads(c)
    BY <2>3, PrepareResetsKeeps, PrepareGivesUpKeeps, PrepareReadsKeeps, ResetReadsKeeps
  <2>4. CASE MarkRequestStarted(c) \/ Refresh(c) \/ MarkResultDurable(c) \/ RecordFailure(c)
    BY <2>4, MarkRequestStartedKeeps, RefreshKeeps, MarkResultDurableKeeps, RecordFailureKeeps
  <2> QED
    BY <1>3, <2>1, <2>2, <2>3, <2>4 DEF CallerNext
<1>4. CASE UNCHANGED tokenVars
  BY <1>4, StutterKeeps
<1> QED
  BY <1>1, <1>2, <1>3, <1>4 DEF TokenNext

LEMMA Invariance == TokenSpec => []TokenInv
<1>1. TokenInit => TokenInv
  BY InitKeeps
<1>2. TokenInv /\ [TokenNext]_tokenVars => TokenInv'
  BY StepKeeps DEF TokenKept, TokenInv, Taken
<1> QED
  BY <1>1, <1>2, PTL DEF TokenSpec

-----------------------------------------------------------------------------
\* Every variable stays within its type, and the columns of a pending rotation are
\* set and cleared together, as FeishuUserAuthorization.__post_init__ demands of a
\* row that is read.
THEOREM TokenTypeCorrect == TokenSpec => []TokenTypeOK
BY Invariance, PTL DEF TokenInv

\* However many callbacks deliver an attempt and wherever they fail, its code is
\* exchanged at most once: complete_authorization consumes the state first.
THEOREM CodesAreExchangedOnce == TokenSpec => []CodeIsExchangedOnce
BY Invariance, PTL DEF TokenInv, CodeInv

\* A connected authorization has the newest pair of Feishu in the files of its
\* version, after crashes, lost answers and lapsed leases of any number of
\* callers, unless a rotation was taken over or the user revoked it.
THEOREM ConnectedIsUsable == TokenSpec => []ConnectedHoldsNewestTokens
<1>1. TokenInv => ConnectedHoldsNewestTokens
  <2> SUFFICES ASSUME TokenInv, auth.status = "CONNECTED", used.takeovers = 0, used.revoked = 0
               PROVE  /\ files.access[auth.version] = issued
                      /\ files.refresh[auth.version] = issued
    BY DEF ConnectedHoldsNewestTokens
  <2>1. Numbered
    BY DEF TokenInv, Taken
  <2>2. ~Claimed
    BY <2>1 DEF Numbered, RowIsInOrder, Claimed, Dead
  <2>3. sent[auth.version] = 0
    BY <2>1, <2>2 DEF Numbered, SentIsClaimed
  <2>4. issued = auth.version
    BY <2>1, <2>3 DEF Numbered, IssuedIsNext
  <2> QED
    BY <2>1, <2>4 DEF Numbered, FilesOfTheVersion
<1> QED
  BY <1>1, Invariance, PTL

\* No refresh token is sent twice unless a rotation was taken over, whatever the
\* number of callers: the claim in the row makes its owner the only one to send.
THEOREM NoTokenIsSentTwice == TokenSpec => []SentTwiceOnlyAfterTakeover
<1>1. TokenInv => SentTwiceOnlyAfterTakeover
  BY DEF TokenInv, Taken, Numbered, SentOnce, SentTwiceOnlyAfterTakeover
<1> QED
  BY <1>1, Invariance, PTL
=============================================================================
