---------------------------- MODULE PersonalSync ----------------------------
(***************************************************************************)
(* Synchronisation of one Feishu chat with the user's own identity: the    *)
(* scope and the decisions operators take about it (feishu_scopes.py), the *)
(* checkpoint with its lease and watermark (feishu_personal_sync.py), the  *)
(* tasks and routes that synchronise, and the local connector of the host  *)
(* that stores the same messages (feishu_local_sync.py).                   *)
(*                                                                         *)
(* The chat is listed by its top-level messages.  One that has replies     *)
(* shows the thread_id by which the replies are listed, and only so are    *)
(* they found; a message that was ingested before its thread began is an   *)
(* event whose payload changed, which ingestion refuses.                   *)
(*                                                                         *)
(* A step is a transaction or an HTTP exchange.  Time is a count of ticks. *)
(* A request repeated with its idempotency key changes nothing and is left *)
(* out, as are edits, and native documents and attachments but for their   *)
(* failures.                                                               *)
(***************************************************************************)
EXTENDS Naturals, FiniteSets

CONSTANTS
    Syncers,     \* tasks and routes that synchronise the scope
    Messages,    \* messages of the chat
    RootOf,      \* the message at the head of its thread; itself if it is top-level
    Signals,     \* those with a reason to be analysed (message_analysis_policy.py)
    Overlap,     \* ticks by which a window reaches behind the watermark
    Backfill,    \* backfill_days, in ticks
    MaxTime,     \* bound on the clock
    MaxFaults    \* bound on crashes, failures, and leases lost by a living owner

ASSUME SyncAssumption ==
    /\ "nobody" \notin Syncers
    /\ Signals \subseteq Messages
    /\ RootOf \in [Messages -> Messages]
    /\ \A m \in Messages : RootOf[RootOf[m]] = RootOf[m]
    /\ {Overlap, Backfill, MaxTime, MaxFaults} \subseteq Nat

VARIABLES
    clock,       \* the time
    message,     \* message[m]: when it was sent, and how soon Feishu listed it
    stored,      \* stored[m]: its row of feishu_messages, its event of the user channel
    scope,       \* the row of integration_scopes
    checkpoint,  \* the row of feishu_sync_checkpoints
    syncer,      \* syncer[y]: where it is in sync_scope
    since,       \* start of the first window that was completed
    faults       \* faults so far

syncVars == <<clock, message, stored, scope, checkpoint, syncer, since, faults>>

-----------------------------------------------------------------------------
Never == MaxTime + 1   \* a time that is not set

Times == 0..Never

\* Listed soon is at most Overlap ticks after the head of the thread was sent.
Message == [sent : Times, listed : {"no", "soon", "late"}]

Dispositions == {"none", "store_only", "analyze"}

\* What Feishu says of a message that may change without an update_time: whether
\* it has a thread_id.
Shapes == {"plain", "threaded"}

\* event is the payload of the event the user channel ingested for the message.
Stored == [channel : {"none", "local_client", "user_api"}, disposition : Dispositions,
           event : Shapes \cup {"none"}]

NoRow == [channel |-> "none", disposition |-> "none", event |-> "none"]

\* WITHHELD stands for UNAPPROVED, PAUSED and EXCLUDED, which are synchronised
\* alike: not at all.  sync_mode is DISABLED in all of them, and else ACTIVE.
Scope == {"NONE", "WITHHELD", "ALLOWED"}

\* owner stands for the UUID that a claim draws; lease_fence, drawn with it and
\* compared with it, tells nothing more.
Checkpoint == [watermark : Times, owner : Syncers \cup {"nobody"},
               lease : {"none", "live", "lapsed"}]

\* The window, what was seen in it, what of the page is still to be ingested, and
\* the threads of the page that are still to be fetched.
Syncer == [at : {"idle", "list", "ingest", "thread", "reply", "renew", "fail"},
           from : Times, until : Times, seen : SUBSET Messages, todo : SUBSET Messages,
           threads : SUBSET Messages, more : BOOLEAN]

IdleSyncer == [at |-> "idle", from |-> 0, until |-> 0, seen |-> {}, todo |-> {},
               threads |-> {}, more |-> FALSE]

Failing == [IdleSyncer EXCEPT !.at = "fail"]

NoCheckpoint == [watermark |-> Never, owner |-> "nobody", lease |-> "none"]

SyncInit ==
    /\ clock = 0
    /\ message = [m \in Messages |-> [sent |-> Never, listed |-> "no"]]
    /\ stored = [m \in Messages |-> NoRow]
    /\ scope = "NONE"
    /\ checkpoint = NoCheckpoint
    /\ syncer = [y \in Syncers |-> IdleSyncer]
    /\ since = Never
    /\ faults = 0

-----------------------------------------------------------------------------
\* The chat.  Feishu lists a message at most Overlap ticks after it was sent.
Sent(m) == message[m].sent # Never

Listed(m) == message[m].listed # "no"

IsReply(m) == RootOf[m] # m

Tick ==
    /\ clock < MaxTime
    /\ \A m \in Messages :
          Sent(m) /\ ~Listed(m) => clock < message[m].sent + Overlap
    /\ clock' = clock + 1
    /\ UNCHANGED <<message, stored, scope, checkpoint, syncer, since, faults>>

\* Not so late that its listing would lie beyond MaxTime.
SendMessage(m) ==
    /\ ~Sent(m) /\ clock + Overlap <= MaxTime
    /\ IsReply(m) => Sent(RootOf[m])
    /\ message' = [message EXCEPT ![m].sent = clock]
    /\ UNCHANGED <<clock, stored, scope, checkpoint, syncer, since, faults>>

ListMessage(m) ==
    /\ Sent(m) /\ ~Listed(m)
    /\ message' = [message EXCEPT ![m].listed =
          IF clock <= message[RootOf[m]].sent + Overlap THEN "soon" ELSE "late"]
    /\ UNCHANGED <<clock, stored, scope, checkpoint, syncer, since, faults>>

-----------------------------------------------------------------------------
\* The scope: FeishuScopeService.

\* register_known_chat, which discovery calls for every chat of the user.
Registered == IF scope = "NONE" THEN "WITHHELD" ELSE scope

DiscoverChat ==
    /\ scope = "NONE"
    /\ scope' = Registered
    /\ UNCHANGED <<clock, message, stored, checkpoint, syncer, since, faults>>

\* change_scope, under the row lock.  An operator who saw another version of the
\* scope gets EntityVersionConflictError and changes nothing.
ChangeScope ==
    /\ scope # "NONE"
    /\ scope' \in {"WITHHELD", "ALLOWED"}
    /\ UNCHANGED <<clock, message, stored, checkpoint, syncer, since, faults>>

-----------------------------------------------------------------------------
\* IngestFeishuEventHandler for a message that both channels create: the row is
\* new, or the better channel takes it over, or the event is a duplicate.
Priority(channel) == CASE channel = "user_api" -> 2 [] channel = "local_client" -> 1 [] OTHER -> 0

\* Mutant: only a new row is written.
UpgradesMut(m, channel) == stored[m].channel = "none"

Upgrades(m, channel) == Priority(channel) > Priority(stored[m].channel)

Ingested(m, channel, disposition) ==
    IF Upgrades(m, channel)
    THEN [stored EXCEPT ![m].channel = channel, ![m].disposition = disposition]
    ELSE stored

\* MessageAnalysisPolicy.decide.
Decided(m) == IF m \in Signals THEN "analyze" ELSE "store_only"

\* LocalFeishuHostSyncService.sync, for one record: it registers the scope or
\* finds it, and stores the message whatever was decided about the scope.
LocalSync(m) ==
    /\ Sent(m)
    /\ scope' = Registered
    /\ stored' = Ingested(m, "local_client",
                          IF scope = "ALLOWED" THEN Decided(m) ELSE "store_only")
    /\ UNCHANGED <<clock, message, checkpoint, syncer, since, faults>>

-----------------------------------------------------------------------------
\* The task: PersonalMessageSyncService.
NextFault == faults < MaxFaults /\ faults' = faults + 1

\* A time before that of another; nothing is sent before time 0.
Before(t, ticks) == IF t < ticks THEN 0 ELSE t - ticks


WindowStart == IF checkpoint.watermark = Never THEN Before(clock, Backfill)
               ELSE Before(checkpoint.watermark, Overlap)

\* PersonalSyncRuntime reads the scope, and _claim_lease follows; sync_scope works
\* on what was read, so that a decision between the two is like one after them.  A
\* live lease of another raises sync_lease_active.
ClaimLease(y) ==
    /\ syncer[y].at = "idle" /\ scope = "ALLOWED" /\ checkpoint.lease # "live"
    /\ checkpoint' = [checkpoint EXCEPT !.owner = y, !.lease = "live"]
    /\ syncer' = [syncer EXCEPT ![y] = [IdleSyncer EXCEPT
                    !.at = "list", !.from = WindowStart, !.until = clock]]
    /\ UNCHANGED <<clock, message, stored, scope, since, faults>>

InWindow(y, m) == message[m].sent \in syncer[y].from..syncer[y].until

\* A message shows its thread once Feishu lists a reply; a reply always does.
HasThread(m) == \E n \in Messages : RootOf[n] = RootOf[m] /\ IsReply(n) /\ Listed(n)

Shape(m) == IF HasThread(m) THEN "threaded" ELSE "plain"

\* What list_messages still has of the window, and list_thread_messages of a
\* thread: seen_message_ids takes the rest out.
Unseen(y, S) == {m \in S : Listed(m) /\ m \notin syncer[y].seen}

OfWindow(y) == {m \in Messages : ~IsReply(m) /\ InWindow(y, m)}

OfThread(t) == {m \in Messages : IsReply(m) /\ RootOf[m] = t}

\* list_messages, and the threads its page names.  A page with a next one need not
\* leave anything to that.
ListPage(y) ==
    LET left == Unseen(y, OfWindow(y)) IN
    /\ syncer[y].at = "list"
    /\ \E more \in BOOLEAN, page \in SUBSET left :
          /\ IF more THEN page # {} ELSE page = left
          /\ syncer' = [syncer EXCEPT
                ![y].at = IF page = {} THEN "renew" ELSE "ingest",
                ![y].seen = @ \cup page, ![y].todo = page,
                ![y].threads = {m \in page : HasThread(m)}, ![y].more = more]
    /\ UNCHANGED <<clock, message, stored, scope, checkpoint, since, faults>>

\* list_thread_messages; the page that leaves nothing is the last of its thread.
ListThread(y, t) ==
    LET left == Unseen(y, OfThread(t)) IN
    /\ syncer[y].at = "thread" /\ t \in syncer[y].threads
    /\ \E page \in SUBSET left :
          /\ page = {} => left = {}
          /\ syncer' = [syncer EXCEPT
                ![y].at = IF page = {} THEN "renew" ELSE "reply",
                ![y].seen = @ \cup page, ![y].todo = page,
                ![y].threads = IF page = left THEN @ \ {t} ELSE @]
    /\ UNCHANGED <<clock, message, stored, scope, checkpoint, since, faults>>

\* After the last message of a page of the chat its threads are fetched; after one
\* of a thread the lease is renewed.
AfterPage(y) ==
    IF syncer[y].at = "ingest" /\ syncer[y].threads # {} THEN "thread" ELSE "renew"

\* A message of a page of the chat as it was when the page was listed.
ShapeSeen(y, m) == IF IsReply(m) \/ m \in syncer[y].threads THEN "threaded" ELSE "plain"

\* _ingest_raw_message: the event is new, or a duplicate, or its payload is not
\* the one it was ingested with and IdempotencyConflictError ends sync_scope.
IngestMessage(y, m) ==
    /\ syncer[y].at \in {"ingest", "reply"} /\ m \in syncer[y].todo
    /\ \/ /\ stored[m].event \in {"none", ShapeSeen(y, m)}
          /\ stored' = [Ingested(m, "user_api", Decided(m)) EXCEPT ![m].event = ShapeSeen(y, m)]
          /\ syncer' = [syncer EXCEPT
                ![y].todo = @ \ {m},
                ![y].at = IF syncer[y].todo = {m} THEN AfterPage(y) ELSE @]
       \/ /\ stored[m].event \notin {"none", ShapeSeen(y, m)}
          /\ syncer' = [syncer EXCEPT ![y] = Failing]
          /\ UNCHANGED stored
    /\ UNCHANGED <<clock, message, scope, checkpoint, since, faults>>

\* Mutant: the owner is not compared.
HoldsLeaseMut(y) == checkpoint.lease = "live"

\* _require_lease.
HoldsLease(y) ==
    /\ checkpoint.owner = y
    /\ checkpoint.lease = "live"

\* _renew_lease after a page, and _succeed_lease after the last one; a lease that is
\* lost ends sync_scope, and _fail_lease leaves it to its new owner.
RenewLease(y) ==
    /\ syncer[y].at = "renew"
    /\ syncer[y].more \/ syncer[y].threads # {}
    /\ syncer' = [syncer EXCEPT ![y] =
          IF HoldsLease(y)
          THEN [@ EXCEPT !.at = IF syncer[y].threads # {} THEN "thread" ELSE "list"]
          ELSE IdleSyncer]
    /\ UNCHANGED <<clock, message, stored, scope, checkpoint, since, faults>>

Released == [checkpoint EXCEPT !.owner = "nobody", !.lease = "none"]

\* Mutant: the watermark is the time at which the synchronisation ends.
ReachedMut(y) == clock

Reached(y) == syncer[y].until

SucceedLease(y) ==
    /\ syncer[y].at = "renew" /\ ~syncer[y].more /\ syncer[y].threads = {}
    /\ IF HoldsLease(y)
       THEN /\ checkpoint' = [Released EXCEPT !.watermark = Reached(y)]
            /\ since' = IF checkpoint.watermark = Never THEN syncer[y].from ELSE since
       ELSE UNCHANGED <<checkpoint, since>>
    /\ syncer' = [syncer EXCEPT ![y] = IdleSyncer]
    /\ UNCHANGED <<clock, message, stored, scope, faults>>

\* A page, a message, its documents or its attachments cannot be had.
SyncRaises(y) ==
    /\ syncer[y].at \notin {"idle", "fail"}
    /\ NextFault
    /\ syncer' = [syncer EXCEPT ![y] = Failing]
    /\ UNCHANGED <<clock, message, stored, scope, checkpoint, since>>

\* _fail_lease.
FailLease(y) ==
    /\ syncer[y].at = "fail"
    /\ checkpoint' = IF HoldsLease(y) THEN Released ELSE checkpoint
    /\ syncer' = [syncer EXCEPT ![y] = IdleSyncer]
    /\ UNCHANGED <<clock, message, stored, scope, since, faults>>

Crash(y) ==
    /\ syncer[y].at # "idle"
    /\ NextFault
    /\ syncer' = [syncer EXCEPT ![y] = IdleSyncer]
    /\ UNCHANGED <<clock, message, stored, scope, checkpoint, since>>

Abandoned == \A y \in Syncers : syncer[y].at = "idle" \/ ~HoldsLease(y)

\* lease_expires_at passes while its owner is dead, or slow.
LeaseLapses ==
    /\ checkpoint.lease = "live"
    /\ checkpoint' = [checkpoint EXCEPT !.lease = "lapsed"]
    /\ IF Abandoned THEN UNCHANGED faults ELSE NextFault
    /\ UNCHANGED <<clock, message, stored, scope, syncer, since>>

ChatNext == Tick \/ \E m \in Messages : SendMessage(m) \/ ListMessage(m) \/ LocalSync(m)

ScopeNext == DiscoverChat \/ ChangeScope

SyncStep(y) ==
    \/ ClaimLease(y) \/ ListPage(y) \/ RenewLease(y) \/ SucceedLease(y) \/ FailLease(y)
    \/ \E t \in Messages : ListThread(y, t)
    \/ \E m \in Messages : IngestMessage(y, m)

SyncerNext(y) == SyncStep(y) \/ SyncRaises(y) \/ Crash(y)

SyncNext == ChatNext \/ ScopeNext \/ LeaseLapses \/ \E y \in Syncers : SyncerNext(y)

SyncSpec == SyncInit /\ [][SyncNext]_syncVars

\* Celery Beat starts the task again and again, a running one goes on, and
\* leases expire.
FairSyncSpec ==
    /\ SyncSpec
    /\ WF_syncVars(LeaseLapses)
    /\ \A y \in Syncers : WF_syncVars(SyncStep(y))

-----------------------------------------------------------------------------
\* Every variable stays within its type; a live lease has an owner.
SyncTypeOK ==
    /\ clock \in 0..MaxTime
    /\ message \in [Messages -> Message]
    /\ stored \in [Messages -> Stored]
    /\ scope \in Scope
    /\ checkpoint \in Checkpoint
    /\ checkpoint.lease = "none" <=> checkpoint.owner = "nobody"
    /\ syncer \in [Syncers -> Syncer]
    /\ since \in Times
    /\ faults \in 0..MaxFaults

\* A reply is found while a window holds the head of its thread; a top-level message
\* always is.
WithinReach(m) ==
    IsReply(m) => message[m].listed = "soon"

\* Too old for the window of the next synchronisation.
Passed(m) ==
    LET t == message[RootOf[m]].sent IN
    checkpoint.watermark # Never /\ t >= since /\ t + Overlap < checkpoint.watermark

\* Nothing is left behind the watermark: whatever crashed, failed, was refused or
\* lost its lease on the way, a message whose chat or thread the next window no
\* longer reaches was ingested, if it is top-level or Feishu listed it at most
\* Overlap ticks after the head of its thread was sent.
NothingLeftBehind ==
    \A m \in Messages :
        Passed(m) /\ WithinReach(m) => stored[m].channel = "user_api"

\* A synchronisation whose lease ran out never moves the watermark back over
\* the one that took its place.
WatermarkAdvances ==
    [][checkpoint.watermark # Never => checkpoint'.watermark >= checkpoint.watermark
                                       /\ checkpoint'.watermark # Never]_syncVars

\* A message with a reason to be analysed is stored for analysis once the user
\* channel had to have it, even if the connector had stored it as store_only before.
SignalIsAnalysed ==
    \A m \in Signals :
        Passed(m) /\ WithinReach(m) => stored[m].disposition = "analyze"

\* No message differs from the event it was ingested with: its thread did not begin
\* after it was ingested.
NoneChanged == \A m \in Messages : stored[m].event \in {"none", Shape(m)}

=============================================================================
