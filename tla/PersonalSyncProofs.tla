------------------------- MODULE PersonalSyncProofs -------------------------
(***************************************************************************)
(* What the watermark of a chat promises, for every number of              *)
(* synchronisations, messages, threads, faults and ticks.                  *)
(*                                                                         *)
(* That nothing within reach is left behind rests on four things.  A       *)
(* window ends at the time of its claim, so Feishu has listed what was     *)
(* sent Overlap ticks before its end, and the replies that came soon after *)
(* it.  Whoever holds the lease is the last that claimed it, so the        *)
(* watermark is still the one its window was computed from.  A message of  *)
(* a page shows its thread if one of its replies is listed by then.  And a *)
(* synchronisation that ends has stored all that its window listed, and    *)
(* all of the threads that were shown.                                     *)
(***************************************************************************)
EXTENDS PersonalSync, TLAPS

Active(y) == syncer[y].at \notin {"idle", "fail"}

\* Feishu lists a message at most Overlap ticks after it was sent.
ListedInTime ==
    \A m \in Messages : Sent(m) =>
        /\ message[m].sent <= clock
        /\ ~Listed(m) => clock <= message[m].sent + Overlap

\* A window ends in the past; that of the owner of the lease reaches from behind
\* the watermark to beyond it.
WindowCovers ==
    \A y \in Syncers : Active(y) =>
        /\ syncer[y].until <= clock
        /\ checkpoint.owner = y /\ checkpoint.watermark # Never =>
               /\ checkpoint.watermark <= syncer[y].until
               /\ syncer[y].from = 0 \/ syncer[y].from + Overlap <= checkpoint.watermark

\* What a synchronisation must find: the head of its thread is in the window and
\* was sent so long ago that all that counts is listed.
Due(y, m) ==
    /\ WithinReach(m)
    /\ message[RootOf[m]].sent \in syncer[y].from..syncer[y].until
    /\ message[RootOf[m]].sent + Overlap < syncer[y].until

\* What was seen is stored or still to be ingested.
SeenIsStored(y) ==
    /\ \A m \in syncer[y].seen : stored[m].channel = "user_api" \/ m \in syncer[y].todo
    /\ syncer[y].at \in {"list", "thread", "renew"} => syncer[y].todo = {}

\* After the last page of the chat, the top-level messages that were due were seen.
ChatIsSeen(y) ==
    syncer[y].at # "list" /\ ~syncer[y].more =>
        \A m \in Messages : ~IsReply(m) /\ Due(y, m) => m \in syncer[y].seen

\* Of what was seen the replies that are due were seen too, or their thread is still
\* to be fetched.
ThreadsAreSeen(y) ==
    /\ syncer[y].at = "list" => syncer[y].threads = {}
    /\ \A m \in Messages :
          IsReply(m) /\ Due(y, m) /\ RootOf[m] \in syncer[y].seen =>
              m \in syncer[y].seen \/ RootOf[m] \in syncer[y].threads

Complete(y) == Active(y) => SeenIsStored(y) /\ ChatIsSeen(y) /\ ThreadsAreSeen(y)

\* The user channel decides about the analysis of a message whatever was before.
UserChannelDecides ==
    \A m \in Messages : stored[m].channel = "user_api" => stored[m].disposition = Decided(m)

SyncInv ==
    /\ SyncTypeOK
    /\ checkpoint.watermark # Never => checkpoint.watermark <= clock
    /\ ListedInTime
    /\ WindowCovers
    /\ \A y \in Syncers : Complete(y)
    /\ UserChannelDecides
    /\ NothingLeftBehind

-----------------------------------------------------------------------------
LEMMA Bounds ==
    /\ Overlap \in Nat /\ Backfill \in Nat /\ MaxTime \in Nat /\ MaxFaults \in Nat
    /\ Never \in Nat /\ Never = MaxTime + 1
BY SyncAssumption DEF Never

LEMMA Initially == SyncInit => SyncInv
<1> SUFFICES ASSUME SyncInit
             PROVE  SyncInv
  OBVIOUS
<1> USE Bounds DEF SyncInit, NoCheckpoint
<1>1. SyncTypeOK
  <2>1. "NONE" \in Scope /\ IdleSyncer \in Syncer
    BY DEF Scope, IdleSyncer, Syncer, Times
  <2>2. checkpoint \in Checkpoint /\ checkpoint.lease = "none" /\ checkpoint.owner = "nobody"
    BY DEF Checkpoint, Times
  <2>3. message \in [Messages -> Message]
    BY DEF Message, Times
  <2>4. stored \in [Messages -> Stored]
    BY DEF Stored, Dispositions, NoRow
  <2>5. clock \in 0..MaxTime /\ since \in Times /\ faults \in 0..MaxFaults /\ scope \in Scope
    BY <2>1 DEF Times
  <2>6. checkpoint.lease = "none" <=> checkpoint.owner = "nobody"
    BY <2>2
  <2> QED
    BY <2>1, <2>2, <2>3, <2>4, <2>5, <2>6 DEF SyncTypeOK
<1>2. \A y \in Syncers : syncer[y].at = "idle"
  BY DEF IdleSyncer
<1>3. ListedInTime /\ UserChannelDecides /\ NothingLeftBehind
  BY DEF ListedInTime, Sent, UserChannelDecides, NothingLeftBehind, Passed, NoRow
<1> QED
  BY <1>1, <1>2, <1>3 DEF SyncInv, WindowCovers, Complete, Active

LEMMA IngestedType ==
    ASSUME stored \in [Messages -> Stored], NEW m \in Messages,
           NEW channel \in {"local_client", "user_api"}, NEW d \in Dispositions
    PROVE  Ingested(m, channel, d) \in [Messages -> Stored]
BY DEF Ingested, Stored

LEMMA DecidedType == \A m : Decided(m) \in {"analyze", "store_only"}
BY DEF Decided

\* Where the window of a claim begins.
LEMMA WindowStartIs ==
    ASSUME SyncInv
    PROVE  /\ WindowStart \in Times
           /\ checkpoint.watermark # Never =>
                  WindowStart = 0 \/ WindowStart + Overlap <= checkpoint.watermark
<1>1. checkpoint.watermark \in Times /\ clock \in 0..MaxTime
  BY DEF SyncInv, SyncTypeOK, Checkpoint
<1> QED
  BY <1>1, Bounds DEF WindowStart, Before, Times

\* What becomes of the record of a synchronisation that steps.
LEMMA RecordAfter ==
    ASSUME SyncInv, NEW y \in Syncers, SyncerNext(y)
    PROVE  /\ syncer' \in [Syncers -> Syncer]
           /\ \A z \in Syncers \ {y} : syncer'[z] = syncer[z]
           /\ \/ ~Active(y)'
              \/ /\ ClaimLease(y)
                 /\ syncer'[y] = [IdleSyncer EXCEPT !.at = "list", !.from = WindowStart,
                                                    !.until = clock]
              \/ /\ Active(y) /\ UNCHANGED checkpoint
                 /\ syncer'[y].from = syncer[y].from /\ syncer'[y].until = syncer[y].until
<1>0. syncer \in [Syncers -> Syncer] /\ syncer[y] \in Syncer
  BY DEF SyncInv, SyncTypeOK
<1>1. IdleSyncer \in Syncer /\ Failing \in Syncer
      /\ IdleSyncer.at = "idle" /\ Failing.at = "fail"
  <2>1. IdleSyncer \in Syncer /\ IdleSyncer.at = "idle"
    BY Bounds DEF IdleSyncer, Syncer, Times
  <2> QED
    BY <2>1 DEF Failing, Syncer
<1>2. CASE ClaimLease(y)
  <2> DEFINE new == [IdleSyncer EXCEPT !.at = "list", !.from = WindowStart, !.until = clock]
  <2>1. WindowStart \in Times /\ clock \in Times
    BY WindowStartIs, Bounds DEF SyncInv, SyncTypeOK, Times
  <2>2. new \in Syncer
    BY <1>1, <2>1 DEF Syncer
  <2>3. syncer' = [syncer EXCEPT ![y] = new]
    BY <1>2 DEF ClaimLease
  <2> HIDE DEF new
  <2>4. syncer' \in [Syncers -> Syncer] /\ syncer'[y] = new
        /\ \A z \in Syncers \ {y} : syncer'[z] = syncer[z]
    BY <1>0, <2>2, <2>3
  <2> QED
    BY <1>2, <2>4 DEF new
<1>3. CASE ListPage(y)
  <2>1. PICK page \in SUBSET Messages, more \in BOOLEAN, threads \in SUBSET Messages :
            syncer' = [syncer EXCEPT ![y].at = IF page = {} THEN "renew" ELSE "ingest",
                                     ![y].seen = @ \cup page, ![y].todo = page,
                                     ![y].threads = threads, ![y].more = more]
    <3>1. PICK more \in BOOLEAN, page \in SUBSET Unseen(y, OfWindow(y)) :
              syncer' = [syncer EXCEPT ![y].at = IF page = {} THEN "renew" ELSE "ingest",
                                       ![y].seen = @ \cup page, ![y].todo = page,
                                       ![y].threads = {m \in page : HasThread(m)},
                                       ![y].more = more]
      BY <1>3, ZenonT(40) DEF ListPage
    <3>2. page \in SUBSET Messages /\ {m \in page : HasThread(m)} \in SUBSET Messages
      BY DEF Unseen, OfWindow
    <3> QED
      BY <3>1, <3>2
  <2> DEFINE new == [syncer[y] EXCEPT !.at = IF page = {} THEN "renew" ELSE "ingest",
                                     !.seen = @ \cup page, !.todo = page,
                                     !.threads = threads, !.more = more]
  <2>2. new \in Syncer /\ new.from = syncer[y].from /\ new.until = syncer[y].until
    BY <1>0 DEF Syncer
  <2>3. syncer' = [syncer EXCEPT ![y] = new]
    BY <2>1
  <2> HIDE DEF new
  <2>4. /\ syncer' \in [Syncers -> Syncer] /\ \A z \in Syncers \ {y} : syncer'[z] = syncer[z]
        /\ syncer'[y].from = syncer[y].from /\ syncer'[y].until = syncer[y].until
    BY <1>0, <2>2, <2>3
  <2> QED
    BY <1>3, <2>4 DEF ListPage, Active
<1>4. CASE \E t \in Messages : ListThread(y, t)
  <2>1. PICK t \in Messages : ListThread(y, t)
    BY <1>4
  <2>2. PICK page \in SUBSET Messages, threads \in SUBSET Messages :
            syncer' = [syncer EXCEPT ![y].at = IF page = {} THEN "renew" ELSE "reply",
                                     ![y].seen = @ \cup page, ![y].todo = page,
                                     ![y].threads = threads]
    <3> DEFINE left == Unseen(y, OfThread(t))
    <3>1. PICK page \in SUBSET left :
              syncer' = [syncer EXCEPT ![y].at = IF page = {} THEN "renew" ELSE "reply",
                                       ![y].seen = @ \cup page, ![y].todo = page,
                                       ![y].threads = IF page = left THEN @ \ {t} ELSE @]
      BY <2>1 DEF ListThread
    <3>2. page \in SUBSET Messages
      BY DEF Unseen, OfThread
    <3> DEFINE threads == IF page = left THEN syncer[y].threads \ {t} ELSE syncer[y].threads
    <3>3. threads \in SUBSET Messages
      BY <1>0 DEF Syncer
    <3>4. syncer' = [syncer EXCEPT ![y].at = IF page = {} THEN "renew" ELSE "reply",
                                   ![y].seen = @ \cup page, ![y].todo = page,
                                   ![y].threads = threads]
      BY <3>1
    <3> HIDE DEF threads, left
    <3> QED
      BY <3>2, <3>3, <3>4
  <2>3. syncer' \in [Syncers -> Syncer] /\ \A z \in Syncers \ {y} : syncer'[z] = syncer[z]
    BY <1>0, <2>2 DEF Syncer
  <2>4. syncer'[y].from = syncer[y].from /\ syncer'[y].until = syncer[y].until
    BY <1>0, <2>2 DEF Syncer
  <2> QED
    BY <2>1, <2>3, <2>4 DEF ListThread, Active
<1>5. CASE \E m \in Messages : IngestMessage(y, m)
  <2>1. PICK m \in Messages : IngestMessage(y, m)
    BY <1>5
  <2>2. CASE syncer' = [syncer EXCEPT ![y] = Failing]
    BY <1>0, <1>1, <2>1, <2>2 DEF Active
  <2>3. CASE syncer' = [syncer EXCEPT ![y].todo = @ \ {m},
                            ![y].at = IF syncer[y].todo = {m} THEN AfterPage(y) ELSE @]
    <3>1. AfterPage(y) \in {"thread", "renew"}
      BY DEF AfterPage
    <3>2. syncer' \in [Syncers -> Syncer] /\ \A z \in Syncers \ {y} : syncer'[z] = syncer[z]
      BY <1>0, <2>3, <3>1 DEF Syncer
    <3>3. syncer'[y].from = syncer[y].from /\ syncer'[y].until = syncer[y].until
      BY <1>0, <2>3 DEF Syncer
    <3> QED
      BY <2>1, <3>2, <3>3 DEF IngestMessage, Active
  <2> QED
    BY <2>1, <2>2, <2>3 DEF IngestMessage
<1>6. CASE RenewLease(y)
  <2>1. CASE HoldsLease(y)
    <3>1. PICK at \in {"thread", "list"} : syncer' = [syncer EXCEPT ![y] = [@ EXCEPT !.at = at]]
      BY <1>6, <2>1 DEF RenewLease
    <3> QED
      BY <1>0, <1>6, <3>1 DEF RenewLease, Active, Syncer
  <2>2. CASE ~HoldsLease(y)
    BY <1>0, <1>1, <1>6, <2>2 DEF RenewLease, Active
  <2> QED
    BY <2>1, <2>2
<1>7. CASE SucceedLease(y) \/ SyncRaises(y) \/ FailLease(y) \/ Crash(y)
  BY <1>0, <1>1, <1>7 DEF SucceedLease, SyncRaises, FailLease, Crash, Active
<1> QED
  BY <1>2, <1>3, <1>4, <1>5, <1>6, <1>7 DEF SyncerNext, SyncStep

LEMMA TypeStep == SyncInv /\ [SyncNext]_syncVars => SyncTypeOK'
<1> SUFFICES ASSUME SyncInv, [SyncNext]_syncVars
             PROVE  SyncTypeOK'
  OBVIOUS
<1>0. SyncTypeOK
  BY DEF SyncInv
<1> USE <1>0, Bounds DEF SyncTypeOK
<1>1. CASE ChatNext
  <2>1. CASE Tick
    BY <2>1 DEF Tick
  <2>2. ASSUME NEW m \in Messages, SendMessage(m)
        PROVE  SyncTypeOK'
    BY <2>2 DEF SendMessage, Message, Times
  <2>3. ASSUME NEW m \in Messages, ListMessage(m)
        PROVE  SyncTypeOK'
    <3>1. message' \in [Messages -> Message]
      BY <2>3 DEF ListMessage, Message
    <3> QED
      BY <2>3, <3>1 DEF ListMessage
  <2>4. ASSUME NEW m \in Messages, LocalSync(m)
        PROVE  SyncTypeOK'
    <3>1. PICK d \in {"analyze", "store_only"} : stored' = Ingested(m, "local_client", d)
      BY <2>4, DecidedType DEF LocalSync
    <3>2. stored' \in [Messages -> Stored]
      BY <3>1, IngestedType DEF Dispositions
    <3> QED
      BY <2>4, <3>2 DEF LocalSync, Registered, Scope
  <2> QED
    BY <1>1, <2>1, <2>2, <2>3, <2>4 DEF ChatNext
<1>2. CASE ScopeNext
  BY <1>2 DEF ScopeNext, DiscoverChat, ChangeScope, Registered, Scope
<1>3. CASE LeaseLapses
  <2>1. checkpoint' \in Checkpoint /\ (checkpoint'.lease = "none" <=> checkpoint'.owner = "nobody")
    BY <1>3 DEF LeaseLapses, Checkpoint
  <2> QED
    BY <1>3, <2>1 DEF LeaseLapses, NextFault
<1>4. ASSUME NEW y \in Syncers, SyncerNext(y)
      PROVE  SyncTypeOK'
  <2>0. syncer[y] \in Syncer /\ y # "nobody"
    BY SyncAssumption
  <2>1. Released \in Checkpoint /\ Released.lease = "none" /\ Released.owner = "nobody"
    BY DEF Released, Checkpoint
  <2>2. syncer' \in [Syncers -> Syncer]
    BY <1>4, RecordAfter
  <2>3. CASE ClaimLease(y)
    <3>1. checkpoint' = [checkpoint EXCEPT !.owner = y, !.lease = "live"]
      BY <2>3 DEF ClaimLease
    <3>2. checkpoint' \in Checkpoint /\ checkpoint'.lease = "live" /\ checkpoint'.owner = y
      BY <3>1 DEF Checkpoint
    <3>3. checkpoint'.lease = "none" <=> checkpoint'.owner = "nobody"
      BY <2>0, <3>2
    <3> QED
      BY <2>2, <2>3, <3>2, <3>3 DEF ClaimLease
  <2>4. CASE ListPage(y) \/ RenewLease(y) \/ \E t \in Messages : ListThread(y, t)
    BY <2>2, <2>4 DEF ListPage, RenewLease, ListThread
  <2>5. ASSUME NEW m \in Messages, IngestMessage(y, m)
        PROVE  SyncTypeOK'
    <3>1. stored' \in [Messages -> Stored]
      <4>1. CASE UNCHANGED stored
        BY <4>1
      <4>2. CASE stored' = [Ingested(m, "user_api", Decided(m)) EXCEPT ![m].event = ShapeSeen(y, m)]
        <5>1. Ingested(m, "user_api", Decided(m)) \in [Messages -> Stored]
          BY IngestedType, DecidedType DEF Dispositions
        <5>2. ShapeSeen(y, m) \in Shapes
          BY DEF ShapeSeen, Shapes
        <5> QED
          BY <4>2, <5>1, <5>2 DEF Stored
      <4> QED
        BY <2>5, <4>1, <4>2 DEF IngestMessage
    <3> QED
      BY <2>2, <2>5, <3>1 DEF IngestMessage
  <2>6. CASE SucceedLease(y)
    <3>1. CASE HoldsLease(y)
      <4>1. syncer[y].until \in Times /\ syncer[y].from \in Times
        BY <2>0 DEF Syncer
      <4>2. checkpoint' = [Released EXCEPT !.watermark = syncer[y].until]
        BY <2>6, <3>1 DEF SucceedLease, Reached
      <4>3. checkpoint' \in Checkpoint /\ checkpoint'.owner = "nobody" /\ checkpoint'.lease = "none"
        BY <2>1, <4>1, <4>2 DEF Released, Checkpoint
      <4>4. since' \in Times
        BY <2>6, <3>1, <4>1 DEF SucceedLease
      <4> QED
        BY <2>2, <2>6, <4>3, <4>4 DEF SucceedLease
    <3>2. CASE ~HoldsLease(y)
      BY <2>2, <2>6, <3>2 DEF SucceedLease
    <3> QED
      BY <3>1, <3>2
  <2>7. CASE SyncRaises(y) \/ Crash(y)
    BY <2>2, <2>7 DEF SyncRaises, Crash, NextFault
  <2>8. CASE FailLease(y)
    BY <2>1, <2>2, <2>8 DEF FailLease
  <2> QED
    BY <1>4, <2>3, <2>4, <2>5, <2>6, <2>7, <2>8 DEF SyncerNext, SyncStep
<1>5. CASE UNCHANGED syncVars
  BY <1>5 DEF syncVars
<1> QED
  BY <1>1, <1>2, <1>3, <1>4, <1>5 DEF SyncNext

-----------------------------------------------------------------------------
\* Only the end of a synchronisation that still has the lease moves the watermark.
LEMMA CheckpointAfter ==
    ASSUME SyncInv, [SyncNext]_syncVars
    PROVE  \/ /\ checkpoint'.watermark = checkpoint.watermark /\ since' = since
              /\ \/ checkpoint'.owner = checkpoint.owner
                 \/ checkpoint'.owner = "nobody"
                 \/ \E y \in Syncers : checkpoint'.owner = y /\ SyncerNext(y)
           \/ \E y \in Syncers :
                 /\ SucceedLease(y) /\ HoldsLease(y)
                 /\ checkpoint'.owner = "nobody" /\ checkpoint'.watermark = syncer[y].until
                 /\ since' = IF checkpoint.watermark = Never THEN syncer[y].from ELSE since
<1>0. checkpoint \in Checkpoint
  BY DEF SyncInv, SyncTypeOK
<1>1. Released.owner = "nobody" /\ Released.watermark = checkpoint.watermark
  BY <1>0 DEF Released, Checkpoint
<1>2. CASE LeaseLapses
  BY <1>0, <1>2 DEF LeaseLapses, Checkpoint
<1>3. ASSUME NEW y \in Syncers, SyncerNext(y)
      PROVE  \/ UNCHANGED <<checkpoint, since>>
             \/ checkpoint'.watermark = checkpoint.watermark /\ checkpoint'.owner \in {"nobody", y}
                /\ since' = since
             \/ /\ SucceedLease(y) /\ HoldsLease(y)
                /\ checkpoint'.owner = "nobody" /\ checkpoint'.watermark = syncer[y].until
                /\ since' = IF checkpoint.watermark = Never THEN syncer[y].from ELSE since
  <2>1. CASE ClaimLease(y)
    BY <1>0, <2>1 DEF ClaimLease, Checkpoint
  <2>2. CASE FailLease(y)
    BY <1>1, <2>2 DEF FailLease
  <2>3. CASE SucceedLease(y) /\ HoldsLease(y)
    <3>1. checkpoint' = [Released EXCEPT !.watermark = syncer[y].until]
          /\ since' = IF checkpoint.watermark = Never THEN syncer[y].from ELSE since
      BY <2>3 DEF SucceedLease, Reached
    <3>2. checkpoint'.owner = "nobody" /\ checkpoint'.watermark = syncer[y].until
      BY <1>0, <3>1 DEF Released, Checkpoint
    <3> QED
      BY <2>3, <3>1, <3>2
  <2>4. CASE SucceedLease(y) /\ ~HoldsLease(y)
    BY <2>4 DEF SucceedLease
  <2>5. CASE ListPage(y) \/ RenewLease(y) \/ SyncRaises(y) \/ Crash(y)
             \/ \E m \in Messages : IngestMessage(y, m) \/ ListThread(y, m)
    BY <2>5 DEF ListPage, ListThread, RenewLease, SyncRaises, Crash, IngestMessage
  <2> QED
    BY <1>3, <2>1, <2>2, <2>3, <2>4, <2>5 DEF SyncerNext, SyncStep
<1>4. CASE ChatNext \/ ScopeNext \/ UNCHANGED syncVars
  BY <1>4 DEF ChatNext, ScopeNext, Tick, SendMessage, ListMessage, LocalSync, DiscoverChat,
              ChangeScope, syncVars
<1> QED
  BY <1>2, <1>3, <1>4 DEF SyncNext

LEMMA SyncersAlone ==
    ASSUME [SyncNext]_syncVars
    PROVE  UNCHANGED syncer \/ \E y \in Syncers : SyncerNext(y)
BY DEF SyncNext, ChatNext, ScopeNext, LeaseLapses, Tick, SendMessage, ListMessage, LocalSync,
       DiscoverChat, ChangeScope, syncVars

LEMMA ClockAfter ==
    ASSUME SyncInv, [SyncNext]_syncVars
    PROVE  /\ clock \in Nat
           /\ clock' = clock \/ Tick
           /\ Tick => clock' = clock + 1 /\ UNCHANGED <<message, checkpoint, syncer>>
           /\ \A y \in Syncers : SyncerNext(y) => UNCHANGED <<clock, message>>
<1>1. clock \in Nat
  BY Bounds DEF SyncInv, SyncTypeOK
<1>2. Tick => clock' = clock + 1 /\ UNCHANGED <<message, checkpoint, syncer>>
  BY DEF Tick
<1>3. ASSUME NEW y \in Syncers, SyncerNext(y)
      PROVE  UNCHANGED <<clock, message>>
  BY <1>3 DEF SyncerNext, SyncStep, ClaimLease, ListPage, ListThread, IngestMessage, RenewLease,
              SucceedLease, FailLease, SyncRaises, Crash
<1>4. clock' = clock \/ Tick
  BY <1>3 DEF SyncNext, ChatNext, ScopeNext, LeaseLapses, SendMessage, ListMessage, LocalSync,
              DiscoverChat, ChangeScope, syncVars
<1> QED
  BY <1>1, <1>2, <1>3, <1>4

\* A message is sent at the time it is; it is listed once, and what is listed soon is
\* listed at most Overlap ticks after the head of its thread was sent.
LEMMA MessageAfter ==
    ASSUME SyncInv, [SyncNext]_syncVars, NEW m \in Messages
    PROVE  /\ \/ message'[m].sent = message[m].sent
              \/ ~Sent(m) /\ message'[m].sent = clock
           /\ \/ message'[m].listed = message[m].listed
              \/ /\ ~Listed(m) /\ UNCHANGED <<clock, syncer>>
                 /\ message'[RootOf[m]].sent = message[RootOf[m]].sent
                 /\ message'[m].listed = "soon" => clock <= message[RootOf[m]].sent + Overlap
<1>0. message \in [Messages -> Message] /\ RootOf[m] \in Messages
  BY SyncAssumption DEF SyncInv, SyncTypeOK
<1>1. ASSUME NEW n \in Messages, SendMessage(n)
      PROVE  /\ message'[m].listed = message[m].listed
             /\ \/ message'[m].sent = message[m].sent
                \/ ~Sent(m) /\ message'[m].sent = clock
  <2>1. CASE m = n
    BY <1>0, <1>1, <2>1 DEF SendMessage, Message
  <2>2. CASE m # n
    BY <1>0, <1>1, <2>2 DEF SendMessage
  <2> QED
    BY <2>1, <2>2
<1>2. ASSUME NEW n \in Messages, ListMessage(n)
      PROVE  /\ \A k \in Messages : message'[k].sent = message[k].sent
             /\ UNCHANGED <<clock, syncer>>
             /\ \/ message'[m].listed = message[m].listed
                \/ /\ ~Listed(m)
                   /\ message'[m].listed = "soon" => clock <= message[RootOf[m]].sent + Overlap
  <2>1. \A k \in Messages : message'[k].sent = message[k].sent
    BY <1>0, <1>2 DEF ListMessage, Message
  <2>2. CASE m = n
    BY <1>0, <1>2, <2>1, <2>2 DEF ListMessage, Message
  <2>3. CASE m # n
    BY <1>0, <1>2, <2>1, <2>3 DEF ListMessage
  <2> QED
    BY <1>2, <2>1, <2>2, <2>3 DEF ListMessage
<1>3. CASE UNCHANGED message
  BY <1>3
<1>4. \/ UNCHANGED message \/ \E n \in Messages : SendMessage(n) \/ ListMessage(n)
  BY ClockAfter DEF SyncNext, ChatNext, ScopeNext, LeaseLapses, Tick, LocalSync, DiscoverChat,
                    ChangeScope, syncVars
<1> QED
  BY <1>0, <1>1, <1>2, <1>3, <1>4

LEMMA ListedStep == SyncInv /\ [SyncNext]_syncVars => ListedInTime'
<1> SUFFICES ASSUME SyncInv, [SyncNext]_syncVars
             PROVE  ListedInTime'
  OBVIOUS
<1>0. /\ ListedInTime /\ clock \in Nat /\ clock < Never
      /\ message \in [Messages -> Message] /\ \A m \in Messages : message[m].sent \in Nat
  BY Bounds DEF SyncInv, SyncTypeOK, Message, Times
<1>1. CASE Tick
  BY <1>0, <1>1, Bounds DEF Tick, ListedInTime, Sent, Listed
<1>2. ASSUME NEW m \in Messages, SendMessage(m)
      PROVE  ListedInTime'
  <2>1. message'[m].sent = clock
    BY <1>0, <1>2 DEF SendMessage, Message
  <2>2. \A n \in Messages \ {m} : message'[n] = message[n]
    BY <1>0, <1>2 DEF SendMessage
  <2>3. clock' = clock
    BY <1>2 DEF SendMessage
  <2> QED
    BY <1>0, <2>1, <2>2, <2>3, Bounds DEF ListedInTime, Sent, Listed
<1>3. ASSUME NEW m \in Messages, ListMessage(m)
      PROVE  ListedInTime'
  <2>1. message'[m].sent = message[m].sent /\ message'[m].listed # "no"
    BY <1>0, <1>3 DEF ListMessage, Message
  <2>2. \A n \in Messages \ {m} : message'[n] = message[n]
    BY <1>0, <1>3 DEF ListMessage
  <2>3. clock' = clock
    BY <1>3 DEF ListMessage
  <2> QED
    BY <1>0, <2>1, <2>2, <2>3 DEF ListedInTime, Sent, Listed
<1>4. CASE UNCHANGED <<clock, message>>
  BY <1>0, <1>4 DEF ListedInTime, Sent, Listed
<1>5. ASSUME LeaseLapses \/ ScopeNext \/ UNCHANGED syncVars \/ \E m \in Messages : LocalSync(m)
      PROVE  UNCHANGED <<clock, message>>
  BY <1>5 DEF LeaseLapses, ScopeNext, DiscoverChat, ChangeScope, LocalSync, syncVars
<1> QED
  BY <1>1, <1>2, <1>3, <1>4, <1>5, ClockAfter DEF SyncNext, ChatNext

LEMMA WindowStep == SyncInv /\ [SyncNext]_syncVars =>
                        /\ WindowCovers'
                        /\ checkpoint'.watermark # Never => checkpoint'.watermark <= clock'
<1> SUFFICES ASSUME SyncInv, [SyncNext]_syncVars
             PROVE  /\ WindowCovers'
                    /\ checkpoint'.watermark # Never => checkpoint'.watermark <= clock'
  OBVIOUS
<1>0. /\ WindowCovers /\ clock \in Nat
      /\ checkpoint.watermark # Never => checkpoint.watermark <= clock
      /\ \A y \in Syncers : syncer[y].from \in Nat /\ syncer[y].until \in Nat
      /\ checkpoint.watermark \in Nat
  BY Bounds DEF SyncInv, SyncTypeOK, Syncer, Checkpoint, Times
<1>1. clock' \in Nat /\ clock <= clock'
  BY <1>0, ClockAfter
<1>2. checkpoint'.watermark # Never => checkpoint'.watermark <= clock'
  <2>1. CASE checkpoint'.watermark = checkpoint.watermark
    BY <1>0, <1>1, <2>1
  <2>2. ASSUME NEW y \in Syncers, SucceedLease(y), checkpoint'.watermark = syncer[y].until
        PROVE  checkpoint'.watermark <= clock'
    BY <1>0, <1>1, <2>2 DEF WindowCovers, Active, SucceedLease
  <2> QED
    BY <2>1, <2>2, CheckpointAfter
<1> DEFINE Covers(y) == Active(y) =>
               /\ syncer[y].until <= clock
               /\ checkpoint.owner = y /\ checkpoint.watermark # Never =>
                      /\ checkpoint.watermark <= syncer[y].until
                      /\ syncer[y].from = 0 \/ syncer[y].from + Overlap <= checkpoint.watermark
<1>3. ASSUME NEW y \in Syncers, SyncerNext(y)
      PROVE  Covers(y)'
  <2>1. CASE ~Active(y)'
    BY <2>1
  <2>2. CASE /\ ClaimLease(y)
             /\ syncer'[y] = [IdleSyncer EXCEPT !.at = "list", !.from = WindowStart,
                                                !.until = clock]
    <3>1. syncer'[y].from = WindowStart /\ syncer'[y].until = clock
      BY <2>2 DEF IdleSyncer
    <3>2. checkpoint'.watermark = checkpoint.watermark
      BY <2>2 DEF ClaimLease, SyncInv, SyncTypeOK, Checkpoint
    <3> QED
      BY <1>0, <1>1, <3>1, <3>2, WindowStartIs
  <2>3. CASE /\ Active(y) /\ UNCHANGED checkpoint
             /\ syncer'[y].from = syncer[y].from /\ syncer'[y].until = syncer[y].until
    BY <1>0, <1>1, <2>3 DEF WindowCovers
  <2> QED
    BY <1>3, <2>1, <2>2, <2>3, RecordAfter
<1>4. ASSUME NEW y \in Syncers, syncer'[y] = syncer[y], ~SyncerNext(y)
      PROVE  Covers(y)'
  <2>1. y # "nobody"
    BY SyncAssumption
  <2>2. checkpoint'.owner # y \/ /\ checkpoint'.owner = checkpoint.owner
                                 /\ checkpoint'.watermark = checkpoint.watermark
    BY <1>4, <2>1, CheckpointAfter
  <2>3. Active(y)' <=> Active(y)
    BY <1>4 DEF Active
  <2> QED
    BY <1>0, <1>1, <1>4, <2>2, <2>3 DEF WindowCovers
<1> HIDE DEF Covers
<1>5. ASSUME NEW y \in Syncers
      PROVE  Covers(y)'
  BY <1>3, <1>4, SyncersAlone, RecordAfter
<1>6. WindowCovers'
  BY <1>5 DEF Covers, WindowCovers
<1> QED
  BY <1>2, <1>6

\* A better channel is never displaced, and the user channel always wins.
LEMMA IngestedIs ==
    ASSUME stored \in [Messages -> Stored], NEW m \in Messages,
           NEW channel \in {"local_client", "user_api"}, NEW d \in Dispositions
    PROVE  /\ \A n \in Messages \ {m} : Ingested(m, channel, d)[n] = stored[n]
           /\ stored[m].channel = "user_api" => Ingested(m, channel, d)[m] = stored[m]
           /\ channel = "user_api" => Ingested(m, channel, d)[m].channel = "user_api"
           /\ \/ Ingested(m, channel, d)[m] = stored[m]
              \/ /\ Ingested(m, channel, d)[m].channel = channel
                 /\ Ingested(m, channel, d)[m].disposition = d
<1>1. stored[m].channel \in {"none", "local_client", "user_api"}
  BY DEF Stored
<1>2. CASE Upgrades(m, channel)
  <2>1. Ingested(m, channel, d) = [stored EXCEPT ![m].channel = channel, ![m].disposition = d]
    BY <1>2 DEF Ingested
  <2>2. stored[m].channel # "user_api"
    BY <1>2 DEF Upgrades, Priority
  <2>3. /\ Ingested(m, channel, d)[m].channel = channel
        /\ Ingested(m, channel, d)[m].disposition = d
        /\ \A n \in Messages \ {m} : Ingested(m, channel, d)[n] = stored[n]
    BY <2>1 DEF Stored
  <2> QED
    BY <2>2, <2>3
<1>3. CASE ~Upgrades(m, channel)
  <2>1. Ingested(m, channel, d) = stored
    BY <1>3 DEF Ingested
  <2>2. channel = "user_api" => stored[m].channel = "user_api"
    BY <1>1, <1>3 DEF Upgrades, Priority
  <2> QED
    BY <2>1, <2>2
<1> QED
  BY <1>2, <1>3

\* What a synchronisation ingests; a refused event changes nothing.
LEMMA UserIngests ==
    ASSUME SyncInv, NEW y \in Syncers, NEW n \in Messages, IngestMessage(y, n)
    PROVE  /\ \A m \in Messages \ {n} : stored'[m] = stored[m]
           /\ \/ UNCHANGED stored /\ syncer' = [syncer EXCEPT ![y] = Failing]
              \/ /\ stored'[n].channel = "user_api"
                 /\ stored'[n].disposition \in {stored[n].disposition, Decided(n)}
                 /\ stored[n].channel = "user_api" =>
                        stored'[n].disposition = stored[n].disposition
                 /\ stored[n].channel # "user_api" => stored'[n].disposition = Decided(n)
                 /\ syncer' = [syncer EXCEPT ![y].todo = @ \ {n},
                        ![y].at = IF syncer[y].todo = {n} THEN AfterPage(y) ELSE @]
<1>0. stored \in [Messages -> Stored] /\ Decided(n) \in Dispositions
  BY DecidedType DEF SyncInv, SyncTypeOK, Dispositions
<1>1. CASE UNCHANGED stored /\ syncer' = [syncer EXCEPT ![y] = Failing]
  BY <1>1
<1>2. CASE /\ stored' = [Ingested(n, "user_api", Decided(n)) EXCEPT ![n].event = ShapeSeen(y, n)]
           /\ syncer' = [syncer EXCEPT ![y].todo = @ \ {n},
                  ![y].at = IF syncer[y].todo = {n} THEN AfterPage(y) ELSE @]
  <2> DEFINE new == Ingested(n, "user_api", Decided(n))
  <2>1. new \in [Messages -> Stored]
    BY <1>0, IngestedType
  <2>2. /\ \A m \in Messages \ {n} : new[m] = stored[m]
        /\ stored[n].channel = "user_api" => new[n] = stored[n]
        /\ new[n].channel = "user_api"
        /\ new[n] = stored[n] \/ new[n].disposition = Decided(n)
    BY <1>0, IngestedIs
  <2> HIDE DEF new
  <2>3. stored' = [new EXCEPT ![n].event = ShapeSeen(y, n)]
    BY <1>2 DEF new
  <2>4. /\ \A m \in Messages \ {n} : stored'[m] = new[m]
        /\ stored'[n].channel = new[n].channel /\ stored'[n].disposition = new[n].disposition
    BY <2>1, <2>3 DEF Stored
  <2> QED
    BY <1>2, <2>2, <2>4
<1> QED
  BY <1>1, <1>2 DEF IngestMessage

LEMMA StoredAfter ==
    ASSUME SyncInv, [SyncNext]_syncVars, NEW m \in Messages
    PROVE  /\ stored[m].channel = "user_api" =>
                  /\ stored'[m].channel = "user_api"
                  /\ stored'[m].disposition = stored[m].disposition
           /\ \/ stored'[m] = stored[m] \/ stored'[m].channel # "user_api"
              \/ stored[m].channel = "user_api" \/ stored'[m].disposition = Decided(m)
<1>0. stored \in [Messages -> Stored]
  BY DEF SyncInv, SyncTypeOK
<1>1. ASSUME NEW n \in Messages, LocalSync(n)
      PROVE  /\ stored[m].channel = "user_api" => stored'[m] = stored[m]
             /\ stored'[m] = stored[m] \/ stored'[m].channel # "user_api"
  <2>1. PICK d \in {"analyze", "store_only"} : stored' = Ingested(n, "local_client", d)
    BY <1>1, DecidedType DEF LocalSync
  <2>2. CASE m # n
    BY <1>0, <2>1, <2>2, IngestedIs DEF Dispositions
  <2>3. CASE m = n
    BY <1>0, <2>1, <2>3, IngestedIs DEF Dispositions
  <2> QED
    BY <2>2, <2>3
<1>2. ASSUME NEW y \in Syncers, NEW n \in Messages, IngestMessage(y, n)
      PROVE  /\ stored[m].channel = "user_api" =>
                    /\ stored'[m].channel = "user_api"
                    /\ stored'[m].disposition = stored[m].disposition
             /\ \/ stored'[m] = stored[m]
                \/ stored[m].channel = "user_api" \/ stored'[m].disposition = Decided(m)
  BY <1>2, UserIngests
<1>3. CASE UNCHANGED stored
  BY <1>3
<1>4. ASSUME NEW y \in Syncers, SyncerNext(y), \A n \in Messages : ~IngestMessage(y, n)
      PROVE  UNCHANGED stored
  BY <1>4 DEF SyncerNext, SyncStep, ClaimLease, ListPage, ListThread, RenewLease, SucceedLease,
              FailLease, SyncRaises, Crash
<1>5. \/ UNCHANGED stored \/ \E n \in Messages : LocalSync(n)
      \/ \E y \in Syncers : SyncerNext(y)
  BY DEF SyncNext, ChatNext, ScopeNext, LeaseLapses, Tick, SendMessage, ListMessage, DiscoverChat,
         ChangeScope, syncVars
<1> QED
  BY <1>1, <1>2, <1>3, <1>4, <1>5

-----------------------------------------------------------------------------
\* What is due to a running synchronisation was due before.
LEMMA DueBefore ==
    ASSUME SyncInv, [SyncNext]_syncVars, NEW y \in Syncers, Active(y),
           syncer'[y].from = syncer[y].from, syncer'[y].until = syncer[y].until,
           NEW m \in Messages, Due(y, m)'
    PROVE  Due(y, m)
<1>0. /\ RootOf[m] \in Messages /\ clock \in Nat /\ clock < Never
      /\ message[RootOf[m]].sent \in Nat
      /\ syncer[y].until \in Nat /\ syncer[y].from \in Nat /\ syncer[y].until <= clock
  BY SyncAssumption, Bounds DEF SyncInv, SyncTypeOK, Message, Syncer, Times, WindowCovers
<1>1. message'[RootOf[m]].sent + Overlap < syncer[y].until
      /\ message'[RootOf[m]].sent \in syncer[y].from..syncer[y].until
  BY DEF Due
<1>2. message'[RootOf[m]].sent = message[RootOf[m]].sent
  BY <1>0, <1>1, MessageAfter, Bounds
<1>3. WithinReach(m)
  <2>1. CASE ~IsReply(m)
    BY <2>1 DEF WithinReach
  <2>2. CASE message'[m].listed = "soon"
    BY <1>0, <1>1, <1>2, <2>2, MessageAfter, Bounds DEF WithinReach
  <2> QED
    BY <2>1, <2>2 DEF Due, WithinReach, IsReply
<1> QED
  BY <1>1, <1>2, <1>3 DEF Due

\* Feishu has listed it by then.
LEMMA DueIsListed ==
    ASSUME SyncInv, NEW y \in Syncers, Active(y), NEW m \in Messages, Due(y, m)
    PROVE  /\ Listed(m)
           /\ RootOf[m] \in Messages /\ ~IsReply(RootOf[m]) /\ Due(y, RootOf[m])
           /\ ~IsReply(m) => InWindow(y, m)
           /\ IsReply(m) => HasThread(RootOf[m])
<1>0. /\ RootOf[m] \in Messages /\ RootOf[RootOf[m]] = RootOf[m]
      /\ clock \in Nat /\ clock < Never /\ message[RootOf[m]].sent \in Nat
      /\ syncer[y].until \in Nat /\ syncer[y].from \in Nat /\ syncer[y].until <= clock
  BY SyncAssumption, Bounds DEF SyncInv, SyncTypeOK, Message, Syncer, Times, WindowCovers
<1>1. ~IsReply(RootOf[m]) /\ Due(y, RootOf[m])
  BY <1>0 DEF IsReply, Due, WithinReach
<1>2. CASE IsReply(m)
  <2>1. Listed(m)
    BY <1>2 DEF Due, WithinReach, Listed
  <2>2. HasThread(RootOf[m])
    BY <1>0, <1>2, <2>1 DEF HasThread
  <2> QED
    BY <1>0, <1>1, <1>2, <2>1, <2>2
<1>3. CASE ~IsReply(m)
  <2>1. RootOf[m] = m
    BY <1>3 DEF IsReply
  <2>2. message[m].sent + Overlap < clock /\ Sent(m)
    BY <1>0, <2>1, Bounds DEF Due, Sent
  <2>3. Listed(m)
    BY <1>0, <2>1, <2>2, Bounds DEF SyncInv, ListedInTime
  <2> QED
    BY <1>0, <1>1, <1>3, <2>1, <2>3 DEF Due, InWindow
<1> QED
  BY <1>2, <1>3

LEMMA ListCompletes ==
    ASSUME SyncInv, [SyncNext]_syncVars, NEW y \in Syncers, ListPage(y)
    PROVE  Complete(y)'
<1>0. /\ syncer \in [Syncers -> Syncer] /\ syncer[y] \in Syncer
      /\ Active(y) /\ syncer[y].at = "list" /\ UNCHANGED <<message, stored>>
      /\ SeenIsStored(y) /\ ChatIsSeen(y) /\ ThreadsAreSeen(y)
  BY DEF SyncInv, SyncTypeOK, ListPage, Active, Complete
<1> DEFINE left == Unseen(y, OfWindow(y))
<1>1. PICK more \in BOOLEAN, page \in SUBSET left :
          /\ IF more THEN page # {} ELSE page = left
          /\ syncer' = [syncer EXCEPT ![y].at = IF page = {} THEN "renew" ELSE "ingest",
                                      ![y].seen = @ \cup page, ![y].todo = page,
                                      ![y].threads = {m \in page : HasThread(m)},
                                      ![y].more = more]
  BY DEF ListPage
<1>2. /\ syncer'[y].from = syncer[y].from /\ syncer'[y].until = syncer[y].until
      /\ syncer'[y].seen = syncer[y].seen \cup page /\ syncer'[y].todo = page
      /\ syncer'[y].threads = {m \in page : HasThread(m)} /\ syncer'[y].more = more
      /\ syncer'[y].at = IF page = {} THEN "renew" ELSE "ingest"
  BY <1>0, <1>1, ZenonT(40) DEF Syncer
<1>3. \A m \in Messages : Due(y, m)' => Due(y, m)
  BY <1>0, <1>2, DueBefore
<1>4. SeenIsStored(y)'
  BY <1>0, <1>2 DEF SeenIsStored
<1>5. ChatIsSeen(y)'
  <2> SUFFICES ASSUME ~more, NEW m \in Messages, ~IsReply(m), Due(y, m)
               PROVE  m \in syncer[y].seen \cup page
    BY <1>2, <1>3 DEF ChatIsSeen, IsReply
  <2>1. Listed(m) /\ m \in OfWindow(y)
    BY <1>0, DueIsListed DEF OfWindow
  <2> QED
    BY <1>1, <2>1 DEF Unseen
<1>6. ThreadsAreSeen(y)'
  <2> SUFFICES ASSUME NEW m \in Messages, IsReply(m), Due(y, m),
                      RootOf[m] \in syncer[y].seen \cup page
               PROVE  m \in syncer[y].seen \cup page
                      \/ RootOf[m] \in {n \in page : HasThread(n)}
    BY <1>2, <1>3 DEF ThreadsAreSeen, IsReply
  <2>1. HasThread(RootOf[m])
    BY <1>0, DueIsListed
  <2> QED
    BY <1>0, <2>1 DEF ThreadsAreSeen
<1> QED
  BY <1>4, <1>5, <1>6 DEF Complete

LEMMA ThreadCompletes ==
    ASSUME SyncInv, [SyncNext]_syncVars, NEW y \in Syncers, NEW t \in Messages, ListThread(y, t)
    PROVE  Complete(y)'
<1>0. /\ syncer \in [Syncers -> Syncer] /\ syncer[y] \in Syncer
      /\ Active(y) /\ syncer[y].at = "thread" /\ UNCHANGED <<message, stored>>
      /\ SeenIsStored(y) /\ ChatIsSeen(y) /\ ThreadsAreSeen(y)
  BY DEF SyncInv, SyncTypeOK, ListThread, Active, Complete
<1> DEFINE left == Unseen(y, OfThread(t))
           threads(page) == IF page = left THEN syncer[y].threads \ {t} ELSE syncer[y].threads
<1>1. PICK page \in SUBSET left :
          syncer' = [syncer EXCEPT ![y].at = IF page = {} THEN "renew" ELSE "reply",
                                   ![y].seen = @ \cup page, ![y].todo = page,
                                   ![y].threads = threads(page)]
  BY DEF ListThread
<1> HIDE DEF threads
<1>2. /\ syncer'[y].from = syncer[y].from /\ syncer'[y].until = syncer[y].until
      /\ syncer'[y].seen = syncer[y].seen \cup page /\ syncer'[y].todo = page
      /\ syncer'[y].threads = threads(page) /\ syncer'[y].more = syncer[y].more
      /\ syncer'[y].at = IF page = {} THEN "renew" ELSE "reply"
  BY <1>0, <1>1, ZenonT(40) DEF Syncer
<1>3. \A m \in Messages : Due(y, m)' => Due(y, m)
  BY <1>0, <1>2, DueBefore
<1>4. SeenIsStored(y)'
  BY <1>0, <1>2 DEF SeenIsStored
<1>5. ChatIsSeen(y)'
  <2> SUFFICES ASSUME ~syncer[y].more, NEW m \in Messages, ~IsReply(m), Due(y, m)
               PROVE  m \in syncer[y].seen \cup page
    BY <1>2, <1>3 DEF ChatIsSeen, IsReply
  <2> QED
    BY <1>0 DEF ChatIsSeen
<1>6. ThreadsAreSeen(y)'
  <2> SUFFICES ASSUME NEW m \in Messages, IsReply(m), Due(y, m),
                      RootOf[m] \in syncer[y].seen \cup page
               PROVE  m \in syncer[y].seen \cup page \/ RootOf[m] \in threads(page)
    BY <1>2, <1>3 DEF ThreadsAreSeen, IsReply
  <2>1. Listed(m) /\ ~IsReply(RootOf[m])
    BY <1>0, DueIsListed
  <2>2. RootOf[m] \in syncer[y].seen
    BY <2>1 DEF Unseen, OfThread
  <2>3. m \in syncer[y].seen \/ RootOf[m] \in syncer[y].threads
    BY <1>0, <2>2 DEF ThreadsAreSeen
  <2>4. ASSUME page = left, RootOf[m] = t
        PROVE  m \in syncer[y].seen \cup page
    BY <2>1, <2>4 DEF Unseen, OfThread
  <2> QED
    BY <2>3, <2>4 DEF threads
<1> QED
  BY <1>4, <1>5, <1>6 DEF Complete

LEMMA IngestCompletes ==
    ASSUME SyncInv, [SyncNext]_syncVars, NEW y \in Syncers, NEW n \in Messages, IngestMessage(y, n)
    PROVE  Complete(y)'
<1>0. /\ syncer \in [Syncers -> Syncer] /\ syncer[y] \in Syncer
      /\ Active(y) /\ syncer[y].at \in {"ingest", "reply"} /\ UNCHANGED message
      /\ SeenIsStored(y) /\ ChatIsSeen(y) /\ ThreadsAreSeen(y)
  BY DEF SyncInv, SyncTypeOK, IngestMessage, Active, Complete
<1>1. CASE syncer' = [syncer EXCEPT ![y] = Failing]
  BY <1>0, <1>1 DEF Complete, Active, Failing, IdleSyncer
<1>2. CASE /\ stored'[n].channel = "user_api"
           /\ syncer' = [syncer EXCEPT ![y].todo = @ \ {n},
                  ![y].at = IF syncer[y].todo = {n} THEN AfterPage(y) ELSE @]
  <2>1. /\ syncer'[y].from = syncer[y].from /\ syncer'[y].until = syncer[y].until
        /\ syncer'[y].seen = syncer[y].seen /\ syncer'[y].todo = syncer[y].todo \ {n}
        /\ syncer'[y].threads = syncer[y].threads /\ syncer'[y].more = syncer[y].more
        /\ syncer'[y].at = IF syncer[y].todo = {n} THEN AfterPage(y) ELSE syncer[y].at
    BY <1>0, <1>2 DEF Syncer
  <2>2. \A m \in Messages : Due(y, m)' => Due(y, m)
    BY <1>0, <2>1, DueBefore
  <2>3. SeenIsStored(y)'
    <3>1. \A m \in Messages : stored[m].channel = "user_api" => stored'[m].channel = "user_api"
      BY StoredAfter
    <3>2. syncer[y].seen \subseteq Messages
      BY <1>0 DEF Syncer
    <3> QED
      BY <1>0, <1>2, <2>1, <3>1, <3>2 DEF SeenIsStored
  <2>4. ChatIsSeen(y)'
    BY <1>0, <2>1, <2>2 DEF ChatIsSeen, IsReply
  <2>5. ThreadsAreSeen(y)'
    <3>1. syncer'[y].at # "list"
      BY <1>0, <2>1 DEF AfterPage
    <3> QED
      BY <1>0, <2>1, <2>2, <3>1 DEF ThreadsAreSeen, IsReply
  <2> QED
    BY <2>3, <2>4, <2>5 DEF Complete
<1> QED
  BY <1>1, <1>2, UserIngests

LEMMA RenewCompletes ==
    ASSUME SyncInv, [SyncNext]_syncVars, NEW y \in Syncers, RenewLease(y)
    PROVE  Complete(y)'
<1>0. /\ syncer \in [Syncers -> Syncer] /\ syncer[y] \in Syncer
      /\ Active(y) /\ syncer[y].at = "renew" /\ UNCHANGED <<message, stored>>
      /\ SeenIsStored(y) /\ ChatIsSeen(y) /\ ThreadsAreSeen(y)
  BY DEF SyncInv, SyncTypeOK, RenewLease, Active, Complete
<1>1. CASE ~HoldsLease(y)
  BY <1>0, <1>1 DEF RenewLease, Complete, Active, IdleSyncer
<1>2. CASE HoldsLease(y)
  <2>1. syncer' = [syncer EXCEPT ![y] =
            [@ EXCEPT !.at = IF syncer[y].threads # {} THEN "thread" ELSE "list"]]
    BY <1>2 DEF RenewLease
  <2>2. /\ syncer'[y].from = syncer[y].from /\ syncer'[y].until = syncer[y].until
        /\ syncer'[y].seen = syncer[y].seen /\ syncer'[y].todo = syncer[y].todo
        /\ syncer'[y].threads = syncer[y].threads /\ syncer'[y].more = syncer[y].more
        /\ syncer'[y].at = IF syncer[y].threads # {} THEN "thread" ELSE "list"
    BY <1>0, <2>1 DEF Syncer
  <2>3. \A m \in Messages : Due(y, m)' => Due(y, m)
    BY <1>0, <2>2, DueBefore
  <2>4. SeenIsStored(y)'
    BY <1>0, <2>2 DEF SeenIsStored
  <2>5. ChatIsSeen(y)'
    BY <1>0, <2>2, <2>3 DEF ChatIsSeen, IsReply
  <2>6. ThreadsAreSeen(y)'
    BY <1>0, <2>2, <2>3 DEF ThreadsAreSeen, IsReply
  <2> QED
    BY <2>4, <2>5, <2>6 DEF Complete
<1> QED
  BY <1>1, <1>2

LEMMA CompleteStep == SyncInv /\ [SyncNext]_syncVars => \A y \in Syncers : Complete(y)'
<1> SUFFICES ASSUME SyncInv, [SyncNext]_syncVars, NEW y \in Syncers
             PROVE  Complete(y)'
  OBVIOUS
<1>0. syncer \in [Syncers -> Syncer] /\ syncer[y] \in Syncer
  BY DEF SyncInv, SyncTypeOK
<1>1. CASE ClaimLease(y)
  <2>1. syncer'[y] = [IdleSyncer EXCEPT !.at = "list", !.from = WindowStart, !.until = clock]
    BY <1>0, <1>1 DEF ClaimLease
  <2>2. /\ syncer'[y].at = "list" /\ syncer'[y].seen = {} /\ syncer'[y].todo = {}
        /\ syncer'[y].threads = {}
    BY <2>1 DEF IdleSyncer
  <2> QED
    BY <2>2 DEF Complete, SeenIsStored, ChatIsSeen, ThreadsAreSeen
<1>2. CASE SucceedLease(y) \/ FailLease(y) \/ SyncRaises(y) \/ Crash(y)
  BY <1>0, <1>2 DEF SucceedLease, FailLease, SyncRaises, Crash, Complete, Active, Failing, IdleSyncer
<1>3. CASE syncer'[y] = syncer[y] /\ Active(y)
  <2>1. \A m \in Messages : Due(y, m)' => Due(y, m)
    BY <1>3, DueBefore
  <2>2. \A m \in Messages : stored[m].channel = "user_api" => stored'[m].channel = "user_api"
    BY StoredAfter
  <2>3. SeenIsStored(y) /\ ChatIsSeen(y) /\ ThreadsAreSeen(y) /\ syncer[y].seen \subseteq Messages
    BY <1>0, <1>3 DEF SyncInv, Complete, Syncer
  <2>4. SeenIsStored(y)'
    BY <1>3, <2>2, <2>3 DEF SeenIsStored
  <2>5. ChatIsSeen(y)'
    BY <1>3, <2>1, <2>3 DEF ChatIsSeen, IsReply
  <2>6. ThreadsAreSeen(y)'
    BY <1>3, <2>1, <2>3 DEF ThreadsAreSeen, IsReply
  <2> QED
    BY <2>4, <2>5, <2>6 DEF Complete
<1>4. CASE syncer'[y] = syncer[y] /\ ~Active(y)
  BY <1>4 DEF Complete, Active
<1>5. CASE SyncerNext(y)
  BY <1>1, <1>2, <1>5, ListCompletes, ThreadCompletes, IngestCompletes, RenewCompletes
     DEF SyncerNext, SyncStep
<1>6. CASE ~SyncerNext(y)
  BY <1>3, <1>4, <1>6, SyncersAlone, RecordAfter
<1> QED
  BY <1>5, <1>6

\* The heart of it: what the end of a synchronisation that has the lease passes.
LEMMA PassedIsStored ==
    ASSUME SyncInv, NEW y \in Syncers, SucceedLease(y), HoldsLease(y), NEW m \in Messages,
           WithinReach(m),
           message[RootOf[m]].sent + Overlap < syncer[y].until,
           message[RootOf[m]].sent >= IF checkpoint.watermark = Never THEN syncer[y].from ELSE since
    PROVE  stored[m].channel = "user_api"
<1>0. /\ RootOf[m] \in Messages
      /\ message[RootOf[m]].sent \in Nat /\ syncer[y].from \in Nat /\ syncer[y].until \in Nat
      /\ checkpoint.watermark \in Nat /\ since \in Nat
  BY SyncAssumption, Bounds DEF SyncInv, SyncTypeOK, Syncer, Message, Checkpoint, Times
<1>1. /\ Active(y) /\ checkpoint.owner = y /\ syncer[y].at = "renew" /\ ~syncer[y].more
      /\ syncer[y].threads = {}
  BY DEF SucceedLease, HoldsLease, Active
<1>2. CASE checkpoint.watermark # Never
           /\ message[RootOf[m]].sent + Overlap < checkpoint.watermark
  BY <1>2 DEF SyncInv, NothingLeftBehind, Passed
<1>3. CASE checkpoint.watermark = Never
           \/ message[RootOf[m]].sent + Overlap >= checkpoint.watermark
  <2>1. syncer[y].from <= message[RootOf[m]].sent
    <3>1. CASE checkpoint.watermark = Never
      BY <1>0, <3>1
    <3>2. CASE checkpoint.watermark # Never
      <4>1. syncer[y].from = 0 \/ syncer[y].from + Overlap <= checkpoint.watermark
        BY <1>1, <3>2 DEF SyncInv, WindowCovers
      <4> QED
        BY <1>0, <1>3, <3>2, <4>1, Bounds
    <3> QED
      BY <3>1, <3>2
  <2>2. Due(y, m)
    BY <1>0, <2>1, Bounds DEF Due
  <2>3. ~IsReply(RootOf[m]) /\ Due(y, RootOf[m])
    BY <1>1, <2>2, DueIsListed
  <2>4. SeenIsStored(y) /\ ChatIsSeen(y) /\ ThreadsAreSeen(y)
    BY <1>1 DEF SyncInv, Complete
  <2>5. RootOf[m] \in syncer[y].seen
    BY <1>0, <1>1, <2>3, <2>4 DEF ChatIsSeen
  <2>6. m \in syncer[y].seen
    <3>1. CASE IsReply(m)
      BY <1>1, <2>2, <2>4, <2>5, <3>1 DEF ThreadsAreSeen
    <3>2. CASE ~IsReply(m)
      BY <2>5, <3>2 DEF IsReply
    <3> QED
      BY <3>1, <3>2
  <2> QED
    BY <1>1, <2>4, <2>6 DEF SeenIsStored
<1> QED
  BY <1>0, <1>2, <1>3, Bounds

LEMMA BehindStep == SyncInv /\ [SyncNext]_syncVars => NothingLeftBehind'
<1> SUFFICES ASSUME SyncInv, [SyncNext]_syncVars, NEW m \in Messages, Passed(m)', WithinReach(m)'
             PROVE  stored'[m].channel = "user_api"
  BY DEF NothingLeftBehind
<1>0. /\ message[RootOf[m]].sent \in Nat /\ message'[RootOf[m]].sent \in Nat
      /\ clock \in Nat /\ clock < Never
      /\ RootOf[m] \in Messages /\ checkpoint.watermark \in Nat /\ since \in Nat
      /\ checkpoint.watermark # Never => checkpoint.watermark <= clock
      /\ checkpoint'.watermark \in Nat /\ checkpoint'.watermark # Never
      /\ message'[RootOf[m]].sent >= since'
      /\ message'[RootOf[m]].sent + Overlap < checkpoint'.watermark
  BY TypeStep, SyncAssumption, Bounds
     DEF SyncInv, SyncTypeOK, Message, Checkpoint, Times, Passed
\* What is passed was listed before, and within reach.
<1>1. ASSUME checkpoint'.watermark <= clock
      PROVE  message'[RootOf[m]].sent = message[RootOf[m]].sent /\ WithinReach(m)
  <2>1. message'[RootOf[m]].sent = message[RootOf[m]].sent
    BY <1>0, <1>1, MessageAfter, Bounds
  <2>2. CASE ~IsReply(m)
    BY <2>1, <2>2 DEF WithinReach
  <2>3. CASE message'[m].listed = "soon"
    BY <1>0, <1>1, <2>1, <2>3, MessageAfter, Bounds DEF WithinReach
  <2> QED
    BY <2>1, <2>2, <2>3 DEF WithinReach, IsReply
<1>2. ASSUME checkpoint'.watermark = checkpoint.watermark, since' = since
      PROVE  stored[m].channel = "user_api"
  BY <1>0, <1>1, <1>2 DEF SyncInv, NothingLeftBehind, Passed
<1>3. ASSUME NEW y \in Syncers, SucceedLease(y), HoldsLease(y),
             checkpoint'.watermark = syncer[y].until,
             since' = IF checkpoint.watermark = Never THEN syncer[y].from ELSE since
      PROVE  stored[m].channel = "user_api"
  <2>1. syncer[y].until <= clock
    BY <1>3 DEF SyncInv, WindowCovers, SucceedLease, Active
  <2> QED
    BY <1>0, <1>1, <1>3, <2>1, PassedIsStored
<1> QED
  BY <1>2, <1>3, CheckpointAfter, StoredAfter

LEMMA DecidesStep == SyncInv /\ [SyncNext]_syncVars => UserChannelDecides'
BY StoredAfter DEF SyncInv, UserChannelDecides, Decided

-----------------------------------------------------------------------------
\* The strengthened invariant of the synchronisation of a chat.
THEOREM SyncInvariance == SyncSpec => []SyncInv
<1>1. SyncInv /\ [SyncNext]_syncVars => SyncInv'
  BY TypeStep, ListedStep, WindowStep, CompleteStep, DecidesStep, BehindStep DEF SyncInv
<1> QED
  BY <1>1, Initially, PTL DEF SyncSpec

\* Scope, checkpoint, messages and synchronisations keep the shape of their tables
\* and classes, and a checkpoint has an owner exactly while it has a lease.
THEOREM SyncTypeCorrect == SyncSpec => []SyncTypeOK
<1>1. SyncInv => SyncTypeOK
  BY DEF SyncInv
<1> QED
  BY <1>1, SyncInvariance, PTL

\* However many synchronisations crash, fail, are refused a message, or lose the lease
\* of _claim_lease to others, the watermark that _succeed_lease writes passes no
\* top-level message, and no reply that was listed soon after the head of its thread,
\* that was not ingested through the user channel.
THEOREM NothingIsLeftBehind == SyncSpec => []NothingLeftBehind
<1>1. SyncInv => NothingLeftBehind
  BY DEF SyncInv
<1> QED
  BY <1>1, SyncInvariance, PTL

\* A message with a reason to be analysed that the watermark has passed, and that was
\* within reach, is stored for analysis, whatever the local connector had stored of it.
THEOREM SignalsAreAnalysed == SyncSpec => []SignalIsAnalysed
<1>1. SyncInv => SignalIsAnalysed
  <2> SUFFICES ASSUME SyncInv, NEW m \in Signals, Passed(m), WithinReach(m)
               PROVE  stored[m].disposition = "analyze"
    BY DEF SignalIsAnalysed
  <2>1. m \in Messages /\ stored[m].channel = "user_api"
    BY SyncAssumption DEF SyncInv, NothingLeftBehind
  <2> QED
    BY <2>1 DEF SyncInv, UserChannelDecides, Decided
<1> QED
  BY <1>1, SyncInvariance, PTL

\* A synchronisation whose lease ran out never moves the watermark back.
THEOREM WatermarkOnlyAdvances == SyncSpec => WatermarkAdvances
<1>1. ASSUME SyncInv, [SyncNext]_syncVars, checkpoint.watermark # Never
      PROVE  checkpoint'.watermark >= checkpoint.watermark /\ checkpoint'.watermark # Never
  <2>0. checkpoint.watermark \in Nat /\ clock \in Nat /\ clock < Never
        /\ \A y \in Syncers : syncer[y].until \in Nat
    BY <1>1, Bounds DEF SyncInv, SyncTypeOK, Syncer, Checkpoint, Times
  <2>1. ASSUME NEW y \in Syncers, SucceedLease(y), HoldsLease(y),
               checkpoint'.watermark = syncer[y].until
        PROVE  checkpoint'.watermark >= checkpoint.watermark /\ checkpoint'.watermark # Never
    <3>1. Active(y) /\ checkpoint.owner = y
      BY <2>1 DEF SucceedLease, HoldsLease, Active
    <3>2. checkpoint.watermark <= syncer[y].until /\ syncer[y].until <= clock
      BY <1>1, <3>1 DEF SyncInv, WindowCovers
    <3> QED
      BY <2>0, <2>1, <3>2, Bounds
  <2>2. CASE checkpoint'.watermark = checkpoint.watermark
    BY <1>1, <2>0, <2>2
  <2> QED
    BY <1>1, <2>1, <2>2, CheckpointAfter
<1>2. SyncInv /\ [SyncNext]_syncVars =>
          [checkpoint.watermark # Never => checkpoint'.watermark >= checkpoint.watermark
                                           /\ checkpoint'.watermark # Never]_syncVars
  BY <1>1
<1> QED
  BY <1>2, SyncInvariance, PTL DEF SyncSpec, WatermarkAdvances
=============================================================================
