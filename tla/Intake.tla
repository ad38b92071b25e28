------------------------------- MODULE Intake -------------------------------
(***************************************************************************)
(* A Feishu message and its attachments on their way to the analysis: the  *)
(* ingestion of events from several channels (feishu_handlers.py), the     *)
(* downloads under a storage quota (feishu_operations.py, repositories.py),*)
(* the extraction of text (document_extraction.py) and the gate that asks  *)
(* for the analysis (automatic_analysis_gate.py).                          *)
(*                                                                         *)
(* A step is a transaction or an exchange with Feishu or the file system;  *)
(* a loader's row is read without a lock, so reading it is a step as well. *)
(* Events arrive in any order; one that arrives again changes nothing.     *)
(* Sizes are 1; what two outcomes have in common stands for both.          *)
(***************************************************************************)
EXTENDS Naturals, FiniteSets

CONSTANTS
    Events,      \* events of the message at Feishu
    Loaders,     \* callers of download_attachments: the connector, personal syncs
    Extractors,  \* Celery workers with a document.extract task
    Quota,       \* feishu_attachment_total_quota_bytes
    MaxFaults    \* bound on crashes, refused downloads and reservations that lapse

\* analyze: the event is supported and its disposition is "analyze".
\* file: its message has an attachment, of which a message has at most one.
Event == [op : {"create", "edit", "recall"}, channel : {"local_client", "user_api", "app_event"},
          analyze : BOOLEAN, file : BOOLEAN]

ASSUME IntakeAssumption ==
    /\ Events \subseteq Event /\ IsFiniteSet(Events) /\ IsFiniteSet(Loaders)
    /\ {Quota, MaxFaults} \subseteq Nat

VARIABLES
    processed,   \* the rows of feishu_events
    message,     \* the row of feishu_messages
    attachment,  \* attachment[v]: the row of message_attachments of version v
    files,       \* versions whose attachment is in the directory of the message
    document,    \* document[v]: the row of document_extractions
    loader,      \* loader[l]: where it is in download_attachments
    reservation, \* reservation[l]: its row of storage_quota_reservations
    orphans,     \* live reservations that crashed loaders left behind
    queue,       \* attachments with a task document.extract
    extractor,   \* extractor[x]: the attachment it extracts
    request,     \* the last FeishuMessageAnalysisRequested
    requested,   \* the newest version that an event asks to analyse
    overtaken,   \* history: the gate met an event whose task had been sent
    split,       \* history: a download was stored between the two sums of another
    faults       \* faults so far

rowVars == <<processed, message, attachment, document>>
askVars == <<request, requested, overtaken>>
loadVars == <<files, loader, reservation, orphans, split>>
intakeVars == <<rowVars, askVars, loadVars, queue, extractor, faults>>

-----------------------------------------------------------------------------
Versions == 1..Cardinality(Events)

NoVersion == 0

Message == [version : Versions \cup {NoVersion}, channel : {"none", "local_client", "user_api", "app_event"},
            recalled : BOOLEAN, analyze : BOOLEAN]

NoMessage == [version |-> NoVersion, channel |-> "none", recalled |-> FALSE, analyze |-> FALSE]

\* FAILED stands for METADATA_ONLY too, which a refusal by Feishu may leave as well;
\* ENDED for SUCCEEDED, BODY_UNAVAILABLE, FAILED.
Attachment == [download : {"absent", "PENDING", "DOWNLOADING", "DOWNLOADED", "FAILED"},
               extraction : {"none", "PENDING", "EXTRACTING", "ENDED"}, authorized : BOOLEAN]

NewAttachment == [download |-> "PENDING", extraction |-> "none", authorized |-> FALSE]

NoAttachment == [NewAttachment EXCEPT !.download = "absent"]

\* ENDED as above.
Extraction == {"none", "EXTRACTING", "ENDED"}

\* lapsed: past its time; marked: EXPIRED in the open transaction of another.
Reservation == {"none", "live", "lapsed", "marked", "expired"}

\* pending: not published and not dead-lettered; sent: so too, but its task runs.
Request == {"none", "pending", "sent"}

Columns == {"download", "extraction", "authorized"}

\* todo: PENDING attachments it listed; row: the one it is at; used: the bytes in
\* use; dirty: what its open transaction will update.
Loader == [at : {"idle", "next", "mark", "fetch", "sum", "reserve", "write", "store", "save", "unwind",
                 "release", "failed", "fail", "withhold", "ready"},
           todo : SUBSET Versions, row : Versions \cup {NoVersion}, used : 0..Cardinality(Events),
           created : BOOLEAN, dirty : SUBSET (Versions \X Columns)]

IdleLoader == [at |-> "idle", todo |-> {}, row |-> NoVersion, used |-> 0, created |-> FALSE, dirty |-> {}]

IntakeInit ==
    /\ processed = {}
    /\ message = NoMessage
    /\ attachment = [v \in Versions |-> NoAttachment]
    /\ files = {}
    /\ document = [v \in Versions |-> "none"]
    /\ loader = [l \in Loaders |-> IdleLoader]
    /\ reservation = [l \in Loaders |-> "none"]
    /\ orphans = 0
    /\ queue = {}
    /\ extractor = [x \in Extractors |-> NoVersion]
    /\ request = "none"
    /\ requested = NoVersion
    /\ overtaken = FALSE
    /\ split = FALSE
    /\ faults = 0

-----------------------------------------------------------------------------
\* AutomaticAnalysisGate.request_if_allowed, for the message as it is in m.
Gate(m) ==
    IF m.recalled \/ ~m.analyze THEN UNCHANGED askVars
    ELSE IF request = "sent" THEN overtaken' = TRUE /\ UNCHANGED <<request, requested>>
    ELSE request' = "pending" /\ requested' = m.version /\ UNCHANGED overtaken

\* _is_attachment_terminal.
Terminal(a) ==
    \/ a.download \in {"absent", "FAILED"}
    \/ a.download = "DOWNLOADED" /\ a.extraction = "ENDED"

\* _request_analysis_if_ready and _request_analysis_after_download_failures, under
\* the lock attachment_analysis_ready, for the attachments as they are in rows.
RequestIfReady(rows) ==
    IF (\E v \in Versions : rows[v].download # "absent") /\ (\A v \in Versions : Terminal(rows[v]))
    THEN Gate(message) ELSE UNCHANGED askVars

\* The dispatcher sends the task of the event, then marks the event published.
SendTask ==
    /\ request = "pending"
    /\ request' = "sent"
    /\ UNCHANGED <<rowVars, requested, overtaken, loadVars, queue, extractor, faults>>

PublishRequest ==
    /\ request = "sent"
    /\ request' = "none"
    /\ UNCHANGED <<rowVars, requested, overtaken, loadVars, queue, extractor, faults>>

-----------------------------------------------------------------------------
\* IngestFeishuEventHandler.execute, under the locks of the event and the message.
Rank(channel) == CASE channel = "app_event" -> 2 [] channel = "user_api" -> 1
                   [] channel = "local_client" -> 0 [] OTHER -> 0

Stored == message.version # NoVersion

\* A create that a better channel has stored is a duplicate, a recall of an
\* unknown message leaves nothing but its event.
TakesEffect(e) ==
    IF e.op = "recall" THEN Stored
    ELSE e.op = "edit" \/ ~Stored \/ Rank(e.channel) > Rank(message.channel)

\* An edit overwrites whatever is there, a recall the mark alone.
Applied(e) ==
    IF e.op = "recall"
    THEN [message EXCEPT !.version = @ + 1, !.recalled = TRUE]
    ELSE [message EXCEPT !.version = @ + 1, !.channel = e.channel, !.analyze = e.analyze]

\* The unique key of feishu_events.
Seen(e) == e \in processed

Ingest(e) ==
    /\ ~Seen(e)
    /\ processed' = processed \cup {e}
    /\ IF TakesEffect(e)
       THEN /\ message' = Applied(e)
            /\ attachment' = IF e.file /\ e.op # "recall"
                             THEN [attachment EXCEPT ![message'.version] = NewAttachment]
                             ELSE attachment
            /\ IF e.op # "recall" /\ e.analyze /\ ~e.file
               THEN Gate(message') ELSE UNCHANGED askVars
       ELSE UNCHANGED <<message, attachment, askVars>>
    /\ UNCHANGED <<document, loadVars, queue, extractor, faults>>

\* AttachmentAuthorizationService.execute.
SetAuthorization(v) ==
    /\ attachment[v].download = "DOWNLOADED"
    /\ attachment' = [attachment EXCEPT ![v].authorized = ~@]
    /\ UNCHANGED <<processed, message, document, askVars, loadVars, queue, extractor, faults>>

-----------------------------------------------------------------------------
\* FeishuOperationsService.download_attachments.
NextFault == faults < MaxFaults /\ faults' = faults + 1

GoTo(l, at) == loader' = [loader EXCEPT ![l].at = at]

ListPending(l) ==
    /\ loader[l].at = "idle" /\ Stored
    /\ LET pending == {v \in Versions : attachment[v].download = "PENDING"} IN
       loader' = [loader EXCEPT ![l].todo = pending,
                                ![l].at = IF pending = {} THEN "ready" ELSE "next"]
    /\ UNCHANGED <<rowVars, askVars, files, reservation, orphans, split, queue, extractor, faults>>

\* What download_attachments saves: the attachment as it was listed, changed.
Saves ==
    [mark     |-> [NewAttachment EXCEPT !.download = "DOWNLOADING"],
     save     |-> [NewAttachment EXCEPT !.download = "DOWNLOADED", !.extraction = "PENDING"],
     fail     |-> [NewAttachment EXCEPT !.download = "FAILED"],
     withhold |-> [NewAttachment EXCEPT !.download = "FAILED", !.extraction = "ENDED"]]

\* save_attachment: the rows vs are read without a lock, and will be updated in
\* the columns in which what is saved differs from what was read.
Read(l, vs, at) ==
    [loader[l] EXCEPT !.at = at,
                      !.dirty = {d \in vs \X Columns : Saves[at][d[2]] # attachment[d[1]][d[2]]}]

\* The rows once the transaction of l has committed.
Updated(l) ==
    LET new == Saves[loader[l].at]
        Sets(v, c) == <<v, c>> \in loader[l].dirty IN
    [v \in Versions |->
        [download   |-> IF Sets(v, "download") THEN new.download ELSE attachment[v].download,
         extraction |-> IF Sets(v, "extraction") THEN new.extraction ELSE attachment[v].extraction,
         authorized |-> IF Sets(v, "authorized") THEN new.authorized ELSE attachment[v].authorized]]

\* The loop goes on with the next attachment, or ends.
NextAttachment(l) ==
    loader' = [loader EXCEPT ![l] = IF loader[l].todo = {} THEN [IdleLoader EXCEPT !.at = "ready"]
                                    ELSE [loader[l] EXCEPT !.at = "next", !.created = FALSE, !.dirty = {}]]

ReadRow(l) ==
    /\ \/ \E v \in loader[l].todo :
              /\ loader[l].at = "next"
              /\ loader' = [loader EXCEPT ![l] = [Read(l, {v}, "mark") EXCEPT !.row = v, !.todo = @ \ {v}]]
       \/ loader[l].at = "store" /\ loader' = [loader EXCEPT ![l] = Read(l, {loader[l].row}, "save")]
       \/ loader[l].at = "failed" /\ loader' = [loader EXCEPT ![l] = Read(l, {loader[l].row}, "fail")]
    /\ UNCHANGED <<rowVars, askVars, files, reservation, orphans, split, queue, extractor, faults>>

\* force_metadata_only_reason: the body may not be fetched by this identity.
ReadListed(l) ==
    /\ loader[l].at = "next" /\ loader[l].row = NoVersion
    /\ loader' = [loader EXCEPT ![l] = [Read(l, loader[l].todo, "withhold") EXCEPT !.todo = {}]]
    /\ UNCHANGED <<rowVars, askVars, files, reservation, orphans, split, queue, extractor, faults>>

MarkDownloading(l) ==
    /\ loader[l].at = "mark"
    /\ attachment' = Updated(l)
    /\ loader' = [loader EXCEPT ![l].at = "fetch", ![l].dirty = {}]
    /\ UNCHANGED <<processed, message, document, askVars, files, reservation, orphans, split,
                   queue, extractor, faults>>

\* One attachment, or all that were listed.
SaveFailed(l) ==
    /\ loader[l].at \in {"fail", "withhold"}
    /\ attachment' = Updated(l)
    /\ NextAttachment(l)
    /\ UNCHANGED <<processed, message, document, askVars, files, reservation, orphans, split,
                   queue, extractor, faults>>

\* _attachment_storage_usage.
Usage == Cardinality(files)

\* The body arrives, and the directory is summed up; or Feishu refuses.
Fetch(l) ==
    /\ loader[l].at = "fetch"
    /\ \/ /\ loader' = [loader EXCEPT ![l].at = "sum", ![l].used = Usage]
          /\ UNCHANGED faults
       \/ NextFault /\ GoTo(l, "failed")
    /\ UNCHANGED <<rowVars, askVars, files, reservation, orphans, split, queue, extractor>>

Downloaded == {v \in Versions : attachment[v].download = "DOWNLOADED"}

\* The lapsed reservations of others, and those marked once the transaction that
\* did it has ended: its marks are kept, or rolled back.
Marked == [k \in Loaders |-> IF reservation[k] = "lapsed" THEN "marked" ELSE reservation[k]]

Settled(to) == [k \in Loaders |-> IF reservation[k] = "marked" THEN to ELSE reservation[k]]

\* storage_quota.reserve, under its advisory lock.  It marks the lapsed
\* reservations, sums up the downloaded attachments, and then the reservations.
SumStored(l) ==
    /\ loader[l].at = "sum" /\ \A k \in Loaders : loader[k].at # "reserve"
    /\ reservation' = Marked
    /\ loader' = [loader EXCEPT ![l].at = "reserve",
                       ![l].used = IF Cardinality(Downloaded) > @ THEN Cardinality(Downloaded) ELSE @]
    /\ UNCHANGED <<rowVars, askVars, files, orphans, split, queue, extractor, faults>>

\* Mutant: what others have reserved is not counted.
ReservedMut == orphans

\* Both sums are for one "now": what lapsed since the first one counts.
Reserved == orphans + Cardinality({k \in Loaders : reservation[k] \in {"live", "lapsed"}})

Reserve(l) ==
    /\ loader[l].at = "reserve"
    /\ LET fits == loader[l].used + Reserved + 1 <= Quota IN
       /\ loader' = [loader EXCEPT ![l].at = IF fits THEN "write" ELSE "failed", ![l].used = 0]
       /\ reservation' = IF fits THEN [Settled("expired") EXCEPT ![l] = "live"] ELSE Settled("lapsed")
    /\ UNCHANGED <<rowVars, askVars, files, orphans, split, queue, extractor, faults>>

\* _write_private_file links the file into place, which fails where one is.
WriteFile(l) ==
    /\ loader[l].at = "write"
    /\ IF loader[l].row \in files
       THEN GoTo(l, "unwind") /\ UNCHANGED files
       ELSE /\ loader' = [loader EXCEPT ![l].at = "store", ![l].created = TRUE]
            /\ files' = files \cup {loader[l].row}
    /\ UNCHANGED <<rowVars, askVars, reservation, orphans, split, queue, extractor, faults>>

\* The row, the reservation and the extraction in one transaction, which waits for
\* who has marked the reservation.
StoreDownloaded(l) ==
    /\ loader[l].at = "save" /\ reservation[l] # "marked"
    /\ IF reservation[l] = "expired"
       THEN /\ loader' = [loader EXCEPT ![l].at = "unwind", ![l].dirty = {}]
            /\ UNCHANGED <<attachment, reservation, queue, split>>
       ELSE /\ attachment' = Updated(l)
            /\ reservation' = [reservation EXCEPT ![l] = "none"]
            /\ queue' = queue \cup {loader[l].row}
            /\ split' = (split \/ \E k \in Loaders : loader[k].at = "reserve")
            /\ NextAttachment(l)
    /\ UNCHANGED <<processed, message, document, askVars, files, orphans, extractor, faults>>

\* Mutant: the file is unlinked whoever created it.
UnlinkedMut(l) == files \ {loader[l].row}

Unlinked(l) == IF loader[l].created THEN files \ {loader[l].row} ELSE files

Released(l) == [reservation EXCEPT ![l] = "none"]

\* except: the file goes, then the reservation; one that has expired raises again,
\* out of download_attachments.
Unwind(l) ==
    /\ loader[l].at = "unwind"
    /\ files' = Unlinked(l)
    /\ loader' = [loader EXCEPT ![l].at = "release", ![l].created = FALSE]
    /\ UNCHANGED <<rowVars, askVars, reservation, orphans, split, queue, extractor, faults>>

Release(l) ==
    /\ loader[l].at = "release" /\ reservation[l] # "marked"
    /\ reservation' = Released(l)
    /\ loader' = IF reservation[l] = "expired" THEN [loader EXCEPT ![l] = IdleLoader]
                 ELSE [loader EXCEPT ![l].at = "failed"]
    /\ UNCHANGED <<rowVars, askVars, files, orphans, split, queue, extractor, faults>>

\* Mutant: the analysis is left to the extraction.
AfterDownloadsMut == UNCHANGED askVars

AfterDownloads == RequestIfReady(attachment)

FinishDownloads(l) ==
    /\ loader[l].at = "ready"
    /\ AfterDownloads
    /\ loader' = [loader EXCEPT ![l] = IdleLoader]
    /\ UNCHANGED <<rowVars, files, reservation, orphans, split, queue, extractor, faults>>

Lapse(l) ==
    /\ reservation[l] = "live"
    /\ NextFault
    /\ reservation' = [reservation EXCEPT ![l] = "lapsed"]
    /\ UNCHANGED <<rowVars, askVars, files, loader, orphans, split, queue, extractor>>

Crash(l) ==
    /\ loader[l].at # "idle"
    /\ NextFault
    /\ orphans' = IF reservation[l] = "live" THEN orphans + 1 ELSE orphans
    /\ reservation' = IF loader[l].at = "reserve" THEN Settled("lapsed") ELSE Released(l)
    /\ loader' = [loader EXCEPT ![l] = IdleLoader]
    /\ UNCHANGED <<rowVars, askVars, files, split, queue, extractor>>

OrphanLapses ==
    /\ orphans > 0 /\ \A l \in Loaders : loader[l].at # "reserve"
    /\ orphans' = orphans - 1
    /\ UNCHANGED <<rowVars, askVars, files, loader, reservation, split, queue, extractor, faults>>

-----------------------------------------------------------------------------
\* DocumentExtractionService.execute in the task document.extract, which stays
\* queued until it ends and may be handed to a second worker.
PrepareExtraction(x, v) ==
    /\ extractor[x] = NoVersion /\ v \in queue
    /\ IF attachment[v].download # "DOWNLOADED" \/ document[v] = "ENDED"
       THEN queue' = queue \ {v} /\ UNCHANGED <<document, attachment, extractor>>
       ELSE /\ extractor' = [extractor EXCEPT ![x] = v]
            /\ IF document[v] = "none"
               THEN /\ document' = [document EXCEPT ![v] = "EXTRACTING"]
                    /\ attachment' = [attachment EXCEPT ![v].extraction = "EXTRACTING"]
               ELSE UNCHANGED <<document, attachment>>
            /\ UNCHANGED queue
    /\ UNCHANGED <<processed, message, askVars, loadVars, faults>>

\* _complete and _fail; the second of two workers gets InvalidStateTransitionError,
\* and its retry finds the extraction ended.
EndExtraction(x) ==
    /\ extractor[x] # NoVersion
    /\ LET v == extractor[x] IN
       IF document[v] = "EXTRACTING"
       THEN /\ document' = [document EXCEPT ![v] = "ENDED"]
            /\ attachment' = [attachment EXCEPT ![v].extraction = "ENDED"]
            /\ RequestIfReady(attachment')
            /\ queue' = queue \ {v}
       ELSE UNCHANGED <<document, attachment, askVars, queue>>
    /\ extractor' = [extractor EXCEPT ![x] = NoVersion]
    /\ UNCHANGED <<processed, message, loadVars, faults>>

CrashExtractor(x) ==
    /\ extractor[x] # NoVersion
    /\ NextFault
    /\ extractor' = [extractor EXCEPT ![x] = NoVersion]
    /\ UNCHANGED <<rowVars, askVars, loadVars, queue>>

-----------------------------------------------------------------------------
LoaderNext(l) ==
    \/ ListPending(l) \/ ReadListed(l) \/ ReadRow(l) \/ MarkDownloading(l) \/ Fetch(l)
    \/ SumStored(l) \/ Reserve(l) \/ WriteFile(l) \/ StoreDownloaded(l)
    \/ Unwind(l) \/ Release(l) \/ SaveFailed(l) \/ FinishDownloads(l)
    \/ Lapse(l) \/ Crash(l)

ExtractorNext(x) ==
    EndExtraction(x) \/ CrashExtractor(x) \/ \E v \in Versions : PrepareExtraction(x, v)

IntakeNext ==
    \/ \E e \in Events : Ingest(e)
    \/ \E v \in Versions : SetAuthorization(v)
    \/ \E l \in Loaders : LoaderNext(l)
    \/ \E x \in Extractors : ExtractorNext(x)
    \/ SendTask \/ PublishRequest \/ OrphanLapses

IntakeSpec == IntakeInit /\ [][IntakeNext]_intakeVars

-----------------------------------------------------------------------------
\* Every variable stays within its type, and a reservation belongs to a loader
\* between the grant and the end of its transaction.
IntakeTypeOK ==
    /\ processed \subseteq Events
    /\ message \in Message
    /\ attachment \in [Versions -> Attachment]
    /\ files \subseteq Versions
    /\ document \in [Versions -> Extraction]
    /\ loader \in [Loaders -> Loader]
    /\ reservation \in [Loaders -> Reservation]
    /\ \A l \in Loaders :
           /\ reservation[l] # "none" => loader[l].at \in {"write", "store", "save", "unwind", "release"}
           /\ loader[l].at \in {"write", "store", "save"} => reservation[l] # "none"
    /\ orphans \in 0..MaxFaults
    /\ queue \subseteq Versions
    /\ extractor \in [Extractors -> Versions \cup {NoVersion}]
    /\ request \in Request
    /\ requested \in Versions \cup {NoVersion}
    /\ {overtaken, split} \subseteq BOOLEAN
    /\ faults \in 0..MaxFaults

\* An attachment that is recorded as downloaded, and one that the user authorized
\* for the analysis, has its file, though two loaders may be at the same attachment
\* and one of them fail and clean up.  An authorized one need not be DOWNLOADED: an
\* authorization between a loader's read and its update of the row survives it.
AuthorizedIsReadable ==
    \A v \in Versions :
        /\ attachment[v].download = "DOWNLOADED" => v \in files
        /\ attachment[v].authorized => v \in files

\* The downloaded attachments fit into the quota, whatever lapses or crashes,
\* unless one was stored between the two sums of storage_quota.reserve, which
\* the transaction that commits a reservation does not lock out.
QuotaHolds == Cardinality(Downloaded) <= Quota \/ split

\* When everybody is done with the attachments, the newest version of the
\* message has an event that asks for its analysis: of the workers that finish
\* the last attachments at once, one sees them all.  The exception is a version
\* that arrives while the task of an earlier event has been sent and the event
\* is not yet published, which the gate takes for a pending one.
RequestedWhenReady ==
    /\ faults = 0 /\ ~overtaken
    /\ \A l \in Loaders : loader[l].at = "idle"
    /\ Stored /\ ~message.recalled /\ message.analyze
    /\ \A v \in Versions : Terminal(attachment[v])
    => requested = message.version
=============================================================================
