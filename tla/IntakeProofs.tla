---------------------------- MODULE IntakeProofs ----------------------------
(***************************************************************************)
(* What a message, its attachments and their storage keep, for every       *)
(* finite set of events and of loaders and every number of extractors and  *)
(* faults.                                                                 *)
(*                                                                         *)
(* A file belongs to the one loader that has linked it into place until    *)
(* its row is stored; what is stored and reserved together fits into the   *)
(* quota; and as long as the analysis of the newest version has not been   *)
(* requested, an attachment or a loader is left that will request it.      *)
(***************************************************************************)
EXTENDS Intake, FiniteSetTheorems, TLAPS

\* Each version of the message is due to an event of its own.
VersionsAreOfEvents == message.version <= Cardinality(processed)

OrphansAreOfFaults == orphans <= faults

AtRow == {"mark", "fetch", "sum", "reserve", "write", "store", "save", "unwind", "release", "failed", "fail"}

\* A loader between the file and its row has an attachment, and has created the
\* file of the attachment only once it is there.
LoadersAreInOrder ==
    \A l \in Loaders :
        /\ loader[l].created => loader[l].at \in {"store", "save", "unwind"}
        /\ loader[l].at \in {"store", "save"} => loader[l].created
        /\ loader[l].at \in AtRow => loader[l].row \in Versions
        /\ loader[l].at = "save" => loader[l].dirty \subseteq {loader[l].row} \X Columns

\* The loader has linked the file into place, and nothing is recorded of it yet.
Creator(l) == loader[l].created

FilesHaveOneCreator ==
    /\ \A l \in Loaders : Creator(l) =>
           /\ loader[l].row \in files
           /\ attachment[loader[l].row].download # "DOWNLOADED"
           /\ ~attachment[loader[l].row].authorized
    /\ \A k, l \in Loaders : Creator(k) /\ Creator(l) /\ loader[k].row = loader[l].row => k = l

\* Those whose reservation may come to count, the marked ones by a rollback.
Holders == {k \in Loaders : reservation[k] \in {"live", "lapsed", "marked"}}

Held == orphans + Cardinality(Holders)

\* What is stored and what is reserved fit together, and who is about to reserve
\* has counted all that is stored.
QuotaIsKept ==
    split \/ /\ Cardinality(Downloaded) + Held <= Quota
             /\ \A l \in Loaders : loader[l].at = "reserve" => Cardinality(Downloaded) <= loader[l].used

\* Without a fault no reservation outlives its loader's patience.
LapsesAreFaults == faults = 0 => \A l \in Loaders : reservation[l] \in {"none", "live"}

Present(v) == attachment[v].download # "absent"

\* The analysis of the newest version was requested, or somebody will see to it.
RequestIsDue ==
    /\ faults = 0 /\ ~overtaken
    /\ Stored /\ ~message.recalled /\ message.analyze
    => \/ requested = message.version
       \/ /\ \E v \in Versions : Present(v)
          /\ \/ \E v \in Versions : ~Terminal(attachment[v])
             \/ \E l \in Loaders : loader[l].at # "idle"

IntakeInv ==
    /\ IntakeTypeOK
    /\ VersionsAreOfEvents
    /\ OrphansAreOfFaults
    /\ LoadersAreInOrder
    /\ FilesHaveOneCreator
    /\ AuthorizedIsReadable
    /\ QuotaIsKept
    /\ LapsesAreFaults
    /\ RequestIsDue

-----------------------------------------------------------------------------
USE DEF AtRow

LEMMA Numbers ==
    /\ Cardinality(Events) \in Nat /\ Versions \subseteq Nat /\ NoVersion \notin Versions
    /\ Quota \in Nat /\ MaxFaults \in Nat
    /\ \A n \in Nat : n # 0 /\ n <= Cardinality(Events) => n \in Versions
BY IntakeAssumption, FS_CardinalityType DEF Versions, NoVersion

LEMMA VersionSets ==
    ASSUME NEW S \in SUBSET Versions
    PROVE  /\ IsFiniteSet(S) /\ Cardinality(S) \in Nat
           /\ Cardinality(S) \in 0..Cardinality(Events)
<1>1. IsFiniteSet(Versions) /\ Cardinality(Versions) = Cardinality(Events)
  <2>1. Versions = 1..Cardinality(Events) /\ 1 \in Int /\ Cardinality(Events) \in Nat
    BY Numbers DEF Versions
  <2>2. /\ IsFiniteSet(1..Cardinality(Events))
        /\ Cardinality(1..Cardinality(Events)) =
             IF 1 > Cardinality(Events) THEN 0 ELSE Cardinality(Events) - 1 + 1
    BY <2>1, FS_Interval
  <2> QED
    BY <2>1, <2>2
<1>2. IsFiniteSet(S) /\ Cardinality(S) <= Cardinality(Versions)
  BY <1>1, FS_Subset
<1>3. Cardinality(S) \in Nat
  BY <1>2, FS_CardinalityType
<1> QED
  BY <1>1, <1>2, <1>3, Numbers

LEMMA LoaderSets ==
    ASSUME NEW S \in SUBSET Loaders
    PROVE  /\ IsFiniteSet(S) /\ Cardinality(S) \in Nat
           /\ \A T \in SUBSET S : Cardinality(T) <= Cardinality(S)
           /\ \A l \in Loaders : /\ Cardinality(S \cup {l}) <= Cardinality(S) + 1
                                 /\ l \in S => Cardinality(S \ {l}) = Cardinality(S) - 1
<1>1. IsFiniteSet(S)
  BY IntakeAssumption, FS_Subset
<1>2. \A l \in Loaders : /\ Cardinality(S \cup {l}) <= Cardinality(S) + 1
                         /\ l \in S => Cardinality(S \ {l}) = Cardinality(S) - 1
  <2>1. Cardinality(S) \in Nat
    BY <1>1, FS_CardinalityType
  <2>2. ASSUME NEW l \in Loaders PROVE Cardinality(S \cup {l}) <= Cardinality(S) + 1
    <3>1. Cardinality(S \cup {l}) = IF l \in S THEN Cardinality(S) ELSE Cardinality(S) + 1
      BY <1>1, FS_AddElement
    <3> QED
      BY <2>1, <3>1
  <2>3. ASSUME NEW l \in S PROVE Cardinality(S \ {l}) = Cardinality(S) - 1
    BY <1>1, FS_RemoveElement
  <2> QED
    BY <2>2, <2>3
<1> QED
  BY <1>1, <1>2, FS_CardinalityType, FS_Subset

-----------------------------------------------------------------------------
\* The types, by who writes.
RowsTyped ==
    /\ processed \subseteq Events /\ message \in Message
    /\ attachment \in [Versions -> Attachment] /\ document \in [Versions -> Extraction]

AskTyped ==
    /\ request \in Request /\ requested \in Versions \cup {NoVersion} /\ overtaken \in BOOLEAN

Granted ==
    \A l \in Loaders :
        /\ reservation[l] # "none" => loader[l].at \in {"write", "store", "save", "unwind", "release"}
        /\ loader[l].at \in {"write", "store", "save"} => reservation[l] # "none"

LoadTyped ==
    /\ files \subseteq Versions /\ loader \in [Loaders -> Loader]
    /\ reservation \in [Loaders -> Reservation] /\ Granted
    /\ orphans \in 0..MaxFaults /\ split \in BOOLEAN

WorkTyped ==
    /\ queue \subseteq Versions /\ extractor \in [Extractors -> Versions \cup {NoVersion}]
    /\ faults \in 0..MaxFaults

LEMMA TypeParts == IntakeTypeOK <=> RowsTyped /\ AskTyped /\ LoadTyped /\ WorkTyped
BY DEF IntakeTypeOK, RowsTyped, AskTyped, LoadTyped, WorkTyped, Granted

LEMMA TypesOf ==
    ASSUME IntakeInv
    PROVE  RowsTyped /\ AskTyped /\ LoadTyped /\ WorkTyped
BY TypeParts DEF IntakeInv

LEMMA AttachmentIs ==
    ASSUME NEW a \in Attachment
    PROVE  /\ a.download \in {"absent", "PENDING", "DOWNLOADING", "DOWNLOADED", "FAILED"}
           /\ a.extraction \in {"none", "PENDING", "EXTRACTING", "ENDED"} /\ a.authorized \in BOOLEAN
BY DEF Attachment

LEMMA DownloadedIs ==
    ASSUME RowsTyped
    PROVE  /\ Downloaded \subseteq Versions /\ Cardinality(Downloaded) \in Nat
           /\ Cardinality(Downloaded) \in 0..Cardinality(Events)
BY VersionSets DEF Downloaded

LEMMA HeldIs ==
    ASSUME LoadTyped
    PROVE  /\ Holders \subseteq Loaders /\ Cardinality(Holders) \in Nat
           /\ orphans \in Nat /\ Held = orphans + Cardinality(Holders) /\ Held \in Nat
<1>1. Holders \subseteq Loaders /\ Cardinality(Holders) \in Nat
  BY LoaderSets DEF Holders
<1> QED
  BY <1>1, Numbers DEF LoadTyped, Held

-----------------------------------------------------------------------------
\* What a step keeps of each part, when it does little.
LEMMA NoNewCreator ==
    ASSUME FilesHaveOneCreator,
           \A k \in Loaders : loader'[k].created =>
               /\ Creator(k)
               /\ loader'[k].row = loader[k].row
               /\ loader[k].row \in files => loader[k].row \in files'
               /\ attachment'[loader[k].row].download = "DOWNLOADED" =>
                      attachment[loader[k].row].download = "DOWNLOADED"
               /\ attachment'[loader[k].row].authorized => attachment[loader[k].row].authorized
    PROVE  FilesHaveOneCreator'
BY DEF FilesHaveOneCreator, Creator

LEMMA QuotaSame ==
    ASSUME RowsTyped, LoadTyped, QuotaIsKept, RowsTyped', LoadTyped',
           Downloaded' \subseteq Downloaded, Holders' \subseteq Holders, orphans' <= orphans,
           split => split',
           \A k \in Loaders : loader'[k].at = "reserve" =>
               loader[k].at = "reserve" /\ loader'[k].used = loader[k].used
    PROVE  QuotaIsKept'
<1>1. /\ Downloaded \subseteq Versions /\ Cardinality(Downloaded) \in Nat
      /\ Cardinality(Downloaded') \in Nat /\ Cardinality(Downloaded') <= Cardinality(Downloaded)
  <2>1. IsFiniteSet(Downloaded) /\ Cardinality(Downloaded) \in Nat /\ Downloaded \subseteq Versions
    BY DownloadedIs, VersionSets
  <2> QED
    BY <2>1, FS_Subset, FS_CardinalityType
<1>2. Cardinality(Holders') <= Cardinality(Holders)
  BY HeldIs, LoaderSets
<1>3. /\ Cardinality(Holders) \in Nat /\ orphans \in Nat /\ Held = orphans + Cardinality(Holders)
      /\ Cardinality(Holders') \in Nat /\ orphans' \in Nat
      /\ Held' = orphans' + Cardinality(Holders')
  <2>1. Cardinality(Holders) \in Nat /\ orphans \in Nat /\ Held = orphans + Cardinality(Holders)
    BY HeldIs
  <2>2. Cardinality(Holders') \in Nat
    BY <2>1, LoaderSets DEF Holders
  <2> QED
    BY <2>1, <2>2, Numbers DEF LoadTyped, Held
<1>4. \A k \in Loaders : loader[k].used \in Nat
  BY Numbers DEF LoadTyped, Loader
<1> QED
  BY <1>1, <1>2, <1>3, <1>4, Numbers DEF QuotaIsKept

\* Somebody is left who will ask for the analysis.
LEMMA DueStill ==
    ASSUME RequestIsDue, UNCHANGED message, UNCHANGED askVars, faults' = 0 => faults = 0,
           \A v \in Versions : Present(v) => attachment'[v].download # "absent",
           \/ \E l \in Loaders : loader'[l].at # "idle"
           \/ /\ UNCHANGED loader
              /\ \A v \in Versions : Terminal(attachment'[v]) => Terminal(attachment[v])
    PROVE  RequestIsDue'
BY DEF RequestIsDue, askVars, Present, Stored

-----------------------------------------------------------------------------
\* A loader gets to x and nothing else changes but, perhaps, the attachments, of
\* which none becomes downloaded.
LoaderMoves(l, x) ==
    /\ x \in Loader
    /\ loader' = [loader EXCEPT ![l] = x]
    /\ x.created => x.at \in {"store", "save", "unwind"}
    /\ x.at \in {"store", "save"} => x.created
    /\ x.at \in AtRow => x.row \in Versions
    /\ x.at = "save" => x.dirty \subseteq {x.row} \X Columns

LEMMA MovedIs ==
    ASSUME loader \in [Loaders -> Loader], LoadersAreInOrder, NEW l \in Loaders, NEW x,
           LoaderMoves(l, x)
    PROVE  /\ loader' \in [Loaders -> Loader] /\ loader'[l] = x
           /\ \A k \in Loaders \ {l} : loader'[k] = loader[k]
           /\ LoadersAreInOrder'
<1>1. /\ loader' \in [Loaders -> Loader] /\ loader'[l] = x
      /\ \A k \in Loaders \ {l} : loader'[k] = loader[k]
  BY DEF LoaderMoves
<1> QED
  BY <1>1 DEF LoadersAreInOrder, LoaderMoves

\* What is left of the attachments.
AttachmentsStay ==
    /\ RowsTyped'
    /\ UNCHANGED processed /\ UNCHANGED message
    /\ \A v \in Versions :
           /\ attachment'[v].download = "DOWNLOADED" => attachment[v].download = "DOWNLOADED"
           /\ attachment'[v].authorized => attachment[v].authorized
           /\ Present(v) => attachment'[v].download # "absent"

LEMMA LoaderStepKeeps ==
    ASSUME IntakeInv, NEW l \in Loaders, NEW x, LoaderMoves(l, x), AttachmentsStay,
           UNCHANGED files, UNCHANGED reservation, UNCHANGED orphans, UNCHANGED split, UNCHANGED queue,
           UNCHANGED extractor, UNCHANGED askVars,
           UNCHANGED faults \/ NextFault,
           reservation[l] # "none" => x.at \in {"save", "unwind"},
           x.at = "save" => reservation[l] # "none",
           x.at \notin {"idle", "reserve", "write", "store"},
           x.created => Creator(l) /\ x.row = loader[l].row
    PROVE  IntakeInv'
<1>1. RowsTyped /\ AskTyped /\ LoadTyped /\ WorkTyped
  BY TypesOf
<1>2. /\ loader' \in [Loaders -> Loader] /\ loader'[l] = x
      /\ \A k \in Loaders \ {l} : loader'[k] = loader[k]
      /\ LoadersAreInOrder'
  BY <1>1, MovedIs DEF IntakeInv, LoadTyped
<1>3. faults' \in 0..MaxFaults /\ faults <= faults' /\ (faults' = 0 => faults = 0)
  BY <1>1, Numbers DEF NextFault, WorkTyped
<1>4. AskTyped' /\ LoadTyped' /\ WorkTyped' /\ RowsTyped'
  BY <1>1, <1>2, <1>3 DEF AskTyped, askVars, LoadTyped, Granted, WorkTyped, AttachmentsStay
<1>5. IntakeTypeOK'
  BY <1>4 DEF IntakeTypeOK, RowsTyped, AskTyped, LoadTyped, WorkTyped, Granted
<1>6. VersionsAreOfEvents' /\ OrphansAreOfFaults' /\ LapsesAreFaults'
  BY <1>1, <1>3, Numbers
     DEF IntakeInv, VersionsAreOfEvents, OrphansAreOfFaults, LapsesAreFaults, AttachmentsStay,
         LoadTyped, WorkTyped
<1>7. FilesHaveOneCreator'
  <2>1. \A k \in Loaders : loader'[k].created =>
            Creator(k) /\ loader'[k].row = loader[k].row
    BY <1>2 DEF Creator
  <2>2. \A k \in Loaders : Creator(k) => loader[k].row \in Versions
    BY DEF IntakeInv, LoadersAreInOrder, Creator
  <2> QED
    BY <2>1, <2>2, NoNewCreator DEF IntakeInv, AttachmentsStay
<1>8. AuthorizedIsReadable'
  BY DEF IntakeInv, AuthorizedIsReadable, AttachmentsStay
<1>9. QuotaIsKept'
  <2>1. Downloaded' \subseteq Downloaded
    BY DEF Downloaded, AttachmentsStay
  <2>2. Holders' \subseteq Holders
    BY DEF Holders
  <2>3. orphans' <= orphans
    BY <1>1, Numbers DEF LoadTyped
  <2>4. \A k \in Loaders : loader'[k].at = "reserve" =>
            loader[k].at = "reserve" /\ loader'[k].used = loader[k].used
    BY <1>2
  <2> QED
    BY <1>1, <1>4, <2>1, <2>2, <2>3, <2>4, QuotaSame DEF IntakeInv
<1>10. RequestIsDue'
  <2>1. \E k \in Loaders : loader'[k].at # "idle"
    BY <1>2
  <2> QED
    BY <1>3, <2>1, DueStill DEF IntakeInv, AttachmentsStay
<1> QED
  BY <1>2, <1>5, <1>6, <1>7, <1>8, <1>9, <1>10 DEF IntakeInv

LEMMA AttachmentsSame ==
    ASSUME IntakeInv, UNCHANGED processed, UNCHANGED message, UNCHANGED attachment, UNCHANGED document
    PROVE  AttachmentsStay
BY TypesOf DEF AttachmentsStay, RowsTyped, IntakeInv, AuthorizedIsReadable, Present

LEMMA LoaderIs ==
    ASSUME IntakeInv, NEW l \in Loaders
    PROVE  /\ loader[l] \in Loader /\ loader[l].todo \subseteq Versions
           /\ loader[l].row \in Versions \cup {NoVersion} /\ loader[l].created \in BOOLEAN
           /\ loader[l].used \in 0..Cardinality(Events) /\ loader \in [Loaders -> Loader]
BY TypesOf DEF LoadTyped, Loader

LEMMA ListPendingKeeps ==
    ASSUME IntakeInv, NEW l \in Loaders, ListPending(l)
    PROVE  IntakeInv'
<1> DEFINE pending == {v \in Versions : attachment[v].download = "PENDING"}
           where == IF pending = {} THEN "ready" ELSE "next"
           x == [loader[l] EXCEPT !.todo = pending, !.at = where]
<1>1. /\ loader[l].at = "idle"
      /\ UNCHANGED processed /\ UNCHANGED message /\ UNCHANGED attachment /\ UNCHANGED document
      /\ UNCHANGED files /\ UNCHANGED reservation /\ UNCHANGED orphans /\ UNCHANGED split
      /\ UNCHANGED queue /\ UNCHANGED extractor /\ UNCHANGED askVars /\ UNCHANGED faults
  BY DEF ListPending, rowVars
<1>2. loader' = [loader EXCEPT ![l] = x]
  BY LoaderIs DEF ListPending
<1>3. pending \subseteq Versions /\ where \in {"ready", "next"}
  OBVIOUS
<1> HIDE DEF pending, where
<1>4. x \in Loader /\ x.at = where /\ x.created = loader[l].created
  <2>1. loader[l] \in Loader
    BY LoaderIs
  <2>2. x.at = where /\ x.created = loader[l].created
    BY <2>1 DEF Loader
  <2>3. x \in Loader
    BY <1>3, <2>1 DEF Loader
  <2> QED
    BY <2>2, <2>3
<1> HIDE DEF x
<1>5. ~loader[l].created /\ reservation[l] = "none"
  BY <1>1, TypesOf DEF IntakeInv, LoadersAreInOrder, LoadTyped, Granted
<1>6. LoaderMoves(l, x)
  BY <1>2, <1>3, <1>4, <1>5 DEF LoaderMoves
<1>7. AttachmentsStay
  BY <1>1, AttachmentsSame
<1> QED
  BY <1>1, <1>3, <1>4, <1>5, <1>6, <1>7, LoaderStepKeeps

LEMMA FetchKeeps ==
    ASSUME IntakeInv, NEW l \in Loaders, Fetch(l)
    PROVE  IntakeInv'
<1> DEFINE x == [loader[l] EXCEPT !.at = "sum", !.used = Usage]
           y == [loader[l] EXCEPT !.at = "failed"]
<1>1. /\ loader[l].at = "fetch"
      /\ UNCHANGED processed /\ UNCHANGED message /\ UNCHANGED attachment /\ UNCHANGED document
      /\ UNCHANGED files /\ UNCHANGED reservation /\ UNCHANGED orphans /\ UNCHANGED split
      /\ UNCHANGED queue /\ UNCHANGED extractor /\ UNCHANGED askVars
      /\ UNCHANGED faults \/ NextFault
  BY DEF Fetch, rowVars
<1>2. loader' = [loader EXCEPT ![l] = x] \/ loader' = [loader EXCEPT ![l] = y]
  BY LoaderIs DEF Fetch, GoTo
<1>3. Usage \in 0..Cardinality(Events)
  BY TypesOf, VersionSets DEF Usage, LoadTyped
<1>4. /\ x \in Loader /\ x.at = "sum" /\ x.created = loader[l].created /\ x.row = loader[l].row
      /\ y \in Loader /\ y.at = "failed" /\ y.created = loader[l].created /\ y.row = loader[l].row
  <2>1. loader[l] \in Loader
    BY LoaderIs
  <2>2. x \in Loader /\ y \in Loader
    BY <1>3, <2>1 DEF Loader
  <2>3. /\ x.at = "sum" /\ x.created = loader[l].created /\ x.row = loader[l].row
        /\ y.at = "failed" /\ y.created = loader[l].created /\ y.row = loader[l].row
    BY <2>1 DEF Loader
  <2> QED
    BY <2>2, <2>3
<1> HIDE DEF x, y
<1>5. ~loader[l].created /\ reservation[l] = "none" /\ loader[l].row \in Versions
  BY <1>1, TypesOf DEF IntakeInv, LoadersAreInOrder, LoadTyped, Granted
<1>6. LoaderMoves(l, x) \/ LoaderMoves(l, y)
  BY <1>2, <1>4, <1>5 DEF LoaderMoves
<1>7. AttachmentsStay
  BY <1>1, AttachmentsSame
<1> QED
  BY <1>1, <1>4, <1>5, <1>6, <1>7, LoaderStepKeeps

-----------------------------------------------------------------------------
\* What a loader saves.
LEMMA SavesAre ==
    /\ Saves["mark"] \in Attachment /\ Saves["mark"].download = "DOWNLOADING"
    /\ Saves["save"] \in Attachment /\ Saves["save"].download = "DOWNLOADED"
    /\ Saves["fail"] \in Attachment /\ Saves["fail"].download = "FAILED"
    /\ Saves["withhold"] \in Attachment /\ Saves["withhold"].download = "FAILED"
    /\ \A at \in {"mark", "save", "fail", "withhold"} : ~Saves[at].authorized
<1> DEFINE m == [NewAttachment EXCEPT !.download = "DOWNLOADING"]
           d == [NewAttachment EXCEPT !.download = "DOWNLOADED", !.extraction = "PENDING"]
           f == [NewAttachment EXCEPT !.download = "FAILED"]
           w == [NewAttachment EXCEPT !.download = "FAILED", !.extraction = "ENDED"]
<1>1. /\ m \in Attachment /\ m.download = "DOWNLOADING" /\ ~m.authorized
      /\ d \in Attachment /\ d.download = "DOWNLOADED" /\ ~d.authorized
      /\ f \in Attachment /\ f.download = "FAILED" /\ ~f.authorized
      /\ w \in Attachment /\ w.download = "FAILED" /\ ~w.authorized
  BY DEF NewAttachment, Attachment
<1>2. Saves = [mark |-> m, save |-> d, fail |-> f, withhold |-> w]
  BY DEF Saves
<1> HIDE DEF m, d, f, w
<1>3. Saves["mark"] = m /\ Saves["save"] = d /\ Saves["fail"] = f /\ Saves["withhold"] = w
  BY <1>2
<1> QED
  BY <1>1, <1>3

\* Each column is the one in the row or the one that is saved.
LEMMA UpdatedIs ==
    ASSUME IntakeInv, NEW l \in Loaders, loader[l].at \in {"mark", "save", "fail", "withhold"}
    PROVE  /\ Updated(l) \in [Versions -> Attachment]
           /\ \A v \in Versions :
                  /\ Updated(l)[v].download \in {attachment[v].download, Saves[loader[l].at].download}
                  /\ <<v, "download">> \notin loader[l].dirty =>
                         Updated(l)[v].download = attachment[v].download
                  /\ Updated(l)[v].authorized => attachment[v].authorized
<1> DEFINE new == Saves[loader[l].at]
           d(v) == IF <<v, "download">> \in loader[l].dirty THEN new.download ELSE attachment[v].download
           x(v) == IF <<v, "extraction">> \in loader[l].dirty THEN new.extraction
                   ELSE attachment[v].extraction
           u(v) == IF <<v, "authorized">> \in loader[l].dirty THEN new.authorized
                   ELSE attachment[v].authorized
<1>1. Updated(l) = [v \in Versions |-> [download |-> d(v), extraction |-> x(v), authorized |-> u(v)]]
  BY DEF Updated
<1>2. new \in Attachment /\ ~new.authorized
  BY SavesAre
<1>3. \A v \in Versions : attachment[v] \in Attachment
  BY TypesOf DEF RowsTyped
<1> HIDE DEF new
<1>4. ASSUME NEW v \in Versions
      PROVE  /\ [download |-> d(v), extraction |-> x(v), authorized |-> u(v)] \in Attachment
             /\ d(v) \in {attachment[v].download, new.download}
             /\ u(v) => attachment[v].authorized
  <2>1. /\ d(v) \in {attachment[v].download, new.download}
        /\ x(v) \in {attachment[v].extraction, new.extraction}
        /\ u(v) \in {attachment[v].authorized, new.authorized}
        /\ u(v) => attachment[v].authorized
    BY <1>2
  <2> HIDE DEF d, x, u
  <2>2. /\ d(v) \in {"absent", "PENDING", "DOWNLOADING", "DOWNLOADED", "FAILED"}
        /\ x(v) \in {"none", "PENDING", "EXTRACTING", "ENDED"} /\ u(v) \in BOOLEAN
    BY <1>2, <1>3, <2>1, AttachmentIs
  <2> QED
    BY <2>1, <2>2 DEF Attachment
<1>5. \A v \in Versions : <<v, "download">> \notin loader[l].dirty => d(v) = attachment[v].download
  OBVIOUS
<1> HIDE DEF d, x, u
<1> QED
  BY <1>1, <1>4, <1>5 DEF new

\* A loader that does not record a download saves what it has.
LEMMA Overwritten ==
    ASSUME IntakeInv, NEW l \in Loaders, loader[l].at \in {"mark", "fail", "withhold"},
           UNCHANGED processed, UNCHANGED message, UNCHANGED document, attachment' = Updated(l)
    PROVE  AttachmentsStay
<1>1. /\ attachment' \in [Versions -> Attachment]
      /\ \A v \in Versions :
             /\ attachment'[v].download \in {attachment[v].download, Saves[loader[l].at].download}
             /\ attachment'[v].authorized => attachment[v].authorized
  BY UpdatedIs
<1>2. Saves[loader[l].at].download \in {"DOWNLOADING", "FAILED"}
  BY SavesAre
<1>3. RowsTyped'
  BY <1>1, TypesOf DEF RowsTyped
<1> QED
  BY <1>1, <1>2, <1>3 DEF AttachmentsStay, Present

LEMMA ReadIs ==
    ASSUME IntakeInv, NEW l \in Loaders, NEW vs \in SUBSET Versions,
           NEW at \in {"mark", "save", "fail", "withhold"}
    PROVE  /\ Read(l, vs, at) \in Loader /\ Read(l, vs, at).at = at
           /\ Read(l, vs, at).created = loader[l].created /\ Read(l, vs, at).row = loader[l].row
           /\ Read(l, vs, at).dirty \subseteq vs \X Columns
<1> DEFINE D == {d \in vs \X Columns : Saves[at][d[2]] # attachment[d[1]][d[2]]}
<1>1. Read(l, vs, at) = [loader[l] EXCEPT !.at = at, !.dirty = D]
  BY DEF Read
<1>2. D \subseteq Versions \X Columns /\ D \subseteq vs \X Columns
  OBVIOUS
<1> HIDE DEF D
<1> DEFINE x == [loader[l] EXCEPT !.at = at, !.dirty = D]
<1>3. loader[l] \in Loader
  BY LoaderIs
<1>4. x.at = at /\ x.created = loader[l].created /\ x.row = loader[l].row /\ x.dirty = D
  BY <1>3 DEF Loader
<1>5. x \in Loader
  BY <1>2, <1>3 DEF Loader
<1> HIDE DEF x
<1>6. Read(l, vs, at) = x
  BY <1>1 DEF x
<1> QED
  BY <1>2, <1>4, <1>5, <1>6

LEMMA ReadRowKeeps ==
    ASSUME IntakeInv, NEW l \in Loaders, ReadRow(l)
    PROVE  IntakeInv'
<1>1. /\ UNCHANGED processed /\ UNCHANGED message /\ UNCHANGED attachment /\ UNCHANGED document
      /\ UNCHANGED files /\ UNCHANGED reservation /\ UNCHANGED orphans /\ UNCHANGED split
      /\ UNCHANGED queue /\ UNCHANGED extractor /\ UNCHANGED askVars /\ UNCHANGED faults
  BY DEF ReadRow, rowVars
<1>2. AttachmentsStay
  BY <1>1, AttachmentsSame
<1>3. LoadTyped
  BY TypesOf
<1>4. ASSUME NEW v \in loader[l].todo, loader[l].at = "next",
             loader' = [loader EXCEPT ![l] =
                           [Read(l, {v}, "mark") EXCEPT !.row = v, !.todo = Read(l, {v}, "mark").todo \ {v}]]
      PROVE  IntakeInv'
  <2> DEFINE r == Read(l, {v}, "mark")
             x == [r EXCEPT !.row = v, !.todo = r.todo \ {v}]
  <2>1. v \in Versions /\ ~loader[l].created /\ reservation[l] = "none"
    BY <1>3, <1>4, LoaderIs DEF IntakeInv, LoadersAreInOrder, LoadTyped, Granted
  <2>2. r \in Loader /\ r.at = "mark" /\ r.created = loader[l].created
    BY <2>1, ReadIs
  <2> HIDE DEF r
  <2>3. x \in Loader /\ x.at = "mark" /\ x.row = v /\ ~x.created
    BY <2>1, <2>2 DEF Loader
  <2>4. loader' = [loader EXCEPT ![l] = x]
    BY <1>4 DEF r
  <2> HIDE DEF x
  <2>5. LoaderMoves(l, x)
    BY <2>1, <2>3, <2>4 DEF LoaderMoves
  <2> QED
    BY <1>1, <1>2, <2>1, <2>3, <2>5, LoaderStepKeeps
<1>5. ASSUME NEW at \in {"save", "fail"},
             loader[l].at = IF at = "save" THEN "store" ELSE "failed",
             loader' = [loader EXCEPT ![l] = Read(l, {loader[l].row}, at)]
      PROVE  IntakeInv'
  <2> DEFINE x == Read(l, {loader[l].row}, at)
  <2>1. /\ loader[l].row \in Versions
        /\ at = "save" <=> loader[l].created
        /\ at = "save" <=> reservation[l] # "none"
    BY <1>3, <1>5 DEF IntakeInv, LoadersAreInOrder, LoadTyped, Granted
  <2>2. /\ x \in Loader /\ x.at = at /\ x.created = loader[l].created /\ x.row = loader[l].row
        /\ x.dirty \subseteq {x.row} \X Columns
    <3>1. {loader[l].row} \in SUBSET Versions /\ at \in {"mark", "save", "fail", "withhold"}
      BY <2>1
    <3>2. /\ x \in Loader /\ x.at = at /\ x.created = loader[l].created /\ x.row = loader[l].row
          /\ x.dirty \subseteq {loader[l].row} \X Columns
      BY <3>1, ReadIs
    <3> QED
      BY <3>2
  <2> HIDE DEF x
  <2>3. LoaderMoves(l, x)
    BY <1>5, <2>1, <2>2 DEF LoaderMoves, x
  <2>4. x.created => Creator(l) /\ x.row = loader[l].row
    BY <2>2 DEF Creator
  <2> QED
    BY <1>1, <1>2, <2>1, <2>2, <2>3, <2>4, LoaderStepKeeps
<1> QED
  BY <1>4, <1>5 DEF ReadRow

LEMMA ReadListedKeeps ==
    ASSUME IntakeInv, NEW l \in Loaders, ReadListed(l)
    PROVE  IntakeInv'
<1> DEFINE r == Read(l, loader[l].todo, "withhold")
           x == [r EXCEPT !.todo = {}]
<1>1. /\ loader[l].at = "next" /\ loader' = [loader EXCEPT ![l] = x]
      /\ UNCHANGED processed /\ UNCHANGED message /\ UNCHANGED attachment /\ UNCHANGED document
      /\ UNCHANGED files /\ UNCHANGED reservation /\ UNCHANGED orphans /\ UNCHANGED split
      /\ UNCHANGED queue /\ UNCHANGED extractor /\ UNCHANGED askVars /\ UNCHANGED faults
  BY DEF ReadListed, rowVars
<1>2. AttachmentsStay
  BY <1>1, AttachmentsSame
<1>3. ~loader[l].created /\ reservation[l] = "none" /\ loader[l].todo \in SUBSET Versions
  BY <1>1, TypesOf, LoaderIs DEF IntakeInv, LoadersAreInOrder, LoadTyped, Granted
<1>4. r \in Loader /\ r.at = "withhold" /\ r.created = loader[l].created
  BY <1>3, ReadIs
<1> HIDE DEF r
<1>5. x \in Loader /\ x.at = "withhold" /\ ~x.created
  BY <1>3, <1>4 DEF Loader
<1> HIDE DEF x
<1>6. LoaderMoves(l, x)
  BY <1>1, <1>5 DEF LoaderMoves
<1> QED
  BY <1>1, <1>2, <1>3, <1>5, <1>6, LoaderStepKeeps

LEMMA MarkDownloadingKeeps ==
    ASSUME IntakeInv, NEW l \in Loaders, MarkDownloading(l)
    PROVE  IntakeInv'
<1> DEFINE x == [loader[l] EXCEPT !.at = "fetch", !.dirty = {}]
<1>1. /\ loader[l].at = "mark" /\ attachment' = Updated(l)
      /\ UNCHANGED processed /\ UNCHANGED message /\ UNCHANGED document
      /\ UNCHANGED files /\ UNCHANGED reservation /\ UNCHANGED orphans /\ UNCHANGED split
      /\ UNCHANGED queue /\ UNCHANGED extractor /\ UNCHANGED askVars /\ UNCHANGED faults
  BY DEF MarkDownloading
<1>2. loader' = [loader EXCEPT ![l] = x]
  BY LoaderIs DEF MarkDownloading
<1>3. x \in Loader /\ x.at = "fetch" /\ x.created = loader[l].created /\ x.row = loader[l].row
  BY LoaderIs DEF Loader
<1> HIDE DEF x
<1>4. AttachmentsStay
  BY <1>1, Overwritten
<1>5. ~loader[l].created /\ reservation[l] = "none" /\ loader[l].row \in Versions
  BY <1>1, TypesOf DEF IntakeInv, LoadersAreInOrder, LoadTyped, Granted
<1>6. LoaderMoves(l, x)
  BY <1>2, <1>3, <1>5 DEF LoaderMoves
<1> QED
  BY <1>1, <1>3, <1>4, <1>5, <1>6, LoaderStepKeeps

LEMMA IdleIs ==
    /\ IdleLoader \in Loader /\ IdleLoader.at = "idle" /\ IdleLoader.created = FALSE
    /\ [IdleLoader EXCEPT !.at = "ready"] \in Loader
    /\ [IdleLoader EXCEPT !.at = "ready"].at = "ready"
    /\ [IdleLoader EXCEPT !.at = "ready"].created = FALSE
<1>1. 0 \in 0..Cardinality(Events)
  BY Numbers
<1> QED
  BY <1>1 DEF IdleLoader, Loader

\* The record of a loader that goes on with the next attachment.
LEMMA NextAttachmentIs ==
    ASSUME IntakeInv, NEW l \in Loaders, NextAttachment(l)
    PROVE  \E x \in Loader :
               /\ loader' = [loader EXCEPT ![l] = x]
               /\ x.at \in {"ready", "next"} /\ ~x.created
<1> DEFINE x == [IdleLoader EXCEPT !.at = "ready"]
           y == [loader[l] EXCEPT !.at = "next", !.created = FALSE, !.dirty = {}]
<1>1. \/ loader' = [loader EXCEPT ![l] = x]
      \/ loader' = [loader EXCEPT ![l] = y]
  BY DEF NextAttachment
<1>2. y \in Loader /\ y.at = "next" /\ y.created = FALSE
  <2>1. loader[l] \in Loader
    BY LoaderIs
  <2>2. y.at = "next" /\ y.created = FALSE
    BY <2>1 DEF Loader
  <2>3. y \in Loader
    BY <2>1 DEF Loader
  <2> QED
    BY <2>2, <2>3
<1>3. x \in Loader /\ x.at = "ready" /\ x.created = FALSE
  BY IdleIs
<1> HIDE DEF x, y
<1> QED
  BY <1>1, <1>2, <1>3

LEMMA SaveFailedKeeps ==
    ASSUME IntakeInv, NEW l \in Loaders, SaveFailed(l)
    PROVE  IntakeInv'
<1>1. /\ loader[l].at \in {"fail", "withhold"} /\ attachment' = Updated(l)
      /\ UNCHANGED processed /\ UNCHANGED message /\ UNCHANGED document
      /\ UNCHANGED files /\ UNCHANGED reservation /\ UNCHANGED orphans /\ UNCHANGED split
      /\ UNCHANGED queue /\ UNCHANGED extractor /\ UNCHANGED askVars /\ UNCHANGED faults
  BY DEF SaveFailed
<1>2. PICK x \in Loader : /\ loader' = [loader EXCEPT ![l] = x]
                          /\ x.at \in {"ready", "next"} /\ ~x.created
  BY NextAttachmentIs DEF SaveFailed
<1>3. reservation[l] = "none"
  BY <1>1, TypesOf DEF LoadTyped, Granted
<1>4. AttachmentsStay
  BY <1>1, Overwritten
<1>5. LoaderMoves(l, x)
  BY <1>2 DEF LoaderMoves
<1> QED
  BY <1>1, <1>2, <1>3, <1>4, <1>5, LoaderStepKeeps

-----------------------------------------------------------------------------
\* A loader takes a step that leaves the rows alone.
RowsSame ==
    /\ UNCHANGED processed /\ UNCHANGED message /\ UNCHANGED attachment /\ UNCHANGED document
    /\ UNCHANGED askVars /\ UNCHANGED queue /\ UNCHANGED extractor

LEMMA FileStepKeeps ==
    ASSUME IntakeInv, RowsSame, LoadTyped', faults' \in 0..MaxFaults, faults' = 0 => faults = 0,
           LoadersAreInOrder', OrphansAreOfFaults', FilesHaveOneCreator', AuthorizedIsReadable',
           QuotaIsKept', LapsesAreFaults',
           faults' # 0 \/ UNCHANGED loader \/ \E l \in Loaders : loader'[l].at # "idle"
    PROVE  IntakeInv'
<1>1. RowsTyped /\ AskTyped /\ LoadTyped /\ WorkTyped
  BY TypesOf
<1>2. IntakeTypeOK'
  BY <1>1 DEF IntakeTypeOK, RowsTyped, AskTyped, LoadTyped, WorkTyped, Granted, RowsSame, askVars
<1>3. VersionsAreOfEvents'
  BY DEF IntakeInv, VersionsAreOfEvents, RowsSame
<1>4. RequestIsDue'
  BY DueStill DEF IntakeInv, RowsSame, RequestIsDue, Present
<1> QED
  BY <1>2, <1>3, <1>4 DEF IntakeInv

LEMMA SumStoredKeeps ==
    ASSUME IntakeInv, NEW l \in Loaders, SumStored(l)
    PROVE  IntakeInv'
<1> DEFINE n == Cardinality(Downloaded)
           m == IF n > loader[l].used THEN n ELSE loader[l].used
           x == [loader[l] EXCEPT !.at = "reserve", !.used = m]
<1>1. /\ loader[l].at = "sum" /\ \A k \in Loaders : loader[k].at # "reserve"
      /\ reservation' = [k \in Loaders |-> IF reservation[k] = "lapsed" THEN "marked" ELSE reservation[k]]
      /\ RowsSame /\ UNCHANGED files /\ UNCHANGED orphans /\ UNCHANGED split /\ UNCHANGED faults
  BY DEF SumStored, Marked, rowVars, RowsSame
<1>2. loader' = [loader EXCEPT ![l] = x]
  BY LoaderIs DEF SumStored
<1>3. RowsTyped /\ LoadTyped /\ WorkTyped /\ n \in 0..Cardinality(Events) /\ n \in Nat
  BY TypesOf, DownloadedIs
<1>4. m \in 0..Cardinality(Events) /\ m \in Nat /\ n <= m
  BY <1>3, LoaderIs, Numbers
<1> HIDE DEF m
<1>5. /\ x \in Loader /\ x.at = "reserve" /\ x.used = m /\ x.created = loader[l].created
      /\ x.row = loader[l].row
  <2>1. loader[l] \in Loader
    BY LoaderIs
  <2>2. x \in Loader
    BY <1>4, <2>1 DEF Loader
  <2>3. /\ x.at = "reserve" /\ x.used = m /\ x.created = loader[l].created
        /\ x.row = loader[l].row
    BY <2>1 DEF Loader
  <2> QED
    BY <2>2, <2>3
<1> HIDE DEF x
<1>6. ~loader[l].created /\ reservation[l] = "none" /\ loader[l].row \in Versions
  BY <1>1, <1>3 DEF IntakeInv, LoadersAreInOrder, LoadTyped, Granted
<1>7. LoaderMoves(l, x)
  BY <1>2, <1>5, <1>6 DEF LoaderMoves
<1>8. /\ loader' \in [Loaders -> Loader] /\ loader'[l] = x
      /\ \A k \in Loaders \ {l} : loader'[k] = loader[k]
      /\ LoadersAreInOrder'
  BY <1>3, <1>7, MovedIs DEF IntakeInv, LoadTyped
<1>9. /\ reservation' \in [Loaders -> Reservation]
      /\ \A k \in Loaders : /\ reservation'[k] = "none" <=> reservation[k] = "none"
                            /\ reservation'[k] \in {"live", "lapsed", "marked"} =>
                                   reservation[k] \in {"live", "lapsed", "marked"}
                            /\ reservation[k] \in {"none", "live"} => reservation'[k] = reservation[k]
  BY <1>1, <1>3 DEF LoadTyped, Reservation
<1>10. LoadTyped'
  BY <1>1, <1>3, <1>5, <1>6, <1>8, <1>9 DEF LoadTyped, Granted
<1>11. FilesHaveOneCreator' /\ AuthorizedIsReadable' /\ OrphansAreOfFaults' /\ LapsesAreFaults'
  <2>1. \A k \in Loaders : loader'[k].created =>
            Creator(k) /\ loader'[k].row = loader[k].row
    BY <1>5, <1>8 DEF Creator
  <2>2. FilesHaveOneCreator'
    BY <1>1, <2>1, NoNewCreator DEF IntakeInv, RowsSame
  <2>3. LapsesAreFaults'
    BY <1>1, <1>9 DEF IntakeInv, LapsesAreFaults
  <2> QED
    BY <1>1, <2>2, <2>3 DEF IntakeInv, AuthorizedIsReadable, OrphansAreOfFaults, RowsSame
<1>12. QuotaIsKept'
  <2>1. Downloaded' = Downloaded
    BY <1>1 DEF Downloaded, RowsSame
  <2>2. Holders' \subseteq Holders
    BY <1>9 DEF Holders
  <2>3. /\ Cardinality(Holders') <= Cardinality(Holders) /\ Cardinality(Holders) \in Nat
        /\ Cardinality(Holders') \in Nat /\ orphans \in Nat
        /\ Held = orphans + Cardinality(Holders)
    BY <1>3, <2>2, HeldIs, LoaderSets
  <2>4. Held' = orphans' + Cardinality(Holders')
    BY DEF Held
  <2>5. Held' <= Held /\ Held \in Nat /\ Held' \in Nat
    BY <1>1, <2>3, <2>4
  <2>6. \A k \in Loaders : loader'[k].at = "reserve" => Cardinality(Downloaded') <= loader'[k].used
    BY <1>1, <1>4, <1>5, <1>8, <2>1
  <2> QED
    BY <1>1, <1>3, <2>1, <2>5, <2>6, Numbers DEF IntakeInv, QuotaIsKept
<1>13. \E k \in Loaders : loader'[k].at # "idle"
  BY <1>5, <1>8
<1>14. faults' \in 0..MaxFaults /\ (faults' = 0 => faults = 0)
  BY <1>1, <1>3 DEF WorkTyped
<1> QED
  BY <1>1, <1>8, <1>10, <1>11, <1>12, <1>13, <1>14, FileStepKeeps

\* What Reserved counts.
Counted == {k \in Loaders : reservation[k] \in {"live", "lapsed"}}

LEMMA ReserveKeeps ==
    ASSUME IntakeInv, NEW l \in Loaders, Reserve(l)
    PROVE  IntakeInv'
<1> DEFINE fits == loader[l].used + Reserved + 1 <= Quota
           where == IF fits THEN "write" ELSE "failed"
           x == [loader[l] EXCEPT !.at = where, !.used = 0]
<1>1. /\ loader[l].at = "reserve"
      /\ reservation' = IF fits THEN [Settled("expired") EXCEPT ![l] = "live"] ELSE Settled("lapsed")
      /\ RowsSame /\ UNCHANGED files /\ UNCHANGED orphans /\ UNCHANGED split /\ UNCHANGED faults
  BY DEF Reserve, rowVars, RowsSame
<1>2. loader' = [loader EXCEPT ![l] = x]
  BY LoaderIs DEF Reserve
<1>3. RowsTyped /\ LoadTyped /\ WorkTyped
  BY TypesOf
<1>4. /\ where \in {"write", "failed"}
      /\ where = "write" <=> fits
  OBVIOUS
<1> HIDE DEF where
<1>5. x \in Loader /\ x.at = where /\ x.created = loader[l].created /\ x.row = loader[l].row
  <2>1. 0 \in 0..Cardinality(Events) /\ loader[l] \in Loader
    BY LoaderIs, Numbers
  <2> QED
    BY <1>4, <2>1 DEF Loader
<1> HIDE DEF x, fits
<1>6. ~loader[l].created /\ reservation[l] = "none" /\ loader[l].row \in Versions
  BY <1>1, <1>3 DEF IntakeInv, LoadersAreInOrder, LoadTyped, Granted
<1>7. LoaderMoves(l, x)
  BY <1>2, <1>4, <1>5, <1>6 DEF LoaderMoves
<1>8. /\ loader' \in [Loaders -> Loader] /\ loader'[l] = x
      /\ \A k \in Loaders \ {l} : loader'[k] = loader[k]
      /\ LoadersAreInOrder'
  BY <1>3, <1>7, MovedIs DEF IntakeInv, LoadTyped
<1>9. /\ reservation' \in [Loaders -> Reservation]
      /\ reservation'[l] = IF fits THEN "live" ELSE "none"
      /\ \A k \in Loaders \ {l} :
             reservation'[k] = IF reservation[k] # "marked" THEN reservation[k]
                               ELSE IF fits THEN "expired" ELSE "lapsed"
  <2>1. ASSUME NEW to \in {"expired", "lapsed"}
        PROVE  /\ Settled(to) \in [Loaders -> Reservation]
               /\ \A k \in Loaders : Settled(to)[k] = IF reservation[k] = "marked" THEN to ELSE reservation[k]
    BY <1>3 DEF Settled, LoadTyped, Reservation
  <2>2. CASE fits
    <3>1. reservation' = [Settled("expired") EXCEPT ![l] = "live"]
      BY <1>1, <2>2
    <3> QED
      BY <2>1, <2>2, <3>1 DEF Reservation
  <2>3. CASE ~fits
    <3>1. reservation' = Settled("lapsed")
      BY <1>1, <2>3
    <3> QED
      BY <1>6, <2>1, <2>3, <3>1
  <2> QED
    BY <2>2, <2>3
<1>10. LoadTyped'
  <2>1. \A k \in Loaders \ {l} : reservation'[k] = "none" <=> reservation[k] = "none"
    BY <1>9
  <2> QED
    BY <1>1, <1>3, <1>4, <1>5, <1>8, <1>9, <2>1 DEF LoadTyped, Granted
<1>11. FilesHaveOneCreator' /\ AuthorizedIsReadable' /\ OrphansAreOfFaults' /\ LapsesAreFaults'
  <2>1. \A k \in Loaders : loader'[k].created => Creator(k) /\ loader'[k].row = loader[k].row
    BY <1>5, <1>6, <1>8 DEF Creator
  <2>2. FilesHaveOneCreator'
    BY <1>1, <2>1, NoNewCreator DEF IntakeInv, RowsSame
  <2>3. LapsesAreFaults'
    BY <1>1, <1>9 DEF IntakeInv, LapsesAreFaults
  <2> QED
    BY <1>1, <2>2, <2>3 DEF IntakeInv, AuthorizedIsReadable, OrphansAreOfFaults, RowsSame
<1>12. QuotaIsKept'
  <2>1. Downloaded' = Downloaded
    BY <1>1 DEF Downloaded, RowsSame
  <2>2. Cardinality(Downloaded) \in Nat /\ loader[l].used \in Nat
    BY <1>3, DownloadedIs, LoaderIs, Numbers
  <2>3. /\ Holders \subseteq Loaders /\ Cardinality(Holders) \in Nat /\ orphans \in Nat
        /\ Held = orphans + Cardinality(Holders) /\ Held \in Nat
    BY <1>3, HeldIs
  <2>4. Held' = orphans' + Cardinality(Holders')
    BY DEF Held
  <2>5. \A k \in Loaders : loader'[k].at = "reserve" =>
            loader[k].at = "reserve" /\ loader'[k].used = loader[k].used
    BY <1>4, <1>5, <1>8
  <2>6. CASE split
    BY <1>1, <2>6 DEF QuotaIsKept
  <2>7. CASE ~split
    <3>1. /\ Cardinality(Downloaded) + Held <= Quota
          /\ \A k \in Loaders : loader[k].at = "reserve" => Cardinality(Downloaded) <= loader[k].used
      BY <2>7 DEF IntakeInv, QuotaIsKept
    <3>2. Cardinality(Downloaded) + Held' <= Quota
      <4>1. CASE fits
        <5>1. Holders' = Counted \cup {l}
          BY <1>6, <1>9, <4>1 DEF Holders, Counted
        <5>2. Counted \subseteq Loaders /\ Counted \cup {l} \subseteq Loaders
          BY DEF Counted
        <5>3. /\ Cardinality(Counted) \in Nat /\ Cardinality(Counted \cup {l}) \in Nat
              /\ Cardinality(Counted \cup {l}) <= Cardinality(Counted) + 1
          BY <5>2, LoaderSets
        <5>4. Reserved = orphans + Cardinality(Counted)
          BY DEF Reserved, Counted
        <5>5. loader[l].used + Reserved + 1 <= Quota
          BY <4>1 DEF fits
        <5>6. Cardinality(Downloaded) <= loader[l].used
          BY <1>1, <3>1
        <5> QED
          BY <1>1, <2>2, <2>3, <2>4, <5>1, <5>3, <5>4, <5>5, <5>6, Numbers
      <4>2. CASE ~fits
        <5>1. Holders' = Holders
          BY <1>6, <1>9, <4>2 DEF Holders
        <5> QED
          BY <1>1, <2>3, <2>4, <3>1, <5>1
      <4> QED
        BY <4>1, <4>2
    <3> QED
      BY <2>1, <2>5, <3>1, <3>2 DEF QuotaIsKept
  <2> QED
    BY <2>6, <2>7
<1>13. \E k \in Loaders : loader'[k].at # "idle"
  BY <1>4, <1>5, <1>8
<1>14. faults' \in 0..MaxFaults /\ (faults' = 0 => faults = 0)
  BY <1>1, <1>3 DEF WorkTyped
<1> QED
  BY <1>1, <1>8, <1>10, <1>11, <1>12, <1>13, <1>14, FileStepKeeps

LEMMA WriteFileKeeps ==
    ASSUME IntakeInv, NEW l \in Loaders, WriteFile(l)
    PROVE  IntakeInv'
<1> DEFINE v == loader[l].row
           x == [loader[l] EXCEPT !.at = "unwind"]
           y == [loader[l] EXCEPT !.at = "store", !.created = TRUE]
<1>1. /\ loader[l].at = "write"
      /\ UNCHANGED processed /\ UNCHANGED message /\ UNCHANGED attachment /\ UNCHANGED document
      /\ UNCHANGED reservation /\ UNCHANGED orphans /\ UNCHANGED split
      /\ UNCHANGED queue /\ UNCHANGED extractor /\ UNCHANGED askVars /\ UNCHANGED faults
  BY DEF WriteFile, rowVars
<1>2. \/ v \in files /\ loader' = [loader EXCEPT ![l] = x] /\ UNCHANGED files
      \/ v \notin files /\ loader' = [loader EXCEPT ![l] = y] /\ files' = files \cup {v}
  BY LoaderIs DEF WriteFile, GoTo
<1>3. RowsTyped /\ LoadTyped /\ WorkTyped
  BY TypesOf
<1>4. ~loader[l].created /\ v \in Versions
  BY <1>1, <1>3 DEF IntakeInv, LoadersAreInOrder
<1>5. /\ x \in Loader /\ x.at = "unwind" /\ x.created = loader[l].created /\ x.row = v
      /\ y \in Loader /\ y.at = "store" /\ y.created = TRUE /\ y.row = v
  <2>1. loader[l] \in Loader
    BY LoaderIs
  <2>2. x \in Loader /\ y \in Loader
    BY <2>1 DEF Loader
  <2>3. /\ x.at = "unwind" /\ x.created = loader[l].created /\ x.row = v
        /\ y.at = "store" /\ y.created = TRUE /\ y.row = v
    BY <2>1 DEF Loader
  <2> QED
    BY <2>2, <2>3
<1> HIDE DEF x, y
<1>6. CASE v \in files
  <2>1. LoaderMoves(l, x)
    BY <1>2, <1>4, <1>5, <1>6 DEF LoaderMoves
  <2>2. AttachmentsStay
    BY <1>1, AttachmentsSame
  <2> QED
    BY <1>1, <1>2, <1>4, <1>5, <1>6, <2>1, <2>2, LoaderStepKeeps
<1>7. CASE v \notin files
  <2>1. LoaderMoves(l, y)
    BY <1>2, <1>4, <1>5, <1>7 DEF LoaderMoves
  <2>2. /\ loader' \in [Loaders -> Loader] /\ loader'[l] = y
        /\ \A k \in Loaders \ {l} : loader'[k] = loader[k]
        /\ LoadersAreInOrder'
    BY <1>3, <2>1, MovedIs DEF IntakeInv, LoadTyped
  <2>3. files' = files \cup {v}
    BY <1>2, <1>7
  <2>4. LoadTyped'
    BY <1>1, <1>3, <1>4, <1>5, <2>2, <2>3 DEF LoadTyped, Granted
  <2>5. FilesHaveOneCreator'
    <3>1. attachment'[v].download # "DOWNLOADED" /\ ~attachment'[v].authorized
      BY <1>1, <1>4, <1>7 DEF IntakeInv, AuthorizedIsReadable
    <3>2. \A k \in Loaders : k # l => /\ loader'[k] = loader[k]
                                      /\ Creator(k) => loader[k].row # v
      BY <1>7, <2>2 DEF IntakeInv, FilesHaveOneCreator
    <3> QED
      BY <1>1, <1>5, <2>2, <2>3, <3>1, <3>2 DEF IntakeInv, FilesHaveOneCreator, Creator
  <2>6. AuthorizedIsReadable' /\ OrphansAreOfFaults' /\ LapsesAreFaults'
    BY <1>1, <2>3 DEF IntakeInv, AuthorizedIsReadable, OrphansAreOfFaults, LapsesAreFaults
  <2>7. QuotaIsKept'
    <3>1. Downloaded' = Downloaded /\ Holders' = Holders /\ RowsTyped' /\ orphans' <= orphans
      BY <1>1, <1>3, Numbers DEF Downloaded, Holders, RowsTyped, LoadTyped
    <3>2. \A k \in Loaders : loader'[k].at = "reserve" =>
              loader[k].at = "reserve" /\ loader'[k].used = loader[k].used
      BY <1>5, <2>2
    <3> QED
      BY <1>1, <1>3, <2>4, <3>1, <3>2, QuotaSame DEF IntakeInv
  <2>8. RowsSame /\ \E k \in Loaders : loader'[k].at # "idle"
    BY <1>1, <1>5, <2>2 DEF RowsSame
  <2> QED
    BY <1>1, <1>3, <2>2, <2>4, <2>5, <2>6, <2>7, <2>8, FileStepKeeps DEF WorkTyped
<1> QED
  BY <1>6, <1>7

LEMMA UnwindKeeps ==
    ASSUME IntakeInv, NEW l \in Loaders, Unwind(l)
    PROVE  IntakeInv'
<1> DEFINE v == loader[l].row
           x == [loader[l] EXCEPT !.at = "release", !.created = FALSE]
<1>1. /\ loader[l].at = "unwind"
      /\ files' = IF loader[l].created THEN files \ {v} ELSE files
      /\ RowsSame /\ UNCHANGED reservation /\ UNCHANGED orphans /\ UNCHANGED split /\ UNCHANGED faults
  BY DEF Unwind, Unlinked, rowVars, RowsSame
<1>2. loader' = [loader EXCEPT ![l] = x]
  BY LoaderIs DEF Unwind
<1>3. RowsTyped /\ LoadTyped /\ WorkTyped
  BY TypesOf
<1>4. v \in Versions
  BY <1>1 DEF IntakeInv, LoadersAreInOrder
<1>5. x \in Loader /\ x.at = "release" /\ x.row = v /\ x.created = FALSE
  <2>1. loader[l] \in Loader
    BY LoaderIs
  <2>2. x \in Loader
    BY <2>1 DEF Loader
  <2>3. x.at = "release" /\ x.row = v /\ x.created = FALSE
    BY <2>1 DEF Loader
  <2> QED
    BY <2>2, <2>3
<1> HIDE DEF x
<1>6. LoaderMoves(l, x)
  BY <1>2, <1>4, <1>5 DEF LoaderMoves
<1>7. /\ loader' \in [Loaders -> Loader] /\ loader'[l] = x
      /\ \A k \in Loaders \ {l} : loader'[k] = loader[k]
      /\ LoadersAreInOrder'
  BY <1>3, <1>6, MovedIs DEF IntakeInv, LoadTyped
<1>8. LoadTyped'
  BY <1>1, <1>3, <1>5, <1>7 DEF LoadTyped, Granted
<1>9. loader[l].created => /\ attachment[v].download # "DOWNLOADED" /\ ~attachment[v].authorized
                           /\ \A k \in Loaders : k # l /\ Creator(k) => loader[k].row # v
  BY DEF IntakeInv, FilesHaveOneCreator, Creator
<1>10. FilesHaveOneCreator'
  <2>1. \A k \in Loaders : loader'[k].created =>
            k # l /\ Creator(k) /\ loader'[k].row = loader[k].row
    BY <1>5, <1>7 DEF Creator
  <2>2. \A k \in Loaders : k # l /\ Creator(k) => loader[k].row \in files'
    BY <1>1, <1>9 DEF IntakeInv, FilesHaveOneCreator
  <2> QED
    BY <1>1, <2>1, <2>2, NoNewCreator DEF IntakeInv, RowsSame
<1>11. AuthorizedIsReadable'
  BY <1>1, <1>9 DEF IntakeInv, AuthorizedIsReadable, RowsSame
<1>12. OrphansAreOfFaults' /\ LapsesAreFaults'
  BY <1>1 DEF IntakeInv, OrphansAreOfFaults, LapsesAreFaults
<1>13. QuotaIsKept'
  <2>1. Downloaded' = Downloaded /\ Holders' = Holders /\ RowsTyped' /\ orphans' <= orphans
    BY <1>1, <1>3, Numbers DEF Downloaded, Holders, RowsSame, RowsTyped, LoadTyped
  <2>2. \A k \in Loaders : loader'[k].at = "reserve" =>
            loader[k].at = "reserve" /\ loader'[k].used = loader[k].used
    BY <1>5, <1>7
  <2> QED
    BY <1>1, <1>3, <1>8, <2>1, <2>2, QuotaSame DEF IntakeInv
<1>14. \E k \in Loaders : loader'[k].at # "idle"
  BY <1>5, <1>7
<1> QED
  BY <1>1, <1>3, <1>7, <1>8, <1>10, <1>11, <1>12, <1>13, <1>14, FileStepKeeps DEF WorkTyped

LEMMA ReleaseKeeps ==
    ASSUME IntakeInv, NEW l \in Loaders, Release(l)
    PROVE  IntakeInv'
<1> DEFINE x == [loader[l] EXCEPT !.at = "failed"]
           y == IF reservation[l] = "expired" THEN IdleLoader ELSE x
<1>1. /\ loader[l].at = "release" /\ reservation' = [reservation EXCEPT ![l] = "none"]
      /\ RowsSame /\ UNCHANGED files /\ UNCHANGED orphans /\ UNCHANGED split /\ UNCHANGED faults
  BY DEF Release, Released, rowVars, RowsSame
<1>2. loader' = [loader EXCEPT ![l] = y]
  BY LoaderIs DEF Release
<1>3. RowsTyped /\ LoadTyped /\ WorkTyped
  BY TypesOf
<1>4. loader[l].row \in Versions /\ ~loader[l].created
  BY <1>1 DEF IntakeInv, LoadersAreInOrder
<1>5. x \in Loader /\ x.at = "failed" /\ x.row = loader[l].row /\ x.created = loader[l].created
  BY LoaderIs DEF Loader
<1> HIDE DEF x
<1>6. /\ y \in Loader /\ y.at \in {"idle", "failed"} /\ ~y.created
      /\ y.at = "idle" => reservation[l] = "expired"
      /\ y.at = "failed" => y.row = loader[l].row
  BY <1>4, <1>5, IdleIs
<1> HIDE DEF y
<1>7. LoaderMoves(l, y)
  BY <1>2, <1>4, <1>6 DEF LoaderMoves
<1>8. /\ loader' \in [Loaders -> Loader] /\ loader'[l] = y
      /\ \A k \in Loaders \ {l} : loader'[k] = loader[k]
      /\ LoadersAreInOrder'
  BY <1>3, <1>7, MovedIs DEF IntakeInv, LoadTyped
<1>9. /\ reservation' \in [Loaders -> Reservation] /\ reservation'[l] = "none"
      /\ \A k \in Loaders \ {l} : reservation'[k] = reservation[k]
  BY <1>1, <1>3 DEF LoadTyped, Reservation
<1>10. LoadTyped'
  BY <1>1, <1>3, <1>6, <1>8, <1>9 DEF LoadTyped, Granted
<1>11. FilesHaveOneCreator'
  <2>1. \A k \in Loaders : loader'[k].created => Creator(k) /\ loader'[k].row = loader[k].row
    BY <1>6, <1>8 DEF Creator
  <2> QED
    BY <1>1, <2>1, NoNewCreator DEF IntakeInv, RowsSame
<1>12. AuthorizedIsReadable' /\ OrphansAreOfFaults' /\ LapsesAreFaults'
  BY <1>1, <1>9 DEF IntakeInv, AuthorizedIsReadable, OrphansAreOfFaults, LapsesAreFaults, RowsSame
<1>13. QuotaIsKept'
  <2>1. Downloaded' = Downloaded /\ RowsTyped' /\ orphans' <= orphans
    BY <1>1, <1>3, Numbers DEF Downloaded, RowsSame, RowsTyped, LoadTyped
  <2>2. Holders' \subseteq Holders
    BY <1>9 DEF Holders
  <2>3. \A k \in Loaders : loader'[k].at = "reserve" =>
            loader[k].at = "reserve" /\ loader'[k].used = loader[k].used
    BY <1>6, <1>8
  <2> QED
    BY <1>1, <1>3, <1>10, <2>1, <2>2, <2>3, QuotaSame DEF IntakeInv
<1>14. faults' # 0 \/ \E k \in Loaders : loader'[k].at # "idle"
  <2>1. CASE y.at = "idle"
    BY <1>1, <1>6, <2>1 DEF IntakeInv, LapsesAreFaults
  <2>2. CASE y.at # "idle"
    BY <1>8, <2>2
  <2> QED
    BY <2>1, <2>2
<1> QED
  BY <1>1, <1>3, <1>8, <1>10, <1>11, <1>12, <1>13, <1>14, FileStepKeeps DEF WorkTyped

LEMMA StoreDownloadedKeeps ==
    ASSUME IntakeInv, NEW l \in Loaders, StoreDownloaded(l)
    PROVE  IntakeInv'
<1> DEFINE v == loader[l].row
           x == [loader[l] EXCEPT !.at = "unwind", !.dirty = {}]
<1>1. /\ loader[l].at = "save" /\ reservation[l] # "marked"
      /\ UNCHANGED processed /\ UNCHANGED message /\ UNCHANGED document /\ UNCHANGED askVars
      /\ UNCHANGED files /\ UNCHANGED orphans /\ UNCHANGED extractor /\ UNCHANGED faults
  BY DEF StoreDownloaded
<1>2. RowsTyped /\ AskTyped /\ LoadTyped /\ WorkTyped
  BY TypesOf
<1>3. v \in Versions /\ Creator(l) /\ reservation[l] \in {"live", "lapsed", "expired"}
  BY <1>1, <1>2 DEF IntakeInv, LoadersAreInOrder, Creator, LoadTyped, Granted, Reservation
<1>4. v \in files /\ attachment[v].download # "DOWNLOADED" /\ ~attachment[v].authorized
  BY <1>3 DEF IntakeInv, FilesHaveOneCreator
<1>5. CASE reservation[l] = "expired"
  <2>1. /\ UNCHANGED attachment /\ UNCHANGED reservation /\ UNCHANGED queue /\ UNCHANGED split
        /\ loader' = [loader EXCEPT ![l] = x]
    BY <1>5, LoaderIs DEF StoreDownloaded
  <2>2. x \in Loader /\ x.at = "unwind" /\ x.created = loader[l].created /\ x.row = v
    <3>1. loader[l] \in Loader
      BY LoaderIs
    <3>2. x \in Loader
      BY <3>1 DEF Loader
    <3>3. x.at = "unwind" /\ x.created = loader[l].created /\ x.row = v
      BY <3>1 DEF Loader
    <3> QED
      BY <3>2, <3>3
  <2> HIDE DEF x
  <2>3. LoaderMoves(l, x)
    BY <1>3, <2>1, <2>2 DEF LoaderMoves
  <2>4. AttachmentsStay
    BY <1>1, <2>1, AttachmentsSame
  <2> QED
    BY <1>1, <1>3, <2>1, <2>2, <2>3, <2>4, LoaderStepKeeps
<1>6. CASE reservation[l] # "expired"
  <2>1. /\ attachment' = Updated(l)
        /\ reservation' = [reservation EXCEPT ![l] = "none"]
        /\ queue' = queue \cup {v}
        /\ split' = (split \/ \E k \in Loaders : loader[k].at = "reserve")
        /\ NextAttachment(l)
    BY <1>6 DEF StoreDownloaded
  <2>2. PICK y \in Loader : /\ loader' = [loader EXCEPT ![l] = y]
                            /\ y.at \in {"ready", "next"} /\ ~y.created
    BY <2>1, NextAttachmentIs
  <2>3. LoaderMoves(l, y)
    BY <2>2 DEF LoaderMoves
  <2>4. /\ loader' \in [Loaders -> Loader] /\ loader'[l] = y
        /\ \A k \in Loaders \ {l} : loader'[k] = loader[k]
        /\ LoadersAreInOrder'
    BY <1>2, <2>3, MovedIs DEF IntakeInv, LoadTyped
  <2> HIDE DEF v
  <2>6. /\ attachment' \in [Versions -> Attachment]
        /\ \A n \in Versions :
               /\ attachment'[n].download \in {attachment[n].download, "DOWNLOADED"}
               /\ attachment'[n].authorized => attachment[n].authorized
               /\ n # v => attachment'[n].download = attachment[n].download
    <3>1. Saves[loader[l].at].download = "DOWNLOADED"
      BY <1>1, SavesAre
    <3>2. \A n \in Versions : n # v => <<n, "download">> \notin loader[l].dirty
      BY <1>1 DEF IntakeInv, LoadersAreInOrder, v
    <3> QED
      BY <1>1, <2>1, <3>1, <3>2, UpdatedIs
  <2>7. /\ reservation' \in [Loaders -> Reservation] /\ reservation'[l] = "none"
        /\ \A k \in Loaders \ {l} : reservation'[k] = reservation[k]
    BY <1>2, <2>1 DEF LoadTyped, Reservation
  <2>8. RowsTyped' /\ AskTyped' /\ WorkTyped'
    BY <1>1, <1>2, <1>3, <2>1, <2>6 DEF RowsTyped, AskTyped, askVars, WorkTyped
  <2>9. LoadTyped'
    BY <1>1, <1>2, <2>1, <2>2, <2>4, <2>7 DEF LoadTyped, Granted
  <2>10. IntakeTypeOK'
    BY <2>8, <2>9 DEF IntakeTypeOK, RowsTyped, AskTyped, LoadTyped, WorkTyped, Granted
  <2>11. VersionsAreOfEvents' /\ OrphansAreOfFaults' /\ LapsesAreFaults'
    BY <1>1, <2>7 DEF IntakeInv, VersionsAreOfEvents, OrphansAreOfFaults, LapsesAreFaults
  <2>12. FilesHaveOneCreator'
    <3>1. \A k \in Loaders : loader'[k].created =>
              k # l /\ Creator(k) /\ loader'[k].row = loader[k].row
      BY <2>2, <2>4 DEF Creator
    <3>2. \A k \in Loaders : k # l /\ Creator(k) => loader[k].row # v /\ loader[k].row \in Versions
      BY <1>3 DEF IntakeInv, FilesHaveOneCreator, LoadersAreInOrder, Creator, v
    <3> QED
      BY <1>1, <2>6, <3>1, <3>2, NoNewCreator DEF IntakeInv
  <2>13. AuthorizedIsReadable'
    BY <1>1, <1>4, <2>6 DEF IntakeInv, AuthorizedIsReadable
  <2>14. QuotaIsKept'
    <3>1. CASE split'
      BY <3>1 DEF QuotaIsKept
    <3>2. CASE ~split'
      <4>1. ~split /\ \A k \in Loaders : loader[k].at # "reserve"
        BY <2>1, <3>2
      <4>2. Cardinality(Downloaded) + Held <= Quota
        BY <4>1 DEF IntakeInv, QuotaIsKept
      <4>3. \A k \in Loaders : loader'[k].at # "reserve"
        BY <2>2, <2>4, <4>1
      <4>4. Downloaded' \subseteq Downloaded \cup {v} /\ Downloaded \cup {v} \subseteq Versions
        BY <1>3, <2>6 DEF Downloaded
      <4>5. /\ Cardinality(Downloaded) \in Nat /\ Cardinality(Downloaded') \in Nat
            /\ Cardinality(Downloaded') <= Cardinality(Downloaded) + 1
        <5>1. /\ IsFiniteSet(Downloaded) /\ IsFiniteSet(Downloaded \cup {v})
              /\ Cardinality(Downloaded) \in Nat
          BY <1>2, <4>4, DownloadedIs, VersionSets
        <5>2. Cardinality(Downloaded \cup {v}) <= Cardinality(Downloaded) + 1
          BY <5>1, FS_AddElement
        <5>3. /\ IsFiniteSet(Downloaded') /\ Cardinality(Downloaded') \in Nat
              /\ Cardinality(Downloaded') <= Cardinality(Downloaded \cup {v})
              /\ Cardinality(Downloaded \cup {v}) \in Nat
          BY <4>4, <5>1, FS_Subset, FS_CardinalityType
        <5> QED
          BY <5>1, <5>2, <5>3
      <4>6. Holders' = Holders \ {l} /\ l \in Holders
        BY <1>3, <1>6, <2>7 DEF Holders
      <4>7. /\ Cardinality(Holders) \in Nat /\ orphans \in Nat
            /\ Held = orphans + Cardinality(Holders)
            /\ Cardinality(Holders') = Cardinality(Holders) - 1
        BY <1>2, <4>6, HeldIs, LoaderSets
      <4>8. Held' = orphans' + Cardinality(Holders')
        BY DEF Held
      <4>9. Cardinality(Downloaded') + Held' <= Quota
        BY <1>1, <4>2, <4>5, <4>7, <4>8, Numbers
      <4> QED
        BY <4>3, <4>9 DEF QuotaIsKept
    <3> QED
      BY <3>1, <3>2
  <2>15. RequestIsDue'
    <3>1. \E k \in Loaders : loader'[k].at # "idle"
      BY <2>2, <2>4
    <3>2. \A n \in Versions : Present(n) => attachment'[n].download # "absent"
      BY <2>6 DEF Present
    <3> QED
      BY <1>1, <3>1, <3>2, DueStill DEF IntakeInv
  <2> QED
    BY <2>4, <2>10, <2>11, <2>12, <2>13, <2>14, <2>15 DEF IntakeInv
<1> QED
  BY <1>5, <1>6

\* What the lapse of a reservation, the death of a loader and the lapse of what it
\* left behind have in common.
LEMMA LapsesKeep ==
    ASSUME IntakeInv, RowsSame, UNCHANGED files, UNCHANGED split,
           NextFault \/ (UNCHANGED faults /\ UNCHANGED reservation /\ UNCHANGED loader),
           LoadTyped', LoadersAreInOrder', OrphansAreOfFaults', QuotaIsKept',
           \A k \in Loaders : loader'[k] = loader[k] \/ ~loader'[k].created
    PROVE  IntakeInv'
<1>1. WorkTyped
  BY TypesOf
<1>2. /\ faults' \in 0..MaxFaults /\ (faults' = 0 => faults = 0)
      /\ faults' # 0 \/ (UNCHANGED faults /\ UNCHANGED reservation /\ UNCHANGED loader)
  BY <1>1, Numbers DEF NextFault, WorkTyped
<1>3. FilesHaveOneCreator'
  BY NoNewCreator DEF IntakeInv, RowsSame, Creator
<1>4. AuthorizedIsReadable' /\ LapsesAreFaults'
  BY <1>2 DEF IntakeInv, AuthorizedIsReadable, LapsesAreFaults, RowsSame
<1> QED
  BY <1>2, <1>3, <1>4, FileStepKeeps

LEMMA LapseKeeps ==
    ASSUME IntakeInv, NEW l \in Loaders, Lapse(l)
    PROVE  IntakeInv'
<1>1. /\ reservation[l] = "live" /\ NextFault
      /\ reservation' = [reservation EXCEPT ![l] = "lapsed"]
      /\ RowsSame /\ UNCHANGED files /\ UNCHANGED loader /\ UNCHANGED orphans /\ UNCHANGED split
  BY DEF Lapse, RowsSame, rowVars
<1>2. RowsTyped /\ LoadTyped /\ WorkTyped
  BY TypesOf
<1>3. /\ reservation' \in [Loaders -> Reservation] /\ reservation'[l] = "lapsed"
      /\ \A k \in Loaders \ {l} : reservation'[k] = reservation[k]
  BY <1>1, <1>2 DEF LoadTyped, Reservation
<1>4. LoadTyped'
  BY <1>1, <1>2, <1>3 DEF LoadTyped, Granted
<1>5. Holders' = Holders
  BY <1>1, <1>3 DEF Holders
<1>6. RowsTyped' /\ Downloaded' = Downloaded /\ orphans' <= orphans
  BY <1>1, <1>2, Numbers DEF RowsSame, RowsTyped, Downloaded, LoadTyped
<1>7. QuotaIsKept'
  BY <1>1, <1>2, <1>4, <1>5, <1>6, QuotaSame DEF IntakeInv
<1>8. OrphansAreOfFaults' /\ LoadersAreInOrder'
  BY <1>1, <1>2, Numbers DEF IntakeInv, OrphansAreOfFaults, LoadersAreInOrder, NextFault, WorkTyped, LoadTyped
<1> QED
  BY <1>1, <1>4, <1>7, <1>8, LapsesKeep

LEMMA CrashKeeps ==
    ASSUME IntakeInv, NEW l \in Loaders, Crash(l)
    PROVE  IntakeInv'
<1>1. /\ NextFault
      /\ orphans' = IF reservation[l] = "live" THEN orphans + 1 ELSE orphans
      /\ reservation' = IF loader[l].at = "reserve" THEN Settled("lapsed")
                        ELSE [reservation EXCEPT ![l] = "none"]
      /\ loader' = [loader EXCEPT ![l] = IdleLoader]
      /\ RowsSame /\ UNCHANGED files /\ UNCHANGED split
  BY DEF Crash, Released, RowsSame, rowVars
<1>2. RowsTyped /\ LoadTyped /\ WorkTyped
  BY TypesOf
<1>3. LoaderMoves(l, IdleLoader)
  BY <1>1, IdleIs DEF LoaderMoves
<1>4. /\ loader' \in [Loaders -> Loader] /\ loader'[l] = IdleLoader
      /\ \A k \in Loaders \ {l} : loader'[k] = loader[k]
      /\ LoadersAreInOrder'
  BY <1>2, <1>3, MovedIs DEF IntakeInv, LoadTyped
<1>5. /\ reservation' \in [Loaders -> Reservation] /\ reservation'[l] = "none"
      /\ \A k \in Loaders \ {l} :
             \/ reservation'[k] = reservation[k]
             \/ reservation[k] = "marked" /\ reservation'[k] = "lapsed"
  <2>1. CASE loader[l].at = "reserve"
    <3>1. reservation[l] = "none"
      BY <1>2, <2>1 DEF LoadTyped, Granted
    <3>2. reservation' = [k \in Loaders |-> IF reservation[k] = "marked" THEN "lapsed" ELSE reservation[k]]
      BY <1>1, <2>1 DEF Settled
    <3> QED
      BY <1>2, <3>1, <3>2 DEF LoadTyped, Reservation
  <2>2. CASE loader[l].at # "reserve"
    BY <1>1, <1>2, <2>2 DEF LoadTyped, Reservation
  <2> QED
    BY <2>1, <2>2
<1>6. /\ faults \in Nat /\ orphans \in Nat /\ orphans <= faults /\ faults' = faults + 1
      /\ faults' <= MaxFaults
  BY <1>1, <1>2, Numbers DEF IntakeInv, OrphansAreOfFaults, NextFault, WorkTyped, LoadTyped
<1>7. orphans' \in 0..MaxFaults /\ orphans' <= faults' /\ orphans' \in Nat
  BY <1>1, <1>6, Numbers
<1>8. LoadTyped'
  BY <1>1, <1>2, <1>4, <1>5, <1>7, IdleIs DEF LoadTyped, Granted
<1>9. QuotaIsKept'
  <2>1. Downloaded' = Downloaded /\ Cardinality(Downloaded) \in Nat
    BY <1>1, <1>2, DownloadedIs DEF RowsSame, Downloaded
  <2>2. /\ Cardinality(Holders) \in Nat /\ Held = orphans + Cardinality(Holders)
        /\ Holders \subseteq Loaders
    BY <1>2, HeldIs
  <2>3. Holders' = Holders \ {l}
    BY <1>5 DEF Holders
  <2>4. /\ Cardinality(Holders') \in Nat /\ Cardinality(Holders') <= Cardinality(Holders)
        /\ reservation[l] = "live" => Cardinality(Holders') = Cardinality(Holders) - 1
    <3>1. Holders' \subseteq Loaders /\ Holders' \subseteq Holders
      BY <2>2, <2>3
    <3>2. reservation[l] = "live" => l \in Holders
      BY DEF Holders
    <3> QED
      BY <2>2, <2>3, <3>1, <3>2, LoaderSets
  <2>5. Held' = orphans' + Cardinality(Holders')
    BY DEF Held
  <2>6. Held' <= Held /\ Held' \in Nat /\ Held \in Nat
    BY <1>1, <1>6, <2>2, <2>4, <2>5
  <2>7. \A k \in Loaders : loader'[k].at = "reserve" =>
            loader[k].at = "reserve" /\ loader'[k].used = loader[k].used
    BY <1>4, IdleIs
  <2> QED
    BY <1>1, <2>1, <2>6, <2>7, Numbers DEF IntakeInv, QuotaIsKept
<1>10. \A k \in Loaders : loader'[k] = loader[k] \/ ~loader'[k].created
  BY <1>4, IdleIs
<1> QED
  BY <1>1, <1>4, <1>7, <1>8, <1>9, <1>10, LapsesKeep DEF OrphansAreOfFaults

LEMMA OrphanLapsesKeeps ==
    ASSUME IntakeInv, OrphanLapses
    PROVE  IntakeInv'
<1>1. /\ orphans > 0 /\ orphans' = orphans - 1
      /\ RowsSame /\ UNCHANGED files /\ UNCHANGED loader /\ UNCHANGED reservation
      /\ UNCHANGED split /\ UNCHANGED faults
  BY DEF OrphanLapses, RowsSame, rowVars
<1>2. RowsTyped /\ LoadTyped /\ WorkTyped /\ orphans \in Nat
  BY TypesOf, Numbers DEF LoadTyped
<1>3. orphans' \in 0..MaxFaults /\ orphans' <= orphans /\ orphans' \in Nat
  BY <1>1, <1>2, Numbers DEF LoadTyped
<1>4. LoadTyped' /\ LoadersAreInOrder'
  BY <1>1, <1>2, <1>3 DEF LoadTyped, Granted, IntakeInv, LoadersAreInOrder
<1>5. Holders' = Holders /\ RowsTyped' /\ Downloaded' = Downloaded
  BY <1>1, <1>2 DEF Holders, RowsSame, RowsTyped, Downloaded
<1>6. QuotaIsKept'
  BY <1>1, <1>2, <1>3, <1>4, <1>5, QuotaSame DEF IntakeInv
<1>7. OrphansAreOfFaults'
  BY <1>1, <1>2, <1>3, Numbers DEF IntakeInv, OrphansAreOfFaults, WorkTyped
<1> QED
  BY <1>1, <1>4, <1>6, <1>7, LapsesKeep

-----------------------------------------------------------------------------
\* The gate asks for the analysis of the message, unless it was recalled, is not to
\* be analysed, or an event for it is on its way.
LEMMA GateAsks ==
    ASSUME AskTyped, NEW m, m.version \in Versions \cup {NoVersion}, Gate(m)
    PROVE  /\ AskTyped'
           /\ overtaken => overtaken'
           /\ ~m.recalled /\ m.analyze /\ ~overtaken' => requested' = m.version
           /\ UNCHANGED requested \/ requested' = m.version
BY DEF Gate, AskTyped, askVars, Request

LEMMA ReadyAsks ==
    ASSUME AskTyped, message \in Message, NEW rows, RequestIfReady(rows)
    PROVE  /\ AskTyped'
           /\ overtaken => overtaken'
           /\ UNCHANGED requested \/ requested' = message.version
           /\ /\ ~message.recalled /\ message.analyze /\ ~overtaken'
              /\ \E v \in Versions : rows[v].download # "absent"
              /\ \A v \in Versions : Terminal(rows[v])
              => requested' = message.version
<1>1. message.version \in Versions \cup {NoVersion}
  BY DEF Message
<1>2. CASE /\ \E v \in Versions : rows[v].download # "absent"
           /\ \A v \in Versions : Terminal(rows[v])
  <2>1. Gate(message)
    BY <1>2 DEF RequestIfReady
  <2> QED
    BY <1>1, <2>1, GateAsks
<1>3. CASE ~ /\ \E v \in Versions : rows[v].download # "absent"
             /\ \A v \in Versions : Terminal(rows[v])
  <2>1. UNCHANGED askVars
    BY <1>3 DEF RequestIfReady
  <2>2. AskTyped' /\ overtaken' = overtaken /\ requested' = requested
    BY <2>1 DEF askVars, AskTyped
  <2> QED
    BY <1>3, <2>2
<1> QED
  BY <1>2, <1>3

\* A step that asks, or not, and keeps the rest.
LEMMA AskingKeeps ==
    ASSUME IntakeInv, RowsTyped', AskTyped', LoadTyped', WorkTyped', VersionsAreOfEvents',
           RequestIsDue', LoadersAreInOrder',
           UNCHANGED files, UNCHANGED reservation, UNCHANGED orphans, UNCHANGED split,
           UNCHANGED faults \/ NextFault,
           \A v \in Versions : attachment'[v].download = "DOWNLOADED" =>
                                   attachment[v].download = "DOWNLOADED",
           \A v \in Versions : attachment'[v].authorized =>
                                   attachment[v].authorized \/ attachment[v].download = "DOWNLOADED",
           \A k \in Loaders : loader'[k] = loader[k] \/ loader'[k] = IdleLoader
    PROVE  IntakeInv'
<1>1. IntakeTypeOK'
  BY DEF IntakeTypeOK, RowsTyped, AskTyped, LoadTyped, WorkTyped, Granted
<1>2. RowsTyped /\ LoadTyped
  BY TypesOf
<1>3. FilesHaveOneCreator'
  <2>1. \A k \in Loaders : loader'[k].created =>
            Creator(k) /\ loader'[k].row = loader[k].row /\ loader[k].row \in Versions
    BY IdleIs DEF Creator, IntakeInv, LoadersAreInOrder
  <2>2. \A k \in Loaders : Creator(k) => attachment[loader[k].row].download # "DOWNLOADED"
    BY DEF IntakeInv, FilesHaveOneCreator
  <2> QED
    BY <2>1, <2>2, NoNewCreator DEF IntakeInv
<1>4. AuthorizedIsReadable' /\ OrphansAreOfFaults' /\ LapsesAreFaults'
  <2>1. faults <= faults' /\ (faults' = 0 => faults = 0)
    BY TypesOf, Numbers DEF NextFault, WorkTyped
  <2>2. OrphansAreOfFaults'
    BY <1>2, <2>1, TypesOf, Numbers DEF IntakeInv, OrphansAreOfFaults, LoadTyped, WorkTyped
  <2> QED
    BY <2>1, <2>2 DEF IntakeInv, AuthorizedIsReadable, LapsesAreFaults
<1>5. QuotaIsKept'
  <2>1. Downloaded' \subseteq Downloaded
    BY DEF Downloaded
  <2>2. Holders' = Holders /\ orphans' <= orphans
    BY <1>2, Numbers DEF Holders, LoadTyped
  <2>3. \A k \in Loaders : loader'[k].at = "reserve" =>
            loader[k].at = "reserve" /\ loader'[k].used = loader[k].used
    BY IdleIs
  <2> QED
    BY <1>2, <2>1, <2>2, <2>3, QuotaSame DEF IntakeInv
<1> QED
  BY <1>1, <1>3, <1>4, <1>5 DEF IntakeInv

LEMMA FinishDownloadsKeeps ==
    ASSUME IntakeInv, NEW l \in Loaders, FinishDownloads(l)
    PROVE  IntakeInv'
<1>1. /\ loader[l].at = "ready" /\ RequestIfReady(attachment)
      /\ loader' = [loader EXCEPT ![l] = IdleLoader]
      /\ UNCHANGED processed /\ UNCHANGED message /\ UNCHANGED attachment /\ UNCHANGED document
      /\ UNCHANGED files /\ UNCHANGED reservation /\ UNCHANGED orphans /\ UNCHANGED split
      /\ UNCHANGED queue /\ UNCHANGED extractor /\ UNCHANGED faults
  BY DEF FinishDownloads, AfterDownloads, rowVars
<1>2. RowsTyped /\ AskTyped /\ LoadTyped /\ WorkTyped /\ message \in Message
  BY TypesOf DEF RowsTyped
<1>3. LoaderMoves(l, IdleLoader)
  BY <1>1, IdleIs DEF LoaderMoves
<1>4. /\ loader' \in [Loaders -> Loader] /\ loader'[l] = IdleLoader
      /\ \A k \in Loaders \ {l} : loader'[k] = loader[k]
      /\ LoadersAreInOrder'
  BY <1>2, <1>3, MovedIs DEF IntakeInv, LoadTyped
<1>5. /\ AskTyped' /\ (overtaken => overtaken')
      /\ UNCHANGED requested \/ requested' = message.version
      /\ /\ ~message.recalled /\ message.analyze /\ ~overtaken'
         /\ \E v \in Versions : Present(v)
         /\ \A v \in Versions : Terminal(attachment[v])
         => requested' = message.version
  BY <1>1, <1>2, ReadyAsks DEF Present
<1>6. reservation[l] = "none"
  BY <1>1, <1>2 DEF LoadTyped, Granted
<1>7. LoadTyped' /\ RowsTyped' /\ WorkTyped'
  BY <1>1, <1>2, <1>4, <1>6, IdleIs DEF LoadTyped, Granted, RowsTyped, WorkTyped
<1>8. RequestIsDue'
  BY <1>1, <1>5 DEF IntakeInv, RequestIsDue, Stored, Present
<1>9. /\ VersionsAreOfEvents'
      /\ \A v \in Versions : attachment'[v].authorized =>
             attachment[v].authorized \/ attachment[v].download = "DOWNLOADED"
  BY <1>1 DEF IntakeInv, VersionsAreOfEvents, AuthorizedIsReadable
<1> QED
  BY <1>1, <1>4, <1>5, <1>7, <1>8, <1>9, AskingKeeps

LEMMA SetAuthorizationKeeps ==
    ASSUME IntakeInv, NEW v \in Versions, SetAuthorization(v)
    PROVE  IntakeInv'
<1> DEFINE a == [attachment[v] EXCEPT !.authorized = ~attachment[v].authorized]
<1>1. /\ attachment[v].download = "DOWNLOADED"
      /\ UNCHANGED processed /\ UNCHANGED message /\ UNCHANGED document /\ UNCHANGED askVars
      /\ UNCHANGED files /\ UNCHANGED loader /\ UNCHANGED reservation /\ UNCHANGED orphans
      /\ UNCHANGED split /\ UNCHANGED queue /\ UNCHANGED extractor /\ UNCHANGED faults
  BY DEF SetAuthorization, loadVars
<1>2. RowsTyped /\ AskTyped /\ LoadTyped /\ WorkTyped /\ attachment[v] \in Attachment
  BY TypesOf DEF RowsTyped
<1>3. attachment' = [attachment EXCEPT ![v] = a]
  BY <1>2 DEF SetAuthorization, RowsTyped
<1>4. a \in Attachment /\ a.download = "DOWNLOADED" /\ a.extraction = attachment[v].extraction
  BY <1>1, <1>2 DEF Attachment
<1> HIDE DEF a
<1>5. /\ attachment' \in [Versions -> Attachment] /\ attachment'[v] = a
      /\ \A n \in Versions : n # v => attachment'[n] = attachment[n]
  BY <1>2, <1>3, <1>4 DEF RowsTyped
<1>6. RowsTyped' /\ AskTyped' /\ LoadTyped' /\ WorkTyped'
  BY <1>1, <1>2, <1>5 DEF RowsTyped, AskTyped, askVars, LoadTyped, Granted, WorkTyped
<1>7. VersionsAreOfEvents' /\ LoadersAreInOrder'
  BY <1>1 DEF IntakeInv, VersionsAreOfEvents, LoadersAreInOrder
<1>8. \A n \in Versions :
          /\ attachment'[n].authorized => attachment[n].authorized \/ attachment[n].download = "DOWNLOADED"
          /\ attachment'[n].download = attachment[n].download
          /\ attachment'[n].extraction = attachment[n].extraction
  BY <1>1, <1>4, <1>5 DEF IntakeInv, AuthorizedIsReadable
<1>9. RequestIsDue'
  BY <1>1, <1>8, DueStill DEF IntakeInv, Present, Terminal
<1> QED
  BY <1>1, <1>6, <1>7, <1>8, <1>9, AskingKeeps

LEMMA AppliedIs ==
    ASSUME message \in Message, NEW e \in Events, message.version + 1 \in Versions
    PROVE  /\ Applied(e) \in Message /\ Applied(e).version = message.version + 1
           /\ e.op = "recall" => Applied(e).recalled
           /\ e.op # "recall" => Applied(e).analyze = e.analyze
<1>1. e \in Event
  BY IntakeAssumption
<1>2. CASE e.op = "recall"
  <2> DEFINE m == [message EXCEPT !.version = message.version + 1, !.recalled = TRUE]
  <2>1. Applied(e) = m
    BY <1>2 DEF Applied, Message
  <2>2. m \in Message /\ m.version = message.version + 1 /\ m.recalled
    BY DEF Message
  <2> HIDE DEF m
  <2> QED
    BY <1>2, <2>1, <2>2
<1>3. CASE e.op # "recall"
  <2> DEFINE m == [message EXCEPT !.version = message.version + 1, !.channel = e.channel,
                                  !.analyze = e.analyze]
  <2>1. Applied(e) = m
    BY <1>3 DEF Applied, Message
  <2>2. m \in Message /\ m.version = message.version + 1 /\ m.analyze = e.analyze
    BY <1>1 DEF Message, Event
  <2> HIDE DEF m
  <2> QED
    BY <1>3, <2>1, <2>2
<1> QED
  BY <1>2, <1>3

LEMMA IngestKeeps ==
    ASSUME IntakeInv, NEW e \in Events, Ingest(e)
    PROVE  IntakeInv'
<1> DEFINE n == message.version + 1
<1>1. /\ e \notin processed /\ processed' = processed \cup {e}
      /\ UNCHANGED document /\ UNCHANGED files /\ UNCHANGED loader /\ UNCHANGED reservation
      /\ UNCHANGED orphans /\ UNCHANGED split /\ UNCHANGED queue /\ UNCHANGED extractor
      /\ UNCHANGED faults
  BY DEF Ingest, Seen, loadVars
<1>2. /\ RowsTyped /\ AskTyped /\ LoadTyped /\ WorkTyped /\ message \in Message
      /\ attachment \in [Versions -> Attachment] /\ processed \subseteq Events
  BY TypesOf DEF RowsTyped
<1>3. /\ processed' \subseteq Events /\ Cardinality(processed) \in Nat
      /\ Cardinality(processed') = Cardinality(processed) + 1
      /\ Cardinality(processed') <= Cardinality(Events)
  <2>1. IsFiniteSet(processed) /\ IsFiniteSet(Events) /\ processed' \subseteq Events
    BY <1>1, <1>2, IntakeAssumption, FS_Subset
  <2> QED
    BY <1>1, <2>1, FS_AddElement, FS_Subset, FS_CardinalityType
<1>4. message.version \in Nat /\ message.version <= Cardinality(processed)
  <2>1. message.version \in Versions \cup {NoVersion}
    BY <1>2 DEF Message
  <2>2. Versions \subseteq Nat /\ NoVersion \in Nat
    BY Numbers DEF NoVersion
  <2>3. message.version \in Nat
    BY <2>1, <2>2
  <2> QED
    BY <2>3 DEF IntakeInv, VersionsAreOfEvents
<1>5. n \in Versions /\ n \in Nat /\ n # NoVersion /\ n <= Cardinality(processed')
  BY <1>3, <1>4, Numbers DEF NoVersion
<1> HIDE DEF n
<1>6. LoadTyped' /\ WorkTyped' /\ LoadersAreInOrder'
  BY <1>1, <1>2 DEF LoadTyped, Granted, WorkTyped, IntakeInv, LoadersAreInOrder
<1>7. CASE ~TakesEffect(e)
  <2>1. UNCHANGED message /\ UNCHANGED attachment /\ UNCHANGED askVars
    BY <1>7 DEF Ingest
  <2>2. RowsTyped' /\ AskTyped'
    BY <1>1, <1>2, <1>3, <2>1 DEF RowsTyped, AskTyped, askVars
  <2>3. VersionsAreOfEvents' /\ RequestIsDue'
    BY <1>1, <1>3, <1>4, <2>1
       DEF VersionsAreOfEvents, IntakeInv, RequestIsDue, askVars, Stored, Present
  <2>4. \A v \in Versions : attachment'[v].authorized =>
             attachment[v].authorized \/ attachment[v].download = "DOWNLOADED"
    BY <2>1 DEF IntakeInv, AuthorizedIsReadable
  <2> QED
    BY <1>1, <1>6, <2>1, <2>2, <2>3, <2>4, AskingKeeps
<1>8. CASE TakesEffect(e)
  <2>1. /\ message' \in Message /\ message'.version = n
        /\ e.op = "recall" => message'.recalled
        /\ e.op # "recall" => message'.analyze = e.analyze
    <3>1. message' = Applied(e)
      BY <1>8 DEF Ingest
    <3> QED
      BY <1>2, <1>5, <3>1, AppliedIs DEF n
  <2>2. attachment' = IF e.file /\ e.op # "recall"
                      THEN [attachment EXCEPT ![n] = NewAttachment] ELSE attachment
    BY <1>8, <2>1 DEF Ingest
  <2>3. NewAttachment \in Attachment /\ NewAttachment.download = "PENDING" /\ ~NewAttachment.authorized
    BY DEF NewAttachment, Attachment
  <2>4. /\ attachment' \in [Versions -> Attachment]
        /\ \A v \in Versions : attachment'[v] = attachment[v] \/ attachment'[v] = NewAttachment
        /\ e.file /\ e.op # "recall" => attachment'[n] = NewAttachment
    BY <1>2, <1>5, <2>2, <2>3
  <2>5. \/ Gate(message') /\ e.op # "recall" /\ e.analyze /\ ~e.file
        \/ UNCHANGED askVars /\ ~(e.op # "recall" /\ e.analyze /\ ~e.file)
    BY <1>8 DEF Ingest
  <2>6. /\ AskTyped' /\ (overtaken => overtaken')
        /\ /\ e.op # "recall" /\ e.analyze /\ ~e.file
           /\ ~message'.recalled /\ message'.analyze /\ ~overtaken'
           => requested' = message'.version
    <3>1. CASE Gate(message') /\ e.op # "recall" /\ e.analyze /\ ~e.file
      BY <1>2, <1>5, <2>1, <3>1, GateAsks
    <3>2. CASE UNCHANGED askVars /\ ~(e.op # "recall" /\ e.analyze /\ ~e.file)
      BY <1>2, <3>2 DEF askVars, AskTyped
    <3> QED
      BY <2>5, <3>1, <3>2
  <2>7. RowsTyped'
    BY <1>1, <1>2, <1>3, <2>1, <2>4 DEF RowsTyped
  <2>8. VersionsAreOfEvents'
    BY <1>5, <2>1 DEF VersionsAreOfEvents
  <2>9. RequestIsDue'
    <3> SUFFICES ASSUME ~overtaken', ~message'.recalled, message'.analyze
                 PROVE  \/ requested' = message'.version
                        \/ /\ \E v \in Versions : attachment'[v].download # "absent"
                           /\ \E v \in Versions : ~Terminal(attachment'[v])
      BY DEF RequestIsDue, Present, Stored
    <3>1. e.op # "recall" /\ e.analyze
      BY <2>1
    <3>2. CASE ~e.file
      BY <2>6, <3>1, <3>2
    <3>3. CASE e.file
      BY <1>5, <2>3, <2>4, <3>1, <3>3 DEF Terminal
    <3> QED
      BY <3>2, <3>3
  <2>10. \A v \in Versions :
            /\ attachment'[v].download = "DOWNLOADED" => attachment[v].download = "DOWNLOADED"
            /\ attachment'[v].authorized => attachment[v].authorized
    BY <2>3, <2>4 DEF IntakeInv, AuthorizedIsReadable
  <2> QED
    BY <1>1, <1>6, <2>6, <2>7, <2>8, <2>9, <2>10, AskingKeeps
<1> QED
  BY <1>7, <1>8

-----------------------------------------------------------------------------
\* A step of an extractor or of the dispatcher leaves the loaders alone.
LoadersSame ==
    /\ UNCHANGED files /\ UNCHANGED loader /\ UNCHANGED reservation /\ UNCHANGED orphans
    /\ UNCHANGED split

\* An attachment whose extraction gets to y.
LEMMA ExtractionMoves ==
    ASSUME attachment \in [Versions -> Attachment], NEW v \in Versions,
           NEW y \in {"EXTRACTING", "ENDED"},
           attachment' = [attachment EXCEPT ![v].extraction = y]
    PROVE  /\ attachment' \in [Versions -> Attachment] /\ attachment'[v].extraction = y
           /\ \A n \in Versions : /\ attachment'[n].download = attachment[n].download
                                  /\ attachment'[n].authorized = attachment[n].authorized
                                  /\ n # v => attachment'[n] = attachment[n]
<1> DEFINE a == [attachment[v] EXCEPT !.extraction = y]
<1>1. attachment' = [attachment EXCEPT ![v] = a] /\ attachment[v] \in Attachment
  OBVIOUS
<1>2. /\ a \in Attachment /\ a.extraction = y /\ a.download = attachment[v].download
      /\ a.authorized = attachment[v].authorized
  BY <1>1 DEF Attachment
<1> HIDE DEF a
<1>3. /\ attachment' \in [Versions -> Attachment] /\ attachment'[v] = a
      /\ \A n \in Versions : n # v => attachment'[n] = attachment[n]
  BY <1>1, <1>2
<1> QED
  BY <1>2, <1>3

LEMMA LoadersSameKeeps ==
    ASSUME IntakeInv, LoadersSame, RowsTyped', AskTyped', WorkTyped', UNCHANGED processed,
           UNCHANGED message, RequestIsDue', UNCHANGED faults \/ NextFault,
           \A n \in Versions : /\ attachment'[n].download = attachment[n].download
                               /\ attachment'[n].authorized = attachment[n].authorized
    PROVE  IntakeInv'
<1>1. LoadTyped' /\ LoadersAreInOrder' /\ VersionsAreOfEvents'
  BY TypesOf DEF LoadersSame, LoadTyped, Granted, IntakeInv, LoadersAreInOrder, VersionsAreOfEvents
<1> QED
  BY <1>1, AskingKeeps DEF LoadersSame

LEMMA PrepareExtractionKeeps ==
    ASSUME IntakeInv, NEW x \in Extractors, NEW v \in Versions, PrepareExtraction(x, v)
    PROVE  IntakeInv'
<1>1. /\ LoadersSame /\ UNCHANGED processed /\ UNCHANGED message /\ UNCHANGED askVars /\ UNCHANGED faults
      /\ queue' \subseteq queue
      /\ UNCHANGED extractor \/ extractor' = [extractor EXCEPT ![x] = v]
      /\ \/ UNCHANGED attachment /\ UNCHANGED document
         \/ /\ attachment[v].download = "DOWNLOADED"
            /\ document' = [document EXCEPT ![v] = "EXTRACTING"]
            /\ attachment' = [attachment EXCEPT ![v].extraction = "EXTRACTING"]
  BY DEF PrepareExtraction, LoadersSame, loadVars
<1>2. RowsTyped /\ AskTyped /\ WorkTyped /\ attachment \in [Versions -> Attachment]
  BY TypesOf DEF RowsTyped
<1>3. /\ attachment' \in [Versions -> Attachment]
      /\ \A n \in Versions : /\ attachment'[n].download = attachment[n].download
                             /\ attachment'[n].authorized = attachment[n].authorized
                             /\ Terminal(attachment'[n]) => Terminal(attachment[n])
  <2>1. CASE UNCHANGED attachment
    BY <1>2, <2>1
  <2>2. CASE /\ attachment[v].download = "DOWNLOADED"
             /\ attachment' = [attachment EXCEPT ![v].extraction = "EXTRACTING"]
    <3>1. /\ attachment' \in [Versions -> Attachment] /\ attachment'[v].extraction = "EXTRACTING"
          /\ \A n \in Versions : /\ attachment'[n].download = attachment[n].download
                                 /\ attachment'[n].authorized = attachment[n].authorized
                                 /\ n # v => attachment'[n] = attachment[n]
      BY <1>2, <2>2, ExtractionMoves
    <3> QED
      BY <2>2, <3>1 DEF Terminal
  <2> QED
    BY <1>1, <2>1, <2>2
<1>4. RowsTyped' /\ AskTyped'
  BY <1>1, <1>2, <1>3 DEF RowsTyped, Extraction, AskTyped, askVars
<1>5. WorkTyped'
  BY <1>1, <1>2 DEF WorkTyped
<1>6. RequestIsDue'
  BY <1>1, <1>3, DueStill DEF IntakeInv, LoadersSame, Present
<1> QED
  BY <1>1, <1>3, <1>4, <1>5, <1>6, LoadersSameKeeps

LEMMA EndExtractionKeeps ==
    ASSUME IntakeInv, NEW x \in Extractors, EndExtraction(x)
    PROVE  IntakeInv'
<1> DEFINE v == extractor[x]
<1>1. /\ LoadersSame /\ UNCHANGED processed /\ UNCHANGED message /\ UNCHANGED faults
      /\ extractor' = [extractor EXCEPT ![x] = NoVersion] /\ v # NoVersion
      /\ \/ /\ document' = [document EXCEPT ![v] = "ENDED"]
            /\ attachment' = [attachment EXCEPT ![v].extraction = "ENDED"]
            /\ RequestIfReady(attachment')
            /\ queue' = queue \ {v}
         \/ UNCHANGED document /\ UNCHANGED attachment /\ UNCHANGED askVars /\ UNCHANGED queue
  BY DEF EndExtraction, LoadersSame, loadVars
<1>2. /\ RowsTyped /\ AskTyped /\ WorkTyped /\ attachment \in [Versions -> Attachment]
      /\ message \in Message /\ v \in Versions
  BY <1>1, TypesOf DEF RowsTyped, WorkTyped
<1> HIDE DEF v
<1>3. WorkTyped'
  BY <1>1, <1>2 DEF WorkTyped
<1>4. CASE UNCHANGED document /\ UNCHANGED attachment /\ UNCHANGED askVars /\ UNCHANGED queue
  <2>1. RowsTyped' /\ AskTyped'
    BY <1>1, <1>2, <1>4 DEF RowsTyped, AskTyped, askVars
  <2>2. RequestIsDue'
    BY <1>1, <1>4, DueStill DEF IntakeInv, LoadersSame, Present
  <2> QED
    BY <1>1, <1>3, <1>4, <2>1, <2>2, LoadersSameKeeps
<1>5. CASE /\ document' = [document EXCEPT ![v] = "ENDED"]
           /\ attachment' = [attachment EXCEPT ![v].extraction = "ENDED"]
           /\ RequestIfReady(attachment')
           /\ queue' = queue \ {v}
  <2>1. /\ attachment' \in [Versions -> Attachment]
        /\ \A n \in Versions : /\ attachment'[n].download = attachment[n].download
                               /\ attachment'[n].authorized = attachment[n].authorized
    BY <1>2, <1>5, ExtractionMoves
  <2> DEFINE rows == attachment'
  <2>2. RequestIfReady(rows)
    BY <1>5
  <2> HIDE DEF rows
  <2>3. /\ AskTyped' /\ (overtaken => overtaken')
        /\ UNCHANGED requested \/ requested' = message.version
        /\ /\ ~message.recalled /\ message.analyze /\ ~overtaken'
           /\ \E n \in Versions : rows[n].download # "absent"
           /\ \A n \in Versions : Terminal(rows[n])
           => requested' = message.version
    BY <1>2, <2>2, ReadyAsks
  <2>4. RowsTyped'
    BY <1>1, <1>2, <1>5, <2>1 DEF RowsTyped, Extraction
  <2>5. RequestIsDue'
    <3> SUFFICES ASSUME faults = 0, ~overtaken', Stored, ~message.recalled, message.analyze
                 PROVE  \/ requested' = message.version
                        \/ /\ \E n \in Versions : attachment'[n].download # "absent"
                           /\ \E n \in Versions : ~Terminal(attachment'[n])
      BY <1>1 DEF RequestIsDue, Present, Stored
    <3>1. CASE requested = message.version
      BY <2>3, <3>1
    <3>2. CASE requested # message.version
      <4>1. \E n \in Versions : Present(n)
        BY <2>3, <3>2 DEF IntakeInv, RequestIsDue
      <4>2. \E n \in Versions : rows[n].download # "absent"
        BY <2>1, <4>1 DEF Present, rows
      <4> QED
        BY <2>3, <4>2 DEF rows
    <3> QED
      BY <3>1, <3>2
  <2> QED
    BY <1>1, <1>3, <2>1, <2>3, <2>4, <2>5, LoadersSameKeeps
<1> QED
  BY <1>1, <1>4, <1>5

LEMMA RequestStepKeeps ==
    ASSUME IntakeInv, SendTask \/ PublishRequest \/ \E x \in Extractors : CrashExtractor(x)
    PROVE  IntakeInv'
<1>1. /\ LoadersSame /\ UNCHANGED processed /\ UNCHANGED message /\ UNCHANGED attachment
      /\ UNCHANGED document /\ UNCHANGED requested /\ UNCHANGED overtaken /\ UNCHANGED queue
      /\ UNCHANGED request \/ request' \in {"sent", "none"}
      /\ UNCHANGED faults \/ NextFault
      /\ UNCHANGED extractor \/ \E x \in Extractors : extractor' = [extractor EXCEPT ![x] = NoVersion]
  BY DEF SendTask, PublishRequest, CrashExtractor, LoadersSame, loadVars, rowVars, askVars
<1>2. RowsTyped /\ AskTyped /\ WorkTyped
  BY TypesOf
<1>3. faults' \in 0..MaxFaults /\ (faults' = 0 => faults = 0)
  BY <1>1, <1>2, Numbers DEF NextFault, WorkTyped
<1>4. RowsTyped' /\ AskTyped'
  BY <1>1, <1>2 DEF RowsTyped, AskTyped, Request
<1>5. WorkTyped'
  BY <1>1, <1>2, <1>3 DEF WorkTyped
<1>6. RequestIsDue'
  BY <1>1, <1>3 DEF IntakeInv, RequestIsDue, LoadersSame, Stored, Present
<1> QED
  BY <1>1, <1>4, <1>5, <1>6, LoadersSameKeeps

-----------------------------------------------------------------------------
LEMMA InitKeeps ==
    ASSUME IntakeInit
    PROVE  IntakeInv
<1>1. /\ processed = {} /\ message = NoMessage /\ attachment = [v \in Versions |-> NoAttachment]
      /\ files = {} /\ document = [v \in Versions |-> "none"]
      /\ loader = [l \in Loaders |-> IdleLoader] /\ reservation = [l \in Loaders |-> "none"]
      /\ orphans = 0 /\ queue = {} /\ extractor = [x \in Extractors |-> NoVersion]
      /\ request = "none" /\ requested = NoVersion /\ ~overtaken /\ ~split /\ faults = 0
      /\ overtaken \in BOOLEAN /\ split \in BOOLEAN
  BY DEF IntakeInit
<1>2. /\ NoAttachment \in Attachment /\ NoAttachment.download = "absent"
      /\ ~NoAttachment.authorized
  BY DEF NoAttachment, NewAttachment, Attachment
<1>3. NoMessage \in Message /\ NoMessage.version = NoVersion
  BY DEF NoMessage, Message
<1>4. 0 \in 0..MaxFaults
  BY Numbers
<1>5. RowsTyped /\ AskTyped
  BY <1>1, <1>2, <1>3 DEF RowsTyped, AskTyped, Extraction, Request
<1>6. LoadTyped /\ WorkTyped
  BY <1>1, <1>4, IdleIs DEF LoadTyped, Granted, WorkTyped, Reservation
<1>7. IntakeTypeOK
  BY <1>5, <1>6, TypeParts
<1>8. VersionsAreOfEvents /\ OrphansAreOfFaults
  BY <1>1, <1>3, FS_EmptySet DEF VersionsAreOfEvents, OrphansAreOfFaults, NoVersion
<1>9. LoadersAreInOrder /\ FilesHaveOneCreator /\ AuthorizedIsReadable /\ LapsesAreFaults
  BY <1>1, <1>2, IdleIs
     DEF LoadersAreInOrder, FilesHaveOneCreator, Creator, AuthorizedIsReadable, LapsesAreFaults
<1>10. QuotaIsKept
  <2>1. Downloaded = {}
    BY <1>1, <1>2 DEF Downloaded
  <2>2. Holders = {}
    BY <1>1 DEF Holders
  <2>3. Cardinality({}) = 0
    BY FS_EmptySet
  <2>4. Cardinality(Downloaded) = 0 /\ Held = 0
    BY <1>1, <2>1, <2>2, <2>3 DEF Held
  <2> QED
    BY <1>1, <2>4, Numbers, IdleIs DEF QuotaIsKept
<1>11. RequestIsDue
  BY <1>1, <1>3 DEF RequestIsDue, Stored
<1> QED
  BY <1>7, <1>8, <1>9, <1>10, <1>11 DEF IntakeInv

LEMMA StepKeeps ==
    ASSUME IntakeInv, IntakeNext
    PROVE  IntakeInv'
<1>1. CASE \E e \in Events : Ingest(e)
  BY <1>1, IngestKeeps
<1>2. CASE \E v \in Versions : SetAuthorization(v)
  BY <1>2, SetAuthorizationKeeps
<1>3. ASSUME NEW l \in Loaders, LoaderNext(l) PROVE IntakeInv'
  <2>1. CASE ListPending(l) \/ ReadListed(l) \/ ReadRow(l) \/ MarkDownloading(l) \/ Fetch(l)
    BY <2>1, ListPendingKeeps, ReadListedKeeps, ReadRowKeeps, MarkDownloadingKeeps, FetchKeeps
  <2>2. CASE SumStored(l) \/ Reserve(l) \/ WriteFile(l) \/ StoreDownloaded(l)
    BY <2>2, SumStoredKeeps, ReserveKeeps, WriteFileKeeps, StoreDownloadedKeeps
  <2>3. CASE \/ Unwind(l) \/ Release(l) \/ SaveFailed(l) \/ FinishDownloads(l)
             \/ Lapse(l) \/ Crash(l)
    BY <2>3, UnwindKeeps, ReleaseKeeps, SaveFailedKeeps, FinishDownloadsKeeps, LapseKeeps, CrashKeeps
  <2> QED
    BY <1>3, <2>1, <2>2, <2>3 DEF LoaderNext
<1>4. CASE \E x \in Extractors : ExtractorNext(x)
  BY <1>4, PrepareExtractionKeeps, EndExtractionKeeps, RequestStepKeeps DEF ExtractorNext
<1>5. CASE SendTask \/ PublishRequest
  BY <1>5, RequestStepKeeps
<1>6. CASE OrphanLapses
  BY <1>6, OrphanLapsesKeeps
<1> QED
  BY <1>1, <1>2, <1>3, <1>4, <1>5, <1>6 DEF IntakeNext

LEMMA StutterKeeps ==
    ASSUME IntakeInv, UNCHANGED intakeVars
    PROVE  IntakeInv'
<1>1. /\ LoadersSame /\ UNCHANGED processed /\ UNCHANGED message /\ UNCHANGED attachment
      /\ UNCHANGED document /\ UNCHANGED request /\ UNCHANGED requested /\ UNCHANGED overtaken
      /\ UNCHANGED queue /\ UNCHANGED extractor /\ UNCHANGED faults
  BY DEF intakeVars, rowVars, askVars, loadVars, LoadersSame
<1>2. RowsTyped' /\ AskTyped' /\ WorkTyped'
  BY <1>1, TypesOf DEF RowsTyped, AskTyped, WorkTyped
<1>3. RequestIsDue'
  BY <1>1 DEF IntakeInv, RequestIsDue, LoadersSame, Stored, Present
<1> QED
  BY <1>1, <1>2, <1>3, LoadersSameKeeps

LEMMA Invariance == IntakeSpec => []IntakeInv
<1>1. IntakeInit => IntakeInv
  BY InitKeeps
<1>2. IntakeInv /\ [IntakeNext]_intakeVars => IntakeInv'
  BY StepKeeps, StutterKeeps
<1> QED
  BY <1>1, <1>2, PTL DEF IntakeSpec

-----------------------------------------------------------------------------
\* Every variable stays within its type; a loader has a reservation from the grant
\* of storage_quota.reserve to the transaction that stores the attachment.
THEOREM IntakeTypeCorrect == IntakeSpec => []IntakeTypeOK
BY Invariance, PTL DEF IntakeInv

\* What is recorded as downloaded has its file, however many loaders download the
\* same attachment, fail and clean up: the one that linked the file is the only one
\* to unlink it, and it does not once its row is stored.
THEOREM WhatIsAuthorizedIsThere == IntakeSpec => []AuthorizedIsReadable
BY Invariance, PTL DEF IntakeInv

\* The downloaded attachments fit into the quota, for any number of loaders,
\* refusals, lapses and crashes, unless one is stored between the two sums of
\* storage_quota.reserve.
THEOREM QuotaIsNeverExceeded == IntakeSpec => []QuotaHolds
<1>1. IntakeInv => QuotaHolds
  <2> SUFFICES ASSUME IntakeInv, ~split PROVE Cardinality(Downloaded) <= Quota
    BY DEF QuotaHolds
  <2>1. RowsTyped /\ LoadTyped
    BY TypesOf
  <2>2. Cardinality(Downloaded) \in Nat /\ Held \in Nat
    BY <2>1, DownloadedIs, HeldIs
  <2>3. Cardinality(Downloaded) + Held <= Quota
    BY DEF IntakeInv, QuotaIsKept
  <2> QED
    BY <2>2, <2>3, Numbers
<1> QED
  BY <1>1, Invariance, PTL

\* When the last loader is idle and every attachment is done with, the analysis of
\* the newest version has been asked for, whoever of the loaders and extractors
\* was the last (_request_analysis_if_ready).
THEOREM AnalysisIsRequested == IntakeSpec => []RequestedWhenReady
<1>1. IntakeInv => RequestedWhenReady
  BY DEF IntakeInv, RequestIsDue, RequestedWhenReady
<1> QED
  BY <1>1, Invariance, PTL
=============================================================================
