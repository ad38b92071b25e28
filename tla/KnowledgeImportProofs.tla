------------------------ MODULE KnowledgeImportProofs ------------------------
(***************************************************************************)
(* What an import stores and promises, for every number of importers,      *)
(* paths, contents, scans, changes, failures and corrections.              *)
(*                                                                         *)
(* That a stored text is of its version rests on the stamps of the files:  *)
(* a file that still has the stamp of the listing still has its content,   *)
(* so what was read between the two checks of an extraction is the text of *)
(* that content.  That a completed scan left every file searchable rests   *)
(* on what an importer that did not fail has in hand at each step, and on  *)
(* searchability being stable.  That a withdrawn file is not served rests  *)
(* on a content having one version, and that a law is served first on the  *)
(* set that the selection takes: there is one, by induction over the       *)
(* candidates, and no other.                                               *)
(***************************************************************************)
EXTENDS KnowledgeImport, FiniteSetTheorems, TLAPS

\* What the rows are is visible everywhere.
USE DEF SourceRows, ObservationRows, SegmentRows, DocumentRows

Busy(i) == importer[i].at \notin {"idle", "next"}

ContentOf(i) == importer[i].listing[importer[i].path].content

Extracting(i) ==
    \/ importer[i].at \in {"check", "extract", "recheck", "register"}
    \/ importer[i].at = "commit" /\ importer[i].work = "extract"

Available(c) == \E v \in Versions : v[2] = c /\ segments[v] # {} /\ document[v].there

\* A file has changed no later than the last change.
StampsArePast == \A p \in Paths : file[p].stamp <= used.changes

\* A listed file had a content, and still has it unless its stamp is newer.
ListingIsPast ==
    \A i \in Importers : \A p \in importer[i].seen :
        /\ importer[i].listing[p].content \in Contents
        /\ importer[i].listing[p].stamp <= file[p].stamp
        /\ importer[i].listing[p].stamp = file[p].stamp
               => importer[i].listing[p].content = file[p].content

\* The file an importer is at is one it has listed and taken.
PathInHand ==
    \A i \in Importers :
        /\ importer[i].left \subseteq importer[i].seen
        /\ Busy(i) => importer[i].path \in importer[i].seen \ importer[i].left

\* An extraction is that of a version of the content that was listed.
VersionInHand ==
    \A i \in Importers : Extracting(i) =>
        importer[i].version \in Versions /\ importer[i].version[2] = ContentOf(i)

\* What was extracted is that content, unless the second check will fail.
ResultInHand ==
    \A i \in Importers :
        /\ importer[i].at = "recheck"
           /\ file[importer[i].path].stamp = importer[i].listing[importer[i].path].stamp
               => importer[i].result = TextOf[ContentOf(i)]
        /\ importer[i].at = "register" => importer[i].result = TextOf[ContentOf(i)]

\* What is only observed is searchable, and a document that was found is there.
FoundInHand ==
    \A i \in Importers :
        /\ importer[i].at = "commit" /\ importer[i].work = "observe"
           /\ importer[i].path \in Supported => Available(ContentOf(i))
        /\ importer[i].at = "register" /\ importer[i].found
               => document[importer[i].version].there

\* A scan that has not failed left every file it has handled searchable.
HandledIsAvailable ==
    \A i \in Importers : ~importer[i].failed =>
        \A p \in (importer[i].seen \ importer[i].left) \cap Supported :
            \/ Busy(i) /\ p = importer[i].path
            \/ Available(importer[i].listing[p].content)

IInv ==
    /\ KnowledgeTypeOK
    /\ StampsArePast
    /\ ListingIsPast
    /\ PathInHand
    /\ VersionInHand
    /\ ResultInHand
    /\ FoundInHand
    /\ HandledIsAvailable
    /\ TextIsOfItsVersion
    /\ CompletedScanIsSearchable

\* As long as none has overlapped, one import runs at a time.
OneAtATime ==
    ~overlap => \A i, j \in Importers :
        importer[i].at # "idle" /\ importer[j].at # "idle" => i = j

\* What is observed, extracted or searched is a version that has been created.
CreatedBefore ==
    /\ \A v \in Versions : document[v].there => created[v] # 0
    /\ \A p \in Paths : observed[p] \in Versions => created[observed[p]] # 0
    /\ \A i \in Importers : importer[i].at \in {"check", "extract", "recheck", "register"} =>
           created[importer[i].version] # 0

\* A version that is to be created is the first of its content.
NewInHand ==
    ~overlap => \A i \in Importers :
        importer[i].at = "commit" /\ importer[i].version \in Versions =>
            \/ created[importer[i].version] # 0
            \/ \A u \in Versions : u[2] = importer[i].version[2] => created[u] = 0

\* And so a content has one version, under whichever paths it is found.
OneVersion ==
    ~overlap => \A u, v \in Versions :
        u[2] = v[2] /\ created[u] # 0 /\ created[v] # 0 => u = v

\* What holds of the versions as long as imports do not overlap rests on IInv.
VersionInv ==
    /\ OneAtATime
    /\ CreatedBefore
    /\ NewInHand
    /\ OneVersion

-----------------------------------------------------------------------------
LEMMA VersionsAreFinite == IsFiniteSet(Versions)
BY KnowledgeAssumption, FS_Product DEF Versions

\* What Idle and Turned build is an importer.
LEMMA IdleType == Idle \in Importer
<1>1. SomePath \in Paths
  BY KnowledgeAssumption DEF SomePath
<1>2. NoFile \in File
  BY KnowledgeAssumption DEF NoFile, File
<1> QED
  BY <1>1, <1>2 DEF Idle, Importer

LEMMA TurnedType ==
    ASSUME KnowledgeTypeOK, NEW i \in Importers, NEW failed \in BOOLEAN
    PROVE  Turned(i, failed) \in Importer
<1>1. /\ importer[i].listing \in [Paths -> File] /\ importer[i].failed \in BOOLEAN
      /\ importer[i].left \in SUBSET Paths /\ importer[i].seen \in SUBSET Paths
  BY DEF KnowledgeTypeOK, Importer
<1>2. (importer[i].failed \/ failed) \in BOOLEAN
  OBVIOUS
<1> QED
  BY <1>1, <1>2, IdleType DEF Turned, Importer

LEMMA DecisionType ==
    ASSUME NEW p \in Paths, NEW c \in Contents
    PROVE  Decision(p, c) \in [work : {"observe", "extract"}, version : Versions \cup {NoVersion}]
<1> DEFINE same == {v \in Versions : v = observed[p] /\ v[2] = c}
           known == IF \E v \in same : Searchable(v) THEN same ELSE Canonical(c)
           retry == IF same # {} THEN same ELSE Canonical(c)
<1>1. same \subseteq Versions /\ Canonical(c) \subseteq Versions /\ <<p, c>> \in Versions
  BY DEF Canonical, Versions
<1>2. known \subseteq Versions /\ retry \subseteq Versions
  BY <1>1
<1>3. known # {} => (CHOOSE v \in known : TRUE) \in Versions
  BY <1>2
<1>4. retry # {} => (CHOOSE v \in retry : TRUE) \in Versions
  BY <1>2
<1>5. Decision(p, c) =
        IF p \notin Supported THEN [work |-> "observe", version |-> NoVersion]
        ELSE IF \E v \in known : Searchable(v)
        THEN [work |-> "observe", version |-> CHOOSE v \in known : TRUE]
        ELSE [work |-> "extract",
              version |-> IF retry # {} THEN CHOOSE v \in retry : TRUE ELSE <<p, c>>]
  BY DEF Decision
<1> HIDE DEF known, retry, same
<1> QED
  BY <1>1, <1>3, <1>4, <1>5

LEMMA StartedType ==
    ASSUME KnowledgeTypeOK, NEW listed \in SUBSET Paths, NEW failed \in BOOLEAN
    PROVE  Started(listed, failed) \in Importer
<1>1. NoFile \in File
  BY KnowledgeAssumption DEF NoFile, File
<1> QED
  BY <1>1, IdleType DEF KnowledgeTypeOK, Started, Importer

LEMMA BoundsAreNaturals ==
    /\ {MaxScans, MaxChanges, MaxFaults, MaxCorrections} \subseteq Nat
    /\ MaxScans \in Nat /\ MaxChanges \in Nat /\ MaxFaults \in Nat /\ MaxCorrections \in Nat
    /\ Cardinality(Versions) \in Nat
BY KnowledgeAssumption, VersionsAreFinite, FS_CardinalityType

LEMMA TypeInit == KnowledgeInit => KnowledgeTypeOK
<1> SUFFICES ASSUME KnowledgeInit PROVE KnowledgeTypeOK
  OBVIOUS
<1> USE DEF KnowledgeInit
<1>1. NoDocument \in Document
  <2>1. Authorities # {}
    BY KnowledgeAssumption
  <2> QED
    BY <2>1 DEF NoDocument, Document
<1>2. file \in [Paths -> File]
  BY BoundsAreNaturals DEF File
<1>3. created \in [Versions -> 0..Cardinality(Versions)]
  BY BoundsAreNaturals
<1>4. used \in [scans : 0..MaxScans, changes : 0..MaxChanges, faults : 0..MaxFaults,
                corrections : 0..MaxCorrections]
  BY BoundsAreNaturals
<1>5. importer \in [Importers -> Importer]
  BY IdleType
<1> QED
  BY <1>1, <1>2, <1>3, <1>4, <1>5 DEF KnowledgeTypeOK

\* A listed file has a content, so the decision about it is one.
LEMMA ListedType ==
    ASSUME IInv, NEW i \in Importers, NEW p \in importer[i].left
    PROVE  /\ p \in Paths /\ p \in importer[i].seen
           /\ importer[i].listing[p].content \in Contents
BY DEF IInv, KnowledgeTypeOK, Importer, PathInHand, ListingIsPast

LEMMA TypeStep == IInv /\ [KnowledgeNext]_knowledgeVars => KnowledgeTypeOK'
<1> SUFFICES ASSUME IInv, [KnowledgeNext]_knowledgeVars
             PROVE  KnowledgeTypeOK'
  OBVIOUS
<1>0. KnowledgeTypeOK
  BY DEF IInv
<1> USE <1>0 DEF KnowledgeTypeOK, dirVars, rowVars
<1>1. ASSUME NEW p \in Paths, ChangeFile(p)
      PROVE  KnowledgeTypeOK'
  BY <1>1, BoundsAreNaturals DEF ChangeFile, File
<1>2. ASSUME NEW i \in Importers, StartScan(i)
      PROVE  KnowledgeTypeOK'
  <2>1. PICK unread \in SUBSET {p \in Paths : file[p].content # Absent} :
            /\ used.faults + Cardinality(unread) <= MaxFaults
            /\ used' = [used EXCEPT !.scans = @ + 1, !.faults = @ + Cardinality(unread)]
            /\ importer' = [importer EXCEPT ![i] =
                  Started({p \in Paths : file[p].content # Absent} \ unread, unread # {})]
    BY <1>2 DEF StartScan
  <2>2. Cardinality(unread) \in Nat
    BY KnowledgeAssumption, FS_Subset, FS_CardinalityType
  <2>3. used.scans < MaxScans
    BY <1>2 DEF StartScan
  <2>4. used' \in [scans : 0..MaxScans, changes : 0..MaxChanges, faults : 0..MaxFaults,
                   corrections : 0..MaxCorrections]
    <3>1. used.scans + 1 \in 0..MaxScans /\ used.faults + Cardinality(unread) \in 0..MaxFaults
      BY <2>1, <2>2, <2>3, BoundsAreNaturals
    <3> QED
      BY <2>1, <3>1
  <2>5. Started({p \in Paths : file[p].content # Absent} \ unread, unread # {}) \in Importer
    BY StartedType
  <2>6. importer' \in [Importers -> Importer]
    BY <2>1, <2>5
  <2>7. overlap' \in BOOLEAN
    BY <1>2 DEF StartScan
  <2> QED
    BY <1>2, <2>4, <2>6, <2>7 DEF StartScan
<1>3. ASSUME NEW i \in Importers, Decide(i)
      PROVE  KnowledgeTypeOK'
  <2>1. PICK p \in importer[i].left :
            importer' = [importer EXCEPT ![i] = [@ EXCEPT
                  !.at = "commit", !.left = importer[i].left \ {p}, !.path = p,
                  !.work = Decision(p, importer[i].listing[p].content).work,
                  !.version = Decision(p, importer[i].listing[p].content).version]]
    BY <1>3 DEF Decide
  <2>2. Decision(p, importer[i].listing[p].content) \in
            [work : {"observe", "extract"}, version : Versions \cup {NoVersion}]
    BY ListedType, DecisionType
  <2> DEFINE d == Decision(p, importer[i].listing[p].content)
             new == [importer[i] EXCEPT !.at = "commit", !.left = importer[i].left \ {p}, !.path = p,
                                        !.work = d.work, !.version = d.version]
  <2>3. importer' = [importer EXCEPT ![i] = new]
    BY <2>1
  <2>4. new \in Importer
    <3>1. d.work \in {"observe", "extract"} /\ d.version \in Versions \cup {NoVersion}
      BY <2>2
    <3>2. importer[i] \in Importer
      OBVIOUS
    <3> HIDE DEF d
    <3> QED
      BY <3>1, <3>2, ListedType DEF Importer
  <2> HIDE DEF new
  <2>5. importer' \in [Importers -> Importer]
    BY <2>3, <2>4
  <2> QED
    BY <1>3, <2>5 DEF Decide
<1>4. ASSUME NEW i \in Importers, Commit(i)
      PROVE  KnowledgeTypeOK'
  <2> DEFINE v == importer[i].version
             there == {u \in Versions : created[u] # 0}
  <2>1. importer[i] \in Importer
    OBVIOUS
  <2>2. v \in Versions \cup {NoVersion} /\ importer[i].path \in Paths
    BY <2>1 DEF Importer
  <2>3. ASSUME NEW u \in Versions, created[u] = 0
        PROVE  Cardinality(there) + 1 \in 0..Cardinality(Versions)
    <3>1. IsFiniteSet(there) /\ IsFiniteSet(Versions \ {u})
      BY VersionsAreFinite, FS_Subset
    <3>2. Cardinality(Versions \ {u}) = Cardinality(Versions) - 1
      BY VersionsAreFinite, FS_RemoveElement
    <3>3. there \subseteq Versions \ {u}
      BY <2>3
    <3>4. Cardinality(there) <= Cardinality(Versions \ {u}) /\ Cardinality(there) \in Nat
      BY <3>1, <3>3, FS_Subset, FS_CardinalityType
    <3> QED
      BY <3>2, <3>4, BoundsAreNaturals
  <2>4. created' = [u \in Versions |->
                       IF u = v /\ created[u] = 0 THEN Cardinality(there) + 1 ELSE created[u]]
    BY <1>4 DEF Commit
  <2>5. created' \in [Versions -> 0..Cardinality(Versions)]
    BY <2>3, <2>4
  <2>6. Turned(i, FALSE) \in Importer
    BY TurnedType
  <2>7. [importer[i] EXCEPT !.at = "check"] \in Importer
    BY <2>1 DEF Importer
  <2>8. importer' \in [Importers -> Importer]
    BY <1>4, <2>6, <2>7 DEF Commit
  <2>9. source' \in [Paths -> {"none", "active", "missing"}]
        /\ observed' \in [Paths -> Versions \cup {NoVersion}]
    BY <1>4, <2>2 DEF Commit
  <2> QED
    BY <1>4, <2>5, <2>8, <2>9 DEF Commit
<1>5. ASSUME NEW i \in Importers, Failed(i)
      PROVE  importer' \in [Importers -> Importer]
  BY <1>5, TurnedType DEF Failed
<1>6. ASSUME NEW i \in Importers, Check(i)
      PROVE  KnowledgeTypeOK'
  <2>1. [importer[i] EXCEPT !.at = "extract"] \in Importer
    <3>1. importer[i] \in Importer
      OBVIOUS
    <3> QED
      BY <3>1 DEF Importer
  <2>2. importer' \in [Importers -> Importer]
    BY <1>5, <1>6, <2>1 DEF Check
  <2> QED
    BY <1>6, <2>2 DEF Check
<1>7. ASSUME NEW i \in Importers, Extract(i)
      PROVE  KnowledgeTypeOK'
  <2>1. importer[i] \in Importer /\ importer[i].path \in Paths
    <3>1. importer[i] \in Importer
      OBVIOUS
    <3> QED
      BY <3>1 DEF Importer
  <2>2. /\ file[importer[i].path].content \in Contents \cup {Absent}
        /\ \A c \in Contents : TextOf[c] \in Wordings
    BY <2>1, KnowledgeAssumption DEF File
  <2>3. file[importer[i].path].content # Absent =>
            [importer[i] EXCEPT !.at = "recheck", !.result = TextOf[file[importer[i].path].content]]
                \in Importer
    BY <2>1, <2>2 DEF Importer
  <2>4. importer' \in [Importers -> Importer]
    BY <1>5, <1>7, <2>3 DEF Extract
  <2> QED
    BY <1>7, <2>4 DEF Extract
<1>8. ASSUME NEW i \in Importers, Recheck(i), Extracting(i)
      PROVE  KnowledgeTypeOK'
  <2>1. importer[i].version \in Versions /\ importer[i] \in Importer
    BY <1>8 DEF IInv, VersionInHand
  <2>2. document[importer[i].version].there \in BOOLEAN
    BY <2>1 DEF Document
  <2>3. [importer[i] EXCEPT !.at = "register", !.found = document[importer[i].version].there]
            \in Importer
    BY <2>1, <2>2 DEF Importer
  <2>4. importer' \in [Importers -> Importer]
    BY <1>5, <1>8, <2>3 DEF Recheck
  <2> QED
    BY <1>8, <2>4 DEF Recheck
<1>9. ASSUME NEW i \in Importers, Register(i), Extracting(i)
      PROVE  KnowledgeTypeOK'
  <2> DEFINE v == importer[i].version
             text == importer[i].result
  <2>1. v \in Versions /\ importer[i] \in Importer
    BY <1>9 DEF IInv, VersionInHand
  <2>2. text \in Wordings /\ importer[i].path \in Paths
    <3>1. v[2] \in Contents /\ text = TextOf[v[2]] /\ importer[i].path \in Paths
      BY <1>9, <2>1 DEF IInv, VersionInHand, ResultInHand, Register, Versions, Importer
    <3> QED
      BY <3>1, KnowledgeAssumption
  <2>3. Registered(importer[i].path, text) \in Document
    BY <2>2, KnowledgeAssumption DEF Registered, Document
  <2>4. Kept(v, importer[i].path, text, importer[i].found) \in Document
    BY <2>1, <2>3 DEF Kept
  <2>5. (~importer[i].found /\ document[v].there) \in BOOLEAN
    OBVIOUS
  <2>6. importer' \in [Importers -> Importer]
    BY <1>9, <2>5, TurnedType DEF Register
  <2>7. segments' \in [Versions -> SUBSET Wordings] /\ document' \in [Versions -> Document]
    BY <1>9, <2>1, <2>2, <2>4 DEF Register
  <2> QED
    BY <1>9, <2>6, <2>7 DEF Register
<1>10. ASSUME NEW i \in Importers, Raise(i)
       PROVE  KnowledgeTypeOK'
  BY <1>5, <1>10, BoundsAreNaturals DEF Raise, Fault
<1>11. ASSUME NEW i \in Importers, FinishScan(i)
       PROVE  KnowledgeTypeOK'
  <2>1. \A p \in importer[i].seen : importer[i].listing[p].content \in Contents
    BY DEF IInv, ListingIsPast
  <2>2. promised' \in SUBSET Contents
    BY <1>11, <2>1 DEF FinishScan
  <2>3. source' \in [Paths -> {"none", "active", "missing"}]
    BY <1>11 DEF FinishScan
  <2> QED
    BY <1>11, <2>2, <2>3, IdleType DEF FinishScan
<1>12. ASSUME NEW i \in Importers, Crash(i)
       PROVE  KnowledgeTypeOK'
  BY <1>12, IdleType, BoundsAreNaturals DEF Crash, Fault
<1>13. ASSUME NEW v \in Versions, Correct(v)
       PROVE  KnowledgeTypeOK'
  <2>1. PICK a \in Authorities, s \in {"effective", "repealed", "disabled"} :
            document' = [document EXCEPT ![v] = [@ EXCEPT !.authority = a, !.standing = s]]
    BY <1>13 DEF Correct
  <2> DEFINE new == [document[v] EXCEPT !.authority = a, !.standing = s]
  <2>2. document[v] \in Document
    OBVIOUS
  <2>3. new \in Document
    BY <2>2 DEF Document
  <2>4. document' = [document EXCEPT ![v] = new]
    BY <2>1
  <2> HIDE DEF new
  <2>5. document' \in [Versions -> Document]
    BY <2>3, <2>4
  <2> QED
    BY <1>13, <2>5, BoundsAreNaturals DEF Correct
<1>14. ASSUME UNCHANGED knowledgeVars
       PROVE  KnowledgeTypeOK'
  BY <1>14 DEF knowledgeVars
<1>15. ASSUME NEW i \in Importers
       PROVE  Recheck(i) \/ Register(i) => Extracting(i)
  BY DEF Recheck, Register, Extracting
<1> QED
  BY <1>1, <1>2, <1>3, <1>4, <1>6, <1>7, <1>8, <1>9, <1>10, <1>11, <1>12, <1>13, <1>14, <1>15
     DEF KnowledgeNext

\* How each action leaves the record of the importer i that takes it.
LEMMA RecordAfter ==
    ASSUME IInv, NEW i \in Importers
    PROVE  /\ StartScan(i) =>
                \E listed \in SUBSET Paths, failed \in BOOLEAN :
                    /\ \A p \in listed : file[p].content # Absent
                    /\ importer'[i] = Started(listed, failed)
           /\ Decide(i) =>
                \E p \in importer[i].left :
                    LET d == Decision(p, importer[i].listing[p].content) IN
                    importer'[i] = [importer[i] EXCEPT
                        !.at = "commit", !.left = importer[i].left \ {p}, !.path = p,
                        !.work = d.work, !.version = d.version]
           /\ Commit(i) => importer'[i] = IF importer[i].work = "observe" THEN Turned(i, FALSE)
                                          ELSE [importer[i] EXCEPT !.at = "check"]
           /\ Check(i) => \/ importer'[i] = [importer[i] EXCEPT !.at = "extract"]
                          \/ importer'[i] = Turned(i, TRUE)
           /\ Extract(i) => \/ importer'[i] = [importer[i] EXCEPT
                                   !.at = "recheck", !.result = TextOf[file[importer[i].path].content]]
                            \/ importer'[i] = Turned(i, TRUE)
           /\ Recheck(i) => \/ /\ Matches(i)
                               /\ importer'[i] = [importer[i] EXCEPT
                                   !.at = "register", !.found = document[importer[i].version].there]
                            \/ importer'[i] = Turned(i, TRUE)
           /\ Register(i) => importer'[i] =
                  Turned(i, ~importer[i].found /\ document[importer[i].version].there)
           /\ Raise(i) => importer'[i] = Turned(i, TRUE)
           /\ FinishScan(i) => importer'[i] = Idle
           /\ Crash(i) => importer'[i] = Idle
<1>0. importer \in [Importers -> Importer]
  BY DEF IInv, KnowledgeTypeOK
<1>1. ASSUME StartScan(i)
      PROVE  \E listed \in SUBSET Paths, failed \in BOOLEAN :
                 /\ \A p \in listed : file[p].content # Absent
                 /\ importer'[i] = Started(listed, failed)
  <2>1. PICK unread \in SUBSET {p \in Paths : file[p].content # Absent} :
            importer' = [importer EXCEPT ![i] =
                  Started({p \in Paths : file[p].content # Absent} \ unread, unread # {})]
    BY <1>1 DEF StartScan
  <2>2. importer'[i] = Started({p \in Paths : file[p].content # Absent} \ unread, unread # {})
    BY <1>0, <2>1
  <2> DEFINE listed == {p \in Paths : file[p].content # Absent} \ unread
             failed == unread # {}
  <2>3. /\ listed \in SUBSET Paths /\ \A p \in listed : file[p].content # Absent
        /\ failed \in BOOLEAN
        /\ importer'[i] = Started(listed, failed)
    BY <2>2
  <2> HIDE DEF listed, failed
  <2> QED
    BY <2>3
<1>2. ASSUME Decide(i)
      PROVE  \E p \in importer[i].left :
                 LET d == Decision(p, importer[i].listing[p].content) IN
                 importer'[i] = [importer[i] EXCEPT
                     !.at = "commit", !.left = importer[i].left \ {p}, !.path = p,
                     !.work = d.work, !.version = d.version]
  BY <1>0, <1>2 DEF Decide
<1>3. Commit(i) => importer'[i] = IF importer[i].work = "observe" THEN Turned(i, FALSE)
                                  ELSE [importer[i] EXCEPT !.at = "check"]
  BY <1>0 DEF Commit
<1>4. Failed(i) => importer'[i] = Turned(i, TRUE)
  BY <1>0 DEF Failed
<1>5. Check(i) => \/ importer'[i] = [importer[i] EXCEPT !.at = "extract"]
                  \/ importer'[i] = Turned(i, TRUE)
  BY <1>0, <1>4 DEF Check
<1>6. Extract(i) => \/ importer'[i] = [importer[i] EXCEPT
                           !.at = "recheck", !.result = TextOf[file[importer[i].path].content]]
                    \/ importer'[i] = Turned(i, TRUE)
  BY <1>0, <1>4 DEF Extract
<1>7. Recheck(i) => \/ /\ Matches(i)
                       /\ importer'[i] = [importer[i] EXCEPT
                           !.at = "register", !.found = document[importer[i].version].there]
                    \/ importer'[i] = Turned(i, TRUE)
  BY <1>0, <1>4 DEF Recheck, Rechecked
<1>8. Register(i) => importer'[i] =
          Turned(i, ~importer[i].found /\ document[importer[i].version].there)
  BY <1>0 DEF Register
<1>9. /\ Raise(i) => importer'[i] = Turned(i, TRUE)
      /\ FinishScan(i) => importer'[i] = Idle
      /\ Crash(i) => importer'[i] = Idle
  BY <1>0, <1>4 DEF Raise, FinishScan, Crash
<1> QED
  BY <1>1, <1>2, <1>3, <1>5, <1>6, <1>7, <1>8, <1>9

\* It leaves the records of the others alone.
LEMMA RecordsOfOthers ==
    ASSUME IInv, NEW i \in Importers, NEW j \in Importers \ {i},
           \/ StartScan(i) \/ Decide(i) \/ Commit(i) \/ Check(i) \/ Extract(i) \/ Recheck(i)
           \/ Register(i) \/ Raise(i) \/ FinishScan(i) \/ Crash(i)
    PROVE  importer'[j] = importer[j]
<1>0. importer \in [Importers -> Importer]
  BY DEF IInv, KnowledgeTypeOK
<1> QED
  BY <1>0 DEF StartScan, Decide, Commit, Check, Extract, Recheck, Register, Raise, Failed,
              FinishScan, Crash

\* i goes on with the file it has in hand, or is done with it.
Advanced(i, at) ==
    /\ importer'[i].at = at
    /\ importer'[i].left = importer[i].left
    /\ importer'[i].path = importer[i].path
    /\ importer'[i].version = importer[i].version
    /\ importer'[i].work = importer[i].work
    /\ importer'[i].failed = importer[i].failed

Settled(i, failed) ==
    /\ importer'[i].at = "next"
    /\ importer'[i].left = importer[i].left
    /\ importer'[i].failed = (importer[i].failed \/ failed)

Begun(i, p) ==
    LET d == Decision(p, importer[i].listing[p].content) IN
    /\ importer'[i].at = "commit"
    /\ importer'[i].left = importer[i].left \ {p}
    /\ importer'[i].path = p
    /\ importer'[i].version = d.version
    /\ importer'[i].work = d.work
    /\ importer'[i].failed = importer[i].failed

KeepsListing(i) ==
    importer'[i].listing = importer[i].listing /\ importer'[i].seen = importer[i].seen

LEMMA SettledBy ==
    ASSUME IInv, NEW i \in Importers, NEW failed \in BOOLEAN, importer'[i] = Turned(i, failed)
    PROVE  Settled(i, failed) /\ KeepsListing(i)
BY DEF Settled, KeepsListing, Turned, Idle

LEMMA FieldsAfter ==
    ASSUME IInv, NEW i \in Importers
    PROVE  /\ Decide(i) => KeepsListing(i) /\ \E p \in importer[i].left : Begun(i, p)
           /\ Commit(i) => /\ KeepsListing(i)
                           /\ IF importer[i].work = "observe" THEN Settled(i, FALSE)
                              ELSE Advanced(i, "check")
           /\ Check(i) => KeepsListing(i) /\ (Advanced(i, "extract") \/ Settled(i, TRUE))
           /\ Extract(i) => /\ KeepsListing(i)
                            /\ \/ /\ Advanced(i, "recheck")
                                  /\ importer'[i].result = TextOf[file[importer[i].path].content]
                               \/ Settled(i, TRUE)
           /\ Recheck(i) => /\ KeepsListing(i)
                            /\ \/ /\ Advanced(i, "register")
                                  /\ Matches(i)
                                  /\ importer'[i].result = importer[i].result
                                  /\ importer'[i].found = document[importer[i].version].there
                               \/ Settled(i, TRUE)
           /\ Register(i) => /\ KeepsListing(i)
                             /\ Settled(i, ~importer[i].found /\ document[importer[i].version].there)
           /\ Raise(i) => KeepsListing(i) /\ Settled(i, TRUE)
<1>1. importer[i] \in Importer
  BY DEF IInv, KnowledgeTypeOK
<1>2. ASSUME Decide(i)
      PROVE  KeepsListing(i) /\ \E p \in importer[i].left : Begun(i, p)
  <2>1. PICK p \in importer[i].left :
            LET d == Decision(p, importer[i].listing[p].content) IN
            importer'[i] = [importer[i] EXCEPT
                !.at = "commit", !.left = importer[i].left \ {p}, !.path = p,
                !.work = d.work, !.version = d.version]
    BY <1>2, RecordAfter
  <2>2. KeepsListing(i) /\ Begun(i, p)
    BY <1>1, <2>1 DEF KeepsListing, Begun, Importer
  <2> QED
    BY <2>2
<1>3. ASSUME NEW at \in {"check", "extract"}, importer'[i] = [importer[i] EXCEPT !.at = at]
      PROVE  KeepsListing(i) /\ Advanced(i, at)
  BY <1>1, <1>3 DEF KeepsListing, Advanced, Importer
<1>4. ASSUME Commit(i)
      PROVE  /\ KeepsListing(i)
             /\ IF importer[i].work = "observe" THEN Settled(i, FALSE) ELSE Advanced(i, "check")
  <2>1. CASE importer[i].work = "observe"
    BY <1>4, <2>1, RecordAfter, SettledBy
  <2>2. CASE importer[i].work # "observe"
    BY <1>3, <1>4, <2>2, RecordAfter
  <2> QED
    BY <2>1, <2>2
<1>5. ASSUME Check(i)
      PROVE  KeepsListing(i) /\ (Advanced(i, "extract") \/ Settled(i, TRUE))
  <2>1. CASE importer'[i] = Turned(i, TRUE)
    BY <2>1, SettledBy
  <2>2. CASE importer'[i] = [importer[i] EXCEPT !.at = "extract"]
    BY <1>3, <2>2
  <2> QED
    BY <1>5, <2>1, <2>2, RecordAfter
<1>6. ASSUME Extract(i)
      PROVE  /\ KeepsListing(i)
             /\ \/ Advanced(i, "recheck") /\ importer'[i].result = TextOf[file[importer[i].path].content]
                \/ Settled(i, TRUE)
  <2>1. CASE importer'[i] = Turned(i, TRUE)
    BY <2>1, SettledBy
  <2>2. CASE importer'[i] = [importer[i] EXCEPT
                 !.at = "recheck", !.result = TextOf[file[importer[i].path].content]]
    BY <1>1, <2>2 DEF KeepsListing, Advanced, Importer
  <2> QED
    BY <1>6, <2>1, <2>2, RecordAfter
<1>7. ASSUME Recheck(i)
      PROVE  /\ KeepsListing(i)
             /\ \/ /\ Advanced(i, "register")
                   /\ Matches(i)
                   /\ importer'[i].result = importer[i].result
                   /\ importer'[i].found = document[importer[i].version].there
                \/ Settled(i, TRUE)
  <2>1. CASE importer'[i] = Turned(i, TRUE)
    BY <2>1, SettledBy
  <2>2. CASE Matches(i) /\ importer'[i] = [importer[i] EXCEPT
                 !.at = "register", !.found = document[importer[i].version].there]
    BY <1>1, <2>2 DEF KeepsListing, Advanced, Importer
  <2> QED
    BY <1>7, <2>1, <2>2, RecordAfter
<1>8. ASSUME Register(i)
      PROVE  /\ KeepsListing(i)
             /\ Settled(i, ~importer[i].found /\ document[importer[i].version].there)
  <2> DEFINE failed == ~importer[i].found /\ document[importer[i].version].there
  <2>1. failed \in BOOLEAN /\ importer'[i] = Turned(i, failed)
    BY <1>8, RecordAfter
  <2> HIDE DEF failed
  <2>2. KeepsListing(i) /\ Settled(i, failed)
    BY <2>1, SettledBy
  <2> QED
    BY <2>2 DEF failed
<1>9. Raise(i) => KeepsListing(i) /\ Settled(i, TRUE)
  BY RecordAfter, SettledBy
<1> QED
  BY <1>2, <1>4, <1>5, <1>6, <1>7, <1>8, <1>9

LEMMA StampsStep == IInv /\ [KnowledgeNext]_knowledgeVars => StampsArePast'
<1> SUFFICES ASSUME IInv, [KnowledgeNext]_knowledgeVars
             PROVE  StampsArePast'
  OBVIOUS
<1>0. KnowledgeTypeOK /\ StampsArePast
  BY DEF IInv
<1>1. ASSUME NEW p \in Paths, ChangeFile(p)
      PROVE  StampsArePast'
  <2>1. used'.changes = used.changes + 1 /\ used.changes \in Nat
    BY <1>0, <1>1, BoundsAreNaturals DEF ChangeFile, KnowledgeTypeOK
  <2>2. ASSUME NEW q \in Paths
        PROVE  file'[q].stamp = used.changes + 1 \/ file'[q] = file[q]
    BY <1>0, <1>1 DEF ChangeFile, KnowledgeTypeOK
  <2>3. \A q \in Paths : file[q].stamp \in Nat /\ file[q].stamp <= used.changes
    BY <1>0, BoundsAreNaturals DEF KnowledgeTypeOK, File, StampsArePast
  <2> QED
    BY <2>1, <2>2, <2>3 DEF StampsArePast
<1>2. ASSUME UNCHANGED file, used'.changes = used.changes
      PROVE  StampsArePast'
  BY <1>0, <1>2 DEF StampsArePast
<1>3. ASSUME NEW i \in Importers,
             \/ StartScan(i) \/ Decide(i) \/ Commit(i) \/ Check(i) \/ Extract(i) \/ Recheck(i)
             \/ Register(i) \/ Raise(i) \/ FinishScan(i) \/ Crash(i)
      PROVE  UNCHANGED file /\ used'.changes = used.changes
  BY <1>0, <1>3 DEF StartScan, Decide, Commit, Check, Extract, Recheck, Register, Raise, FinishScan,
                    Crash, Fault, KnowledgeTypeOK, dirVars
<1>4. ASSUME NEW v \in Versions, Correct(v)
      PROVE  UNCHANGED file /\ used'.changes = used.changes
  BY <1>0, <1>4 DEF Correct, KnowledgeTypeOK, dirVars
<1> QED
  BY <1>1, <1>2, <1>3, <1>4 DEF KnowledgeNext, knowledgeVars, dirVars

LEMMA ListingStep == IInv /\ [KnowledgeNext]_knowledgeVars => ListingIsPast'
<1> SUFFICES ASSUME IInv, [KnowledgeNext]_knowledgeVars
             PROVE  ListingIsPast'
  OBVIOUS
<1>0. /\ KnowledgeTypeOK /\ StampsArePast /\ ListingIsPast
      /\ \A i \in Importers : importer[i] \in Importer /\ importer[i].seen \subseteq Paths
      /\ \A p \in Paths : file[p] \in File /\ file[p].stamp \in Nat
      /\ used.changes \in Nat
  BY BoundsAreNaturals DEF IInv, KnowledgeTypeOK, Importer, File
<1>1. ASSUME NEW p \in Paths, ChangeFile(p)
      PROVE  ListingIsPast'
  <2>1. ASSUME NEW q \in Paths
        PROVE  file'[q].stamp = used.changes + 1 \/ file'[q] = file[q]
    BY <1>0, <1>1 DEF ChangeFile, KnowledgeTypeOK
  <2>2. ASSUME NEW i \in Importers, NEW q \in importer[i].seen
        PROVE  importer[i].listing[q].stamp \in Nat
    BY <1>0, BoundsAreNaturals DEF Importer, File
  <2>3. UNCHANGED importer
    BY <1>1 DEF ChangeFile
  <2> QED
    BY <1>0, <2>1, <2>2, <2>3 DEF ListingIsPast, StampsArePast
<1>2. ASSUME NEW i \in Importers, StartScan(i)
      PROVE  ListingIsPast'
  <2>1. PICK listed \in SUBSET Paths, failed \in BOOLEAN :
            /\ \A p \in listed : file[p].content # Absent
            /\ importer'[i] = Started(listed, failed)
    BY <1>2, RecordAfter
  <2>2. Started(listed, failed).seen = listed
        /\ \A p \in listed : Started(listed, failed).listing[p] = file[p]
    BY DEF Started, Idle
  <2>3. \A p \in listed : file[p].content \in Contents
    BY <1>0, <2>1 DEF File
  <2>4. UNCHANGED file
    BY <1>2 DEF StartScan, dirVars
  <2>5. \A j \in Importers \ {i} : importer'[j] = importer[j]
    BY <1>2, RecordsOfOthers
  <2> QED
    BY <1>0, <2>1, <2>2, <2>3, <2>4, <2>5 DEF ListingIsPast
<1>3. ASSUME NEW i \in Importers,
             \/ Decide(i) \/ Commit(i) \/ Check(i) \/ Extract(i) \/ Recheck(i)
             \/ Register(i) \/ Raise(i)
      PROVE  ListingIsPast'
  <2>1. importer'[i].listing = importer[i].listing /\ importer'[i].seen = importer[i].seen
    BY <1>3, FieldsAfter DEF KeepsListing
  <2>2. \A j \in Importers \ {i} : importer'[j] = importer[j]
    BY <1>3, RecordsOfOthers
  <2>3. UNCHANGED file
    BY <1>3 DEF Decide, Commit, Check, Extract, Recheck, Register, Raise, dirVars
  <2> QED
    BY <1>0, <2>1, <2>2, <2>3 DEF ListingIsPast
<1>4. ASSUME NEW i \in Importers, FinishScan(i) \/ Crash(i)
      PROVE  ListingIsPast'
  <2>1. importer'[i].seen = {}
    <3>1. importer'[i] = Idle
      BY <1>4, RecordAfter
    <3> QED
      BY <3>1 DEF Idle
  <2>2. \A j \in Importers \ {i} : importer'[j] = importer[j]
    BY <1>4, RecordsOfOthers
  <2>3. UNCHANGED file
    BY <1>4 DEF FinishScan, Crash, dirVars
  <2> QED
    BY <1>0, <2>1, <2>2, <2>3 DEF ListingIsPast
<1>5. ASSUME UNCHANGED <<file, importer>>
      PROVE  ListingIsPast'
  BY <1>0, <1>5 DEF ListingIsPast
<1> QED
  BY <1>1, <1>2, <1>3, <1>4, <1>5 DEF KnowledgeNext, knowledgeVars, dirVars, Correct

LEMMA PathStep == IInv /\ [KnowledgeNext]_knowledgeVars => PathInHand'
<1> SUFFICES ASSUME IInv, [KnowledgeNext]_knowledgeVars
             PROVE  PathInHand'
  OBVIOUS
<1>0. PathInHand
  BY DEF IInv
<1> DEFINE Holds(i) == /\ importer'[i].left \subseteq importer'[i].seen
                       /\ Busy(i)' => importer'[i].path \in importer'[i].seen \ importer'[i].left
<1>1. ASSUME NEW i \in Importers, StartScan(i)
      PROVE  Holds(i)
  <2>1. PICK listed \in SUBSET Paths, failed \in BOOLEAN :
            importer'[i] = Started(listed, failed)
    BY <1>1, RecordAfter
  <2> QED
    BY <2>1 DEF Started, Idle, Busy
<1>2. ASSUME NEW i \in Importers, Decide(i)
      PROVE  Holds(i)
  <2>1. PICK p \in importer[i].left : KeepsListing(i) /\ Begun(i, p)
    BY <1>2, FieldsAfter
  <2> QED
    BY <1>0, <2>1 DEF PathInHand, Begun, KeepsListing
<1>3. ASSUME NEW i \in Importers,
             Commit(i) \/ Check(i) \/ Extract(i) \/ Recheck(i) \/ Register(i) \/ Raise(i)
      PROVE  Holds(i)
  <2>1. Busy(i)
    BY <1>3 DEF Commit, Check, Extract, Recheck, Register, Raise, Busy
  <2>2. KeepsListing(i) /\ importer'[i].left = importer[i].left
        /\ (importer'[i].path = importer[i].path \/ importer'[i].at = "next")
    BY <1>3, FieldsAfter DEF Advanced, Settled
  <2> QED
    BY <1>0, <2>1, <2>2 DEF PathInHand, KeepsListing, Busy
<1>4. ASSUME NEW i \in Importers, FinishScan(i) \/ Crash(i)
      PROVE  Holds(i)
  <2>1. importer'[i] = Idle
    BY <1>4, RecordAfter
  <2> QED
    BY <2>1 DEF Idle, Busy
<1>5. ASSUME NEW i \in Importers, importer'[i] = importer[i]
      PROVE  Holds(i)
  BY <1>0, <1>5 DEF PathInHand, Busy
<1> HIDE DEF Holds
<1>6. \A i \in Importers : Holds(i)
  BY <1>1, <1>2, <1>3, <1>4, <1>5, RecordsOfOthers DEF KnowledgeNext, knowledgeVars, ChangeFile, Correct
<1> QED
  BY <1>6 DEF Holds, PathInHand

\* An extraction is decided on for a version of the content.
LEMMA DecisionVersion ==
    ASSUME NEW p \in Paths, NEW c \in Contents, Decision(p, c).work = "extract"
    PROVE  Decision(p, c).version \in Versions /\ Decision(p, c).version[2] = c
<1> DEFINE same == {v \in Versions : v = observed[p] /\ v[2] = c}
           known == IF \E v \in same : Searchable(v) THEN same ELSE Canonical(c)
           retry == IF same # {} THEN same ELSE Canonical(c)
           version == IF retry # {} THEN CHOOSE v \in retry : TRUE ELSE <<p, c>>
<1>1. \A v \in retry : v \in Versions /\ v[2] = c
  BY DEF Canonical
<1>2. <<p, c>> \in Versions /\ <<p, c>>[2] = c
  BY DEF Versions
<1>3. version \in Versions /\ version[2] = c
  <2> HIDE DEF retry
  <2>1. CASE retry # {}
    BY <1>1, <2>1
  <2>2. CASE retry = {}
    BY <1>2, <2>2
  <2> QED
    BY <2>1, <2>2
<1>4. Decision(p, c) =
        IF p \notin Supported THEN [work |-> "observe", version |-> NoVersion]
        ELSE IF \E v \in known : Searchable(v)
        THEN [work |-> "observe", version |-> CHOOSE v \in known : TRUE]
        ELSE [work |-> "extract", version |-> version]
  BY DEF Decision
<1> HIDE DEF known, version
<1> QED
  BY <1>3, <1>4

LEMMA VersionStep == IInv /\ [KnowledgeNext]_knowledgeVars => VersionInHand'
<1> SUFFICES ASSUME IInv, [KnowledgeNext]_knowledgeVars
             PROVE  VersionInHand'
  OBVIOUS
<1>0. VersionInHand
  BY DEF IInv
<1> DEFINE Holds(i) == Extracting(i)' =>
               importer'[i].version \in Versions /\ importer'[i].version[2] = ContentOf(i)'
<1>1. ASSUME NEW i \in Importers, Decide(i)
      PROVE  Holds(i)
  <2>1. PICK p \in importer[i].left : KeepsListing(i) /\ Begun(i, p)
    BY <1>1, FieldsAfter
  <2>2. ASSUME Extracting(i)'
        PROVE  importer'[i].version \in Versions /\ importer'[i].version[2] = ContentOf(i)'
    <3>1. Decision(p, importer[i].listing[p].content).work = "extract"
      BY <2>1, <2>2 DEF Extracting, Begun
    <3>2. ContentOf(i)' = importer[i].listing[p].content
      BY <2>1 DEF ContentOf, KeepsListing, Begun
    <3>3. importer'[i].version = Decision(p, importer[i].listing[p].content).version
      BY <2>1 DEF Begun
    <3> QED
      BY <3>1, <3>2, <3>3, ListedType, DecisionVersion
  <2> QED
    BY <2>2
<1>2. ASSUME NEW i \in Importers,
             Commit(i) \/ Check(i) \/ Extract(i) \/ Recheck(i) \/ Register(i) \/ Raise(i)
      PROVE  Holds(i)
  <2>1. KeepsListing(i) /\ (importer'[i].at = "next" \/ /\ importer'[i].path = importer[i].path
                                                        /\ importer'[i].version = importer[i].version
                                                        /\ Extracting(i))
    <3>1. importer[i].work \in {"observe", "extract"}
      BY DEF IInv, KnowledgeTypeOK, Importer
    <3> QED
      BY <1>2, <3>1, FieldsAfter DEF Advanced, Settled, Commit, Check, Extract, Recheck, Register,
                                     Extracting
  <2> QED
    BY <1>0, <2>1 DEF VersionInHand, ContentOf, KeepsListing, Extracting
<1>3. ASSUME NEW i \in Importers, StartScan(i) \/ FinishScan(i) \/ Crash(i)
      PROVE  Holds(i)
  <2>1. importer'[i] = Idle \/ \E listed \in SUBSET Paths, failed \in BOOLEAN :
                                    importer'[i] = Started(listed, failed)
    BY <1>3, RecordAfter
  <2>2. Idle.at = "idle" /\ \A listed, failed : Started(listed, failed).at = "next"
    BY DEF Started, Idle
  <2>3. importer'[i].at \in {"idle", "next"}
    BY <2>1, <2>2
  <2> QED
    BY <2>3 DEF Extracting
<1>4. ASSUME NEW i \in Importers, importer'[i] = importer[i]
      PROVE  Holds(i)
  BY <1>0, <1>4 DEF VersionInHand, Extracting, ContentOf
<1> HIDE DEF Holds
<1>5. \A i \in Importers : Holds(i)
  BY <1>1, <1>2, <1>3, <1>4, RecordsOfOthers DEF KnowledgeNext, knowledgeVars, ChangeFile, Correct
<1> QED
  BY <1>5 DEF Holds, VersionInHand

LEMMA ResultStep == IInv /\ [KnowledgeNext]_knowledgeVars => ResultInHand'
<1> SUFFICES ASSUME IInv, [KnowledgeNext]_knowledgeVars
             PROVE  ResultInHand'
  OBVIOUS
<1>0. /\ KnowledgeTypeOK /\ ResultInHand /\ ListingIsPast /\ PathInHand
      /\ \A i \in Importers : importer[i].seen \subseteq Paths
  BY DEF IInv, KnowledgeTypeOK, Importer
<1> DEFINE Listed(i) == importer[i].listing[importer[i].path]
           Holds(i) == /\ importer'[i].at = "recheck" /\ file'[importer'[i].path].stamp = Listed(i)'.stamp
                              => importer'[i].result = TextOf[ContentOf(i)]'
                       /\ importer'[i].at = "register" => importer'[i].result = TextOf[ContentOf(i)]'
<1>1. ASSUME NEW i \in Importers, Extract(i)
      PROVE  Holds(i)
  <2>1. UNCHANGED file
    BY <1>1 DEF Extract, dirVars
  <2>2. importer[i].path \in importer[i].seen
    BY <1>0, <1>1 DEF PathInHand, Busy, Extract
  <2>3. Listed(i).stamp = file[importer[i].path].stamp => ContentOf(i) = file[importer[i].path].content
    BY <1>0, <2>2 DEF ListingIsPast, ContentOf
  <2>4. CASE Settled(i, TRUE)
    BY <2>4 DEF Settled
  <2>5. CASE Advanced(i, "recheck") /\ importer'[i].result = TextOf[file[importer[i].path].content]
             /\ KeepsListing(i)
    BY <2>1, <2>3, <2>5 DEF Advanced, KeepsListing, ContentOf
  <2> QED
    BY <1>1, <2>4, <2>5, FieldsAfter
<1>2. ASSUME NEW i \in Importers, Recheck(i)
      PROVE  Holds(i)
  <2>1. CASE Settled(i, TRUE)
    BY <2>1 DEF Settled
  <2>2. CASE Advanced(i, "register") /\ importer'[i].result = importer[i].result
             /\ KeepsListing(i) /\ Matches(i)
    <3>1. file[importer[i].path].stamp = Listed(i).stamp
      BY <2>2 DEF Matches
    <3>2. importer[i].result = TextOf[ContentOf(i)]
      BY <1>0, <1>2, <3>1 DEF ResultInHand, Recheck
    <3> QED
      BY <2>2, <3>2 DEF Advanced, KeepsListing, ContentOf
  <2> QED
    BY <1>2, <2>1, <2>2, FieldsAfter
<1>3. ASSUME NEW i \in Importers, importer'[i].at \notin {"recheck", "register"}
      PROVE  Holds(i)
  BY <1>3
<1>4. ASSUME NEW i \in Importers, Decide(i) \/ Commit(i) \/ Check(i) \/ Register(i) \/ Raise(i)
      PROVE  importer'[i].at \notin {"recheck", "register"}
  <2>1. \/ \E p \in importer[i].left : Begun(i, p)
        \/ Advanced(i, "check") \/ Advanced(i, "extract") \/ importer'[i].at = "next"
    BY <1>4, FieldsAfter DEF Settled
  <2> QED
    BY <2>1 DEF Begun, Advanced
<1>5. ASSUME NEW i \in Importers, StartScan(i) \/ FinishScan(i) \/ Crash(i)
      PROVE  importer'[i].at \notin {"recheck", "register"}
  <2>1. importer'[i] = Idle \/ \E listed \in SUBSET Paths, failed \in BOOLEAN :
                                    importer'[i] = Started(listed, failed)
    BY <1>5, RecordAfter
  <2>2. Idle.at = "idle" /\ \A listed, failed : Started(listed, failed).at = "next"
    BY DEF Started, Idle
  <2> QED
    BY <2>1, <2>2
<1>6. ASSUME NEW i \in Importers, importer'[i] = importer[i], UNCHANGED file
      PROVE  Holds(i)
  BY <1>0, <1>6 DEF ResultInHand, ContentOf
<1>7. ASSUME NEW i \in Importers, NEW p \in Paths, ChangeFile(p)
      PROVE  Holds(i)
  <2>1. ASSUME NEW q \in Paths
        PROVE  file'[q].stamp = used.changes + 1 \/ file'[q] = file[q]
    BY <1>0, <1>7 DEF ChangeFile, KnowledgeTypeOK
  <2>2. UNCHANGED importer
    BY <1>7 DEF ChangeFile
  <2>3. ASSUME importer[i].at = "recheck", NEW q \in Paths, q = importer[i].path
        PROVE  Listed(i).stamp # used.changes + 1
    <3>1. q \in importer[i].seen /\ importer[i].listing[q] \in File
      BY <1>0, <2>3 DEF PathInHand, Busy, KnowledgeTypeOK, Importer
    <3>2. importer[i].listing[q].stamp <= file[q].stamp /\ file[q].stamp <= used.changes
      BY <1>0, <3>1 DEF IInv, ListingIsPast, StampsArePast
    <3>3. importer[i].listing[q].stamp \in Nat /\ file[q].stamp \in Nat /\ used.changes \in Nat
      BY <1>0, <3>1, BoundsAreNaturals DEF KnowledgeTypeOK, File
    <3> QED
      BY <2>3, <3>2, <3>3
  <2>4. importer[i].path \in Paths
    BY <1>0 DEF KnowledgeTypeOK, Importer
  <2> QED
    BY <1>0, <2>1, <2>2, <2>3, <2>4 DEF ResultInHand, ContentOf
<1> HIDE DEF Holds, Listed
<1>8. ASSUME NEW i \in Importers,
             \/ StartScan(i) \/ Decide(i) \/ Commit(i) \/ Check(i) \/ Extract(i) \/ Recheck(i)
             \/ Register(i) \/ Raise(i) \/ FinishScan(i) \/ Crash(i)
      PROVE  \A j \in Importers : Holds(j)
  <2>1. UNCHANGED file
    BY <1>8 DEF StartScan, Decide, Commit, Check, Extract, Recheck, Register, Raise, FinishScan,
                Crash, dirVars
  <2>2. Holds(i)
    BY <1>1, <1>2, <1>3, <1>4, <1>5, <1>8
  <2> QED
    BY <1>6, <1>8, <2>1, <2>2, RecordsOfOthers
<1>9. \A i \in Importers : Holds(i)
  BY <1>6, <1>7, <1>8 DEF KnowledgeNext, knowledgeVars, dirVars, Correct
<1> QED
  BY <1>9 DEF Holds, Listed, ResultInHand

-----------------------------------------------------------------------------
\* What a registration that does not fail leaves of its version.
LEMMA RegisteredRows ==
    ASSUME IInv, NEW i \in Importers, Register(i)
    PROVE  LET v == importer[i].version IN
           /\ v \in Versions /\ v[2] = ContentOf(i) /\ importer[i].result = TextOf[v[2]]
           /\ \/ /\ ~importer[i].found /\ document[v].there
                 /\ UNCHANGED <<segments, document>>
              \/ /\ importer[i].found \/ ~document[v].there
                 /\ segments' = [segments EXCEPT ![v] = @ \cup {importer[i].result}]
                 /\ document' = [document EXCEPT ![v] =
                        Kept(v, importer[i].path, importer[i].result, importer[i].found)]
                 /\ segments'[v] = segments[v] \cup {TextOf[v[2]]}
                 /\ document'[v].there
                 /\ document'[v].text = IF importer[i].found THEN document[v].text ELSE TextOf[v[2]]
                 /\ importer[i].found => document'[v] = document[v]
<1> DEFINE v == importer[i].version
           path == importer[i].path
           result == importer[i].result
           found == importer[i].found
<1>0. document \in [Versions -> Document] /\ segments \in [Versions -> SUBSET Wordings]
  BY DEF IInv, KnowledgeTypeOK
<1>1. v \in Versions /\ v[2] = ContentOf(i) /\ result = TextOf[v[2]]
  BY DEF IInv, VersionInHand, ResultInHand, Register, Extracting
<1>2. CASE ~found /\ document[v].there
  BY <1>1, <1>2 DEF Register
<1>3. CASE found \/ ~document[v].there
  <2>1. /\ segments' = [segments EXCEPT ![v] = @ \cup {result}]
        /\ document' = [document EXCEPT ![v] = Kept(v, path, result, found)]
    BY <1>3 DEF Register
  <2>2. segments'[v] = segments[v] \cup {TextOf[v[2]]} /\ document'[v] = Kept(v, path, result, found)
    BY <1>0, <1>1, <2>1
  <2>3. Registered(path, result).there /\ Registered(path, result).text = result
    BY DEF Registered
  <2>4. found => document[v].there
    BY DEF IInv, FoundInHand, Register
  <2>5. /\ document'[v].there
        /\ document'[v].text = IF found THEN document[v].text ELSE TextOf[v[2]]
        /\ found => document'[v] = document[v]
    <3>1. CASE found
      BY <2>2, <2>4, <3>1 DEF Kept
    <3>2. CASE ~found
      BY <1>1, <2>2, <2>3, <3>2 DEF Kept
    <3> QED
      BY <3>1, <3>2
  <2> QED
    BY <1>1, <1>3, <2>1, <2>2, <2>5, Zenon
<1> QED
  BY <1>2, <1>3

\* A correction leaves the text and its row.
LEMMA CorrectedRows ==
    ASSUME IInv, NEW v \in Versions, Correct(v)
    PROVE  /\ \A u \in Versions : /\ document'[u].there = document[u].there
                                  /\ document'[u].text = document[u].text
           /\ UNCHANGED segments
           /\ used'.corrections > used.corrections
<1>1. PICK a \in Authorities, s \in {"effective", "repealed", "disabled"} :
          document' = [document EXCEPT ![v] = [@ EXCEPT !.authority = a, !.standing = s]]
  BY DEF Correct
<1> DEFINE new == [document[v] EXCEPT !.authority = a, !.standing = s]
<1>2. document \in [Versions -> Document]
  BY DEF IInv, KnowledgeTypeOK
<1>3. new.there = document[v].there /\ new.text = document[v].text
  BY <1>2 DEF Document
<1>4. document' = [document EXCEPT ![v] = new]
  BY <1>1
<1> HIDE DEF new
<1>5. \A u \in Versions : document'[u] = IF u = v THEN new ELSE document[u]
  BY <1>2, <1>4
<1>6. used'.corrections = used.corrections + 1 /\ used.corrections \in Nat
  BY BoundsAreNaturals DEF Correct, IInv, KnowledgeTypeOK
<1> QED
  BY <1>3, <1>5, <1>6 DEF Correct

\* The steps that leave what is searchable alone.
LEMMA RowsUnchanged ==
    ASSUME NEW i \in Importers,
           \/ StartScan(i) \/ Decide(i) \/ Commit(i) \/ Check(i) \/ Extract(i)
           \/ Recheck(i) \/ Raise(i) \/ FinishScan(i) \/ Crash(i)
    PROVE  UNCHANGED <<segments, document>>
BY DEF StartScan, Decide, Commit, Check, Extract, Recheck, Raise, FinishScan, Crash, rowVars

\* A document stays, and so does what was extracted of its version.
LEMMA ThereStays ==
    ASSUME IInv, [KnowledgeNext]_knowledgeVars
    PROVE  \A v \in Versions : /\ segments[v] # {} => segments'[v] # {}
                               /\ document[v].there => document'[v].there
<1> DEFINE Stays == \A v \in Versions : /\ segments[v] # {} => segments'[v] # {}
                                        /\ document[v].there => document'[v].there
<1>1. ASSUME NEW i \in Importers, Register(i)
      PROVE  Stays
  <2> DEFINE v == importer[i].version
  <2>1. v \in Versions
    BY <1>1, RegisteredRows
  <2>2. CASE UNCHANGED <<segments, document>>
    BY <2>2
  <2>3. CASE /\ segments' = [segments EXCEPT ![v] = @ \cup {importer[i].result}]
             /\ document' = [document EXCEPT ![v] =
                    Kept(v, importer[i].path, importer[i].result, importer[i].found)]
             /\ segments'[v] = segments[v] \cup {TextOf[v[2]]}
             /\ document'[v].there
    <3>1. document \in [Versions -> Document] /\ segments \in [Versions -> SUBSET Wordings]
      BY DEF IInv, KnowledgeTypeOK
    <3>2. ASSUME NEW u \in Versions, u # v
          PROVE  segments'[u] = segments[u] /\ document'[u] = document[u]
      BY <2>3, <3>1, <3>2
    <3> QED
      BY <2>3, <3>2
  <2> QED
    BY <1>1, <2>2, <2>3, RegisteredRows
<1>2. ASSUME NEW v \in Versions, Correct(v)
      PROVE  Stays
  BY <1>2, CorrectedRows
<1>3. ASSUME UNCHANGED <<segments, document>>
      PROVE  Stays
  BY <1>3
<1> HIDE DEF Stays
<1>4. Stays
  BY <1>1, <1>2, <1>3, RowsUnchanged DEF KnowledgeNext, knowledgeVars, rowVars, ChangeFile
<1> QED
  BY <1>4 DEF Stays

LEMMA AvailableStays ==
    ASSUME IInv, [KnowledgeNext]_knowledgeVars, NEW c, Available(c)
    PROVE  Available(c)'
BY ThereStays DEF Available

\* A file is only observed when its content is searchable.
LEMMA DecisionAvailable ==
    ASSUME NEW p \in Supported, NEW c \in Contents, Decision(p, c).work = "observe"
    PROVE  Available(c)
<1> DEFINE same == {v \in Versions : v = observed[p] /\ v[2] = c}
           known == IF \E v \in same : Searchable(v) THEN same ELSE Canonical(c)
           retry == IF same # {} THEN same ELSE Canonical(c)
<1>1. \A v \in known : v \in Versions /\ v[2] = c
  BY DEF Canonical
<1>2. Decision(p, c) =
        IF \E v \in known : Searchable(v)
        THEN [work |-> "observe", version |-> CHOOSE v \in known : TRUE]
        ELSE [work |-> "extract",
              version |-> IF retry # {} THEN CHOOSE v \in retry : TRUE ELSE <<p, c>>]
  BY DEF Decision
<1> HIDE DEF known, retry
<1>3. \E v \in known : Searchable(v)
  BY <1>2
<1> QED
  BY <1>1, <1>3 DEF Available, Searchable

LEMMA FoundStep == IInv /\ [KnowledgeNext]_knowledgeVars => FoundInHand'
<1> SUFFICES ASSUME IInv, [KnowledgeNext]_knowledgeVars
             PROVE  FoundInHand'
  OBVIOUS
<1>0. FoundInHand
  BY DEF IInv
<1> DEFINE Observes(i) == importer[i].at = "commit" /\ importer[i].work = "observe"
                          /\ importer[i].path \in Supported
           Found(i) == importer[i].at = "register" /\ importer[i].found
           Holds(i) == /\ Observes(i)' => Available(ContentOf(i))'
                       /\ Found(i)' => document'[importer'[i].version].there
<1>1. ASSUME NEW i \in Importers, Decide(i)
      PROVE  Holds(i)
  <2>1. PICK p \in importer[i].left : KeepsListing(i) /\ Begun(i, p)
    BY <1>1, FieldsAfter
  <2>2. ContentOf(i)' = importer[i].listing[p].content
    BY <2>1 DEF ContentOf, KeepsListing, Begun
  <2>3. ASSUME Observes(i)'
        PROVE  Available(ContentOf(i))'
    <3>1. PICK c : c = importer[i].listing[p].content
      OBVIOUS
    <3>2. p \in Supported /\ Decision(p, c).work = "observe"
      BY <2>1, <2>3, <3>1 DEF Begun
    <3>3. Available(c)
      BY <3>1, <3>2, ListedType, DecisionAvailable
    <3>4. Available(c)'
      BY <3>3, AvailableStays
    <3> QED
      BY <2>2, <3>1, <3>4 DEF Available
  <2>4. ~Found(i)'
    BY <2>1 DEF Begun
  <2> QED
    BY <2>3, <2>4
<1>2. ASSUME NEW i \in Importers, Recheck(i)
      PROVE  Holds(i)
  <2>1. UNCHANGED document
    BY <1>2, RowsUnchanged
  <2>2. CASE Settled(i, TRUE)
    BY <2>2 DEF Settled
  <2>3. CASE Advanced(i, "register") /\ importer'[i].found = document[importer[i].version].there
    BY <2>1, <2>3 DEF Advanced
  <2> QED
    BY <1>2, <2>2, <2>3, FieldsAfter
<1>3. ASSUME NEW i \in Importers, importer'[i].at \notin {"commit", "register"}
      PROVE  Holds(i)
  BY <1>3
<1>4. ASSUME NEW i \in Importers, Commit(i) \/ Check(i) \/ Extract(i) \/ Register(i) \/ Raise(i)
      PROVE  importer'[i].at \notin {"commit", "register"}
  <2>1. \/ Advanced(i, "check") \/ Advanced(i, "extract") \/ Advanced(i, "recheck")
        \/ importer'[i].at = "next"
    BY <1>4, FieldsAfter DEF Settled
  <2> QED
    BY <2>1 DEF Advanced
<1>5. ASSUME NEW i \in Importers, StartScan(i) \/ FinishScan(i) \/ Crash(i)
      PROVE  importer'[i].at \notin {"commit", "register"}
  <2>1. importer'[i] = Idle \/ \E listed \in SUBSET Paths, failed \in BOOLEAN :
                                    importer'[i] = Started(listed, failed)
    BY <1>5, RecordAfter
  <2>2. Idle.at = "idle" /\ \A listed, failed : Started(listed, failed).at = "next"
    BY DEF Started, Idle
  <2> QED
    BY <2>1, <2>2
<1>6. ASSUME NEW i \in Importers, importer'[i] = importer[i]
      PROVE  Holds(i)
  <2>1. ASSUME Observes(i)'
        PROVE  Available(ContentOf(i))'
    <3>1. Available(ContentOf(i))
      BY <1>0, <1>6, <2>1 DEF FoundInHand
    <3>2. ContentOf(i)' = ContentOf(i)
      BY <1>6 DEF ContentOf
    <3> QED
      BY <3>1, <3>2, ThereStays DEF Available
  <2>2. ASSUME Found(i)'
        PROVE  document'[importer'[i].version].there
    <3>1. document[importer[i].version].there /\ importer[i].version \in Versions
      BY <1>0, <1>6, <2>2 DEF FoundInHand, IInv, VersionInHand, Extracting
    <3> QED
      BY <1>6, <3>1, ThereStays
  <2> QED
    BY <2>1, <2>2
<1> HIDE DEF Holds
<1>7. \A i \in Importers : Holds(i)
  BY <1>1, <1>2, <1>3, <1>4, <1>5, <1>6, RecordsOfOthers
     DEF KnowledgeNext, knowledgeVars, ChangeFile, Correct
<1> QED
  BY <1>7 DEF Holds, FoundInHand

LEMMA HandledStep == IInv /\ [KnowledgeNext]_knowledgeVars => HandledIsAvailable'
<1> SUFFICES ASSUME IInv, [KnowledgeNext]_knowledgeVars
             PROVE  HandledIsAvailable'
  OBVIOUS
<1>0. HandledIsAvailable
  BY DEF IInv
<1> DEFINE Handled(i) == (importer[i].seen \ importer[i].left) \cap Supported
           InHand(i, p) == Busy(i) /\ p = importer[i].path
           Holds(i) == \A p : ~importer'[i].failed /\ p \in Handled(i)' =>
                           InHand(i, p)' \/ Available(importer[i].listing[p].content)'
<1>1. ASSUME NEW i \in Importers, NEW p, ~importer[i].failed, p \in Handled(i), ~InHand(i, p),
             importer'[i].listing = importer[i].listing
      PROVE  Available(importer[i].listing[p].content)'
  <2>1. PICK c : c = importer[i].listing[p].content
    OBVIOUS
  <2>2. Available(c)
    BY <1>0, <1>1, <2>1 DEF HandledIsAvailable
  <2>3. Available(c)'
    BY <2>2, AvailableStays
  <2> QED
    BY <1>1, <2>1, <2>3 DEF Available
<1>2. ASSUME NEW i \in Importers, Decide(i)
      PROVE  Holds(i)
  <2>1. PICK q \in importer[i].left : KeepsListing(i) /\ Begun(i, q)
    BY <1>2, FieldsAfter
  <2>2. ~Busy(i) /\ Busy(i)' /\ importer'[i].path = q
    BY <1>2, <2>1 DEF Decide, Busy, Begun
  <2>3. ASSUME NEW p, ~importer'[i].failed, p \in Handled(i)', p # q
        PROVE  ~importer[i].failed /\ p \in Handled(i)
    BY <2>1, <2>3 DEF Begun, KeepsListing
  <2> QED
    BY <1>1, <2>1, <2>2, <2>3 DEF KeepsListing
<1>3. ASSUME NEW i \in Importers, KeepsListing(i), importer'[i].left = importer[i].left,
             ~importer'[i].failed => ~importer[i].failed,
             ~importer'[i].failed /\ Busy(i) /\ importer[i].path \in Supported =>
                   \/ Busy(i)' /\ importer'[i].path = importer[i].path
                   \/ \A c : c = ContentOf(i) => Available(c)'
      PROVE  Holds(i)
  <2>1. ASSUME NEW p, ~importer'[i].failed, p \in Handled(i)'
        PROVE  InHand(i, p)' \/ Available(importer[i].listing[p].content)'
    <3>1. p \in Handled(i) /\ p \in Supported
      BY <1>3, <2>1 DEF KeepsListing
    <3>2. CASE ~InHand(i, p)
      BY <1>1, <1>3, <2>1, <3>1, <3>2 DEF KeepsListing
    <3>3. CASE InHand(i, p) /\ ~InHand(i, p)'
      <4>1. \A c : c = ContentOf(i) => Available(c)'
        BY <1>3, <2>1, <3>1, <3>3
      <4>2. PICK c : c = ContentOf(i)
        OBVIOUS
      <4>3. importer'[i].listing[p].content = c
        BY <1>3, <3>3, <4>2 DEF KeepsListing, ContentOf
      <4> QED
        BY <4>1, <4>2, <4>3 DEF Available
    <3> QED
      BY <3>2, <3>3
  <2> QED
    BY <2>1
<1>4. ASSUME NEW i \in Importers, Commit(i)
      PROVE  Holds(i)
  <2>1. CASE importer[i].work = "observe"
    <3>1. KeepsListing(i) /\ Settled(i, FALSE)
      BY <1>4, <2>1, FieldsAfter
    <3>2. ASSUME importer[i].path \in Supported, NEW c, c = ContentOf(i)
          PROVE  Available(c)'
      <4>1. Available(c)
        BY <1>4, <2>1, <3>2 DEF IInv, FoundInHand, Commit
      <4> QED
        BY <4>1, AvailableStays
    <3> HIDE DEF Holds
    <3> QED
      BY <1>3, <3>1, <3>2 DEF Settled
  <2>2. CASE importer[i].work # "observe"
    <3>1. KeepsListing(i) /\ Advanced(i, "check")
      BY <1>4, <2>2, FieldsAfter
    <3> HIDE DEF Holds
    <3> QED
      BY <1>3, <3>1 DEF Advanced, Busy
  <2> QED
    BY <2>1, <2>2
<1>5. ASSUME NEW i \in Importers, Check(i) \/ Extract(i) \/ Recheck(i) \/ Raise(i)
      PROVE  Holds(i)
  <2>1. KeepsListing(i) /\ \/ Advanced(i, "extract") \/ Advanced(i, "recheck")
                           \/ Advanced(i, "register") \/ Settled(i, TRUE)
    BY <1>5, FieldsAfter
  <2> HIDE DEF Holds
  <2>2. CASE Settled(i, TRUE)
    BY <1>3, <2>1, <2>2 DEF Settled
  <2>3. CASE Advanced(i, "extract") \/ Advanced(i, "recheck") \/ Advanced(i, "register")
    BY <1>3, <2>1, <2>3 DEF Advanced, Busy
  <2> QED
    BY <2>1, <2>2, <2>3
<1>6. ASSUME NEW i \in Importers, Register(i)
      PROVE  Holds(i)
  <2>1. KeepsListing(i) /\ Settled(i, ~importer[i].found /\ document[importer[i].version].there)
    BY <1>6, FieldsAfter
  <2>2. ASSUME ~importer'[i].failed, NEW c, c = ContentOf(i)
        PROVE  Available(c)'
    <3>1. PICK v : v = importer[i].version
      OBVIOUS
    <3>2. v \in Versions /\ v[2] = c /\ (importer[i].found \/ ~document[v].there)
      BY <1>6, <2>1, <2>2, <3>1, RegisteredRows DEF Settled
    <3>3. segments'[v] = segments[v] \cup {TextOf[v[2]]} /\ document'[v].there
      BY <1>6, <3>1, <3>2, RegisteredRows
    <3> QED
      BY <3>2, <3>3 DEF Available
  <2>3. importer'[i].left = importer[i].left /\ (~importer'[i].failed => ~importer[i].failed)
    BY <2>1 DEF Settled
  <2> HIDE DEF Holds
  <2> QED
    BY <1>3, <2>1, <2>2, <2>3
<1>7. ASSUME NEW i \in Importers, StartScan(i) \/ FinishScan(i) \/ Crash(i)
      PROVE  Holds(i)
  <2>1. importer'[i] = Idle \/ \E listed \in SUBSET Paths, failed \in BOOLEAN :
                                    importer'[i] = Started(listed, failed)
    BY <1>7, RecordAfter
  <2>2. \A listed, failed : Started(listed, failed).seen = Started(listed, failed).left
    BY DEF Started, Idle
  <2>3. Idle.seen = Idle.left
    BY DEF Idle
  <2> QED
    BY <2>1, <2>2, <2>3
<1>8. ASSUME NEW i \in Importers, importer'[i] = importer[i]
      PROVE  Holds(i)
  <2>1. KeepsListing(i) /\ (Busy(i) => Busy(i)')
    BY <1>8 DEF KeepsListing, Busy
  <2> HIDE DEF Holds
  <2> QED
    BY <1>3, <1>8, <2>1
<1> HIDE DEF Holds
<1>9. \A i \in Importers : Holds(i)
  BY <1>2, <1>4, <1>5, <1>6, <1>7, <1>8, RecordsOfOthers
     DEF KnowledgeNext, knowledgeVars, ChangeFile, Correct
<1> QED
  BY <1>9 DEF Holds, HandledIsAvailable

LEMMA TextStep == IInv /\ [KnowledgeNext]_knowledgeVars => TextIsOfItsVersion'
<1> SUFFICES ASSUME IInv, [KnowledgeNext]_knowledgeVars
             PROVE  TextIsOfItsVersion'
  OBVIOUS
<1>0. TextIsOfItsVersion
  BY DEF IInv
<1>1. ASSUME NEW i \in Importers, Register(i)
      PROVE  TextIsOfItsVersion'
  <2>1. PICK v : v = importer[i].version
    OBVIOUS
  <2>2. v \in Versions
    BY <1>1, <2>1, RegisteredRows
  <2>3. CASE UNCHANGED <<segments, document>>
    BY <1>0, <2>3 DEF TextIsOfItsVersion
  <2>4. CASE ~UNCHANGED <<segments, document>>
    <3>1. /\ segments' = [segments EXCEPT ![v] = @ \cup {importer[i].result}]
          /\ document' = [document EXCEPT ![v] =
                 Kept(v, importer[i].path, importer[i].result, importer[i].found)]
          /\ segments'[v] = segments[v] \cup {TextOf[v[2]]}
          /\ document'[v].text = IF importer[i].found THEN document[v].text ELSE TextOf[v[2]]
          /\ importer[i].found => document'[v] = document[v]
          /\ document'[v].there
      BY <1>1, <2>1, <2>4, RegisteredRows
    <3>2. document \in [Versions -> Document] /\ segments \in [Versions -> SUBSET Wordings]
      BY DEF IInv, KnowledgeTypeOK
    <3>3. ASSUME NEW u \in Versions, u # v
          PROVE  segments'[u] = segments[u] /\ document'[u] = document[u]
      BY <3>1, <3>2, <3>3
    <3>4. importer[i].found => document[v].there
      BY <1>1, <2>1 DEF IInv, FoundInHand, Register
    <3>5. segments'[v] \subseteq {TextOf[v[2]]} /\ document'[v].text = TextOf[v[2]]
      BY <1>0, <2>2, <3>1, <3>4 DEF TextIsOfItsVersion
    <3> QED
      BY <1>0, <3>3, <3>5 DEF TextIsOfItsVersion
  <2> QED
    BY <2>3, <2>4
<1>2. ASSUME NEW v \in Versions, Correct(v)
      PROVE  TextIsOfItsVersion'
  BY <1>0, <1>2, CorrectedRows DEF TextIsOfItsVersion
<1>3. ASSUME UNCHANGED <<segments, document>>
      PROVE  TextIsOfItsVersion'
  BY <1>0, <1>3 DEF TextIsOfItsVersion
<1> QED
  BY <1>1, <1>2, <1>3, RowsUnchanged DEF KnowledgeNext, knowledgeVars, rowVars, ChangeFile

LEMMA CompletedStep == IInv /\ [KnowledgeNext]_knowledgeVars => CompletedScanIsSearchable'
<1> SUFFICES ASSUME IInv, [KnowledgeNext]_knowledgeVars
             PROVE  CompletedScanIsSearchable'
  OBVIOUS
<1>0. \A c \in promised : Available(c)
  BY DEF IInv, CompletedScanIsSearchable, Available
<1>1. ASSUME NEW i \in Importers, FinishScan(i), NEW c \in promised'
      PROVE  Available(c)
  <2>1. CASE c \in promised
    BY <1>0, <2>1
  <2>2. CASE c \notin promised
    <3>1. ~importer[i].failed
          /\ \E p \in importer[i].seen \cap Supported : c = importer[i].listing[p].content
      BY <1>1, <2>2 DEF FinishScan
    <3>2. importer[i].left = {} /\ ~Busy(i)
      BY <1>1 DEF FinishScan, Busy
    <3> QED
      BY <3>1, <3>2 DEF IInv, HandledIsAvailable
  <2> QED
    BY <2>1, <2>2
<1>2. ASSUME UNCHANGED promised, NEW c \in promised'
      PROVE  Available(c)
  BY <1>0, <1>2
<1>3. \A c \in promised' : Available(c)
  BY <1>1, <1>2 DEF KnowledgeNext, knowledgeVars, ChangeFile, StartScan, Decide, Commit, Check,
                    Extract, Recheck, Register, Raise, Crash, Correct
<1>4. \A c \in promised' : Available(c)'
  BY <1>3, AvailableStays
<1> QED
  BY <1>4 DEF Available, CompletedScanIsSearchable

-----------------------------------------------------------------------------
(* How a content gets its one version *)

\* The version that is decided on is created, or it is the first of its content.
LEMMA DecisionIsNew ==
    ASSUME KnowledgeTypeOK, CreatedBefore, OneVersion, ~overlap, NEW p \in Paths, NEW c \in Contents,
           Decision(p, c).version \in Versions
    PROVE  \/ created[Decision(p, c).version] # 0
           \/ \A u \in Versions : u[2] = Decision(p, c).version[2] => created[u] = 0
<1> DEFINE same == {v \in Versions : v = observed[p] /\ v[2] = c}
           known == IF \E v \in same : Searchable(v) THEN same ELSE Canonical(c)
           retry == IF same # {} THEN same ELSE Canonical(c)
           version == IF retry # {} THEN CHOOSE v \in retry : TRUE ELSE <<p, c>>
           New(v) == created[v] # 0 \/ \A u \in Versions : u[2] = v[2] => created[u] = 0
<1>1. \A v \in known \cup retry : v \in Versions /\ created[v] # 0
  BY DEF Canonical, CreatedBefore
<1>2. ASSUME NEW u \in Versions, u[2] = c, created[u] # 0
      PROVE  u \in Canonical(c)
  <2>1. created[u] \in Nat
    BY BoundsAreNaturals DEF KnowledgeTypeOK
  <2>2. \A w \in Versions : w[2] = c /\ created[w] # 0 => w = u
    BY <1>2 DEF OneVersion
  <2> QED
    BY <1>2, <2>1, <2>2 DEF Canonical
<1>3. New(version)
  <2>1. CASE retry # {}
    <3>1. version \in retry
      <4> HIDE DEF retry
      <4> QED
        BY <2>1
    <3> HIDE DEF version, retry, known
    <3> QED
      BY <1>1, <3>1
  <2>2. CASE retry = {}
    <3>1. Canonical(c) = {}
      BY <2>2
    <3>2. version = <<p, c>> /\ <<p, c>>[2] = c
      BY <2>2
    <3>3. \A u \in Versions : u[2] = c => created[u] = 0
      BY <1>2, <3>1
    <3> HIDE DEF version
    <3> QED
      BY <3>2, <3>3
  <2> QED
    BY <2>1, <2>2
<1>4. known # {} => New(CHOOSE v \in known : TRUE)
  <2> HIDE DEF known
  <2> QED
    BY <1>1
<1>5. \/ Decision(p, c).version = NoVersion
      \/ Decision(p, c).version = version
      \/ known # {} /\ Decision(p, c).version = CHOOSE v \in known : TRUE
  <2>1. Decision(p, c) =
        IF p \notin Supported THEN [work |-> "observe", version |-> NoVersion]
        ELSE IF \E v \in known : Searchable(v)
        THEN [work |-> "observe", version |-> CHOOSE v \in known : TRUE]
        ELSE [work |-> "extract", version |-> version]
    BY DEF Decision
  <2> HIDE DEF known, version
  <2> QED
    BY <2>1
<1>6. NoVersion \notin Versions
  BY DEF NoVersion, Versions
<1> HIDE DEF known, version
<1> QED
  BY <1>3, <1>4, <1>5, <1>6

\* What a commit leaves of its version and its path.
LEMMA CommittedRows ==
    ASSUME IInv, NEW i \in Importers, Commit(i)
    PROVE  LET v == importer[i].version IN
           /\ \A u \in Versions : created'[u] # 0 <=> created[u] # 0 \/ u = v
           /\ \A p \in Paths : observed'[p] = v \/ observed'[p] = observed[p]
           /\ UNCHANGED <<document, overlap>>
<1> DEFINE last == Cardinality({u \in Versions : created[u] # 0})
<1>1. last \in Nat
  <2>1. IsFiniteSet({u \in Versions : created[u] # 0})
    BY VersionsAreFinite, FS_Subset
  <2> QED
    BY <2>1, FS_CardinalityType
<1>2. \A u \in Versions : created'[u] =
          IF u = importer[i].version /\ created[u] = 0 THEN last + 1 ELSE created[u]
  BY DEF Commit
<1>3. observed \in [Paths -> Versions \cup {NoVersion}]
  BY DEF IInv, KnowledgeTypeOK
<1> HIDE DEF last
<1> QED
  BY <1>1, <1>2, <1>3 DEF Commit

\* No other step creates a version or observes a path.
LEMMA OnlyCommitsCreate ==
    ASSUME [KnowledgeNext]_knowledgeVars, ~ \E i \in Importers : Commit(i)
    PROVE  UNCHANGED <<created, observed>>
BY DEF KnowledgeNext, knowledgeVars, ChangeFile, StartScan, Decide, Check, Extract, Recheck, Register,
       Raise, FinishScan, Crash, Correct, rowVars

\* A version stays created.
LEMMA CreatedStays ==
    ASSUME IInv, [KnowledgeNext]_knowledgeVars, NEW v \in Versions, created[v] # 0
    PROVE  created'[v] # 0
BY CommittedRows, OnlyCommitsCreate

\* That imports overlap is remembered, and told when a scan starts.
LEMMA OverlapStays ==
    ASSUME [KnowledgeNext]_knowledgeVars, ~overlap'
    PROVE  /\ ~overlap
           /\ \A i \in Importers : StartScan(i) =>
                  \A j \in Importers \ {i} : importer[j].at = "idle"
<1>1. ASSUME NEW i \in Importers, StartScan(i)
      PROVE  ~overlap /\ \A j \in Importers \ {i} : importer[j].at = "idle"
  BY <1>1 DEF StartScan
<1>2. (\E i \in Importers : StartScan(i)) \/ UNCHANGED overlap
  BY DEF KnowledgeNext, knowledgeVars, ChangeFile, Decide, Commit, Check, Extract, Recheck,
         Register, Raise, FinishScan, Crash, Correct
<1> QED
  BY <1>1, <1>2

LEMMA OneAtATimeStep ==
    ASSUME IInv, OneAtATime, [KnowledgeNext]_knowledgeVars
    PROVE  OneAtATime'
<1> SUFFICES ASSUME ~overlap', NEW i \in Importers, NEW j \in Importers,
                    importer'[i].at # "idle", importer'[j].at # "idle", i # j
             PROVE  FALSE
  BY DEF OneAtATime
<1>0. ~overlap /\ (importer[i].at = "idle" \/ importer[j].at = "idle")
  BY OverlapStays DEF OneAtATime
<1>1. ASSUME NEW k \in Importers, StartScan(k)
      PROVE  FALSE
  <2>1. \A m \in Importers \ {k} : importer[m].at = "idle" /\ importer'[m] = importer[m]
    BY <1>1, OverlapStays, RecordsOfOthers
  <2> QED
    BY <2>1
<1>2. ASSUME NEW k \in Importers,
             \/ Decide(k) \/ Commit(k) \/ Check(k) \/ Extract(k) \/ Recheck(k)
             \/ Register(k) \/ Raise(k) \/ FinishScan(k) \/ Crash(k)
      PROVE  FALSE
  <2>1. importer[k].at # "idle"
    BY <1>2 DEF Decide, Commit, Check, Extract, Recheck, Register, Raise, FinishScan, Crash
  <2>2. \A m \in Importers \ {k} : importer'[m] = importer[m]
    BY <1>2, RecordsOfOthers
  <2> QED
    BY <1>0, <2>1, <2>2
<1>3. ASSUME UNCHANGED importer
      PROVE  FALSE
  BY <1>0, <1>3
<1> QED
  BY <1>1, <1>2, <1>3 DEF KnowledgeNext, knowledgeVars, ChangeFile, Correct

LEMMA CreatedStep ==
    ASSUME IInv, IInv', CreatedBefore, [KnowledgeNext]_knowledgeVars
    PROVE  CreatedBefore'
<1> DEFINE After(i) == importer[i].at \in {"check", "extract", "recheck", "register"}
<1>0. ASSUME NEW i \in Importers, After(i)
      PROVE  /\ importer[i].version \in Versions
             /\ created[importer[i].version] # 0
             /\ created'[importer[i].version] # 0
  <2>1. importer[i].version \in Versions
    BY <1>0 DEF IInv, VersionInHand, Extracting
  <2>2. created[importer[i].version] # 0
    BY <1>0 DEF CreatedBefore
  <2> QED
    BY <2>1, <2>2, CreatedStays
<1>1. ASSUME NEW v \in Versions, document'[v].there
      PROVE  created'[v] # 0
  <2>1. CASE document[v].there
    BY <2>1, CreatedStays DEF CreatedBefore
  <2>2. CASE ~document[v].there
    <3>1. ASSUME NEW i \in Importers, Register(i)
          PROVE  v = importer[i].version /\ After(i)
      <4>1. PICK u : u = importer[i].version
        OBVIOUS
      <4>2. document \in [Versions -> Document]
        BY DEF IInv, KnowledgeTypeOK
      <4>3. \/ UNCHANGED document
            \/ document' = [document EXCEPT ![u] =
                   Kept(u, importer[i].path, importer[i].result, importer[i].found)]
        BY <3>1, <4>1, RegisteredRows
      <4>4. v # u => document'[v] = document[v]
        BY <4>2, <4>3
      <4>5. v = u
        BY <1>1, <2>2, <4>3, <4>4
      <4> QED
        BY <3>1, <4>1, <4>5 DEF Register
    <3>2. ASSUME NEW u \in Versions, Correct(u)
          PROVE  FALSE
      BY <1>1, <2>2, <3>2, CorrectedRows
    <3>3. ASSUME UNCHANGED document
          PROVE  FALSE
      BY <1>1, <2>2, <3>3
    <3> QED
      BY <1>0, <3>1, <3>2, <3>3, RowsUnchanged, CommittedRows
         DEF KnowledgeNext, knowledgeVars, rowVars, ChangeFile
  <2> QED
    BY <2>1, <2>2
<1>2. ASSUME NEW p \in Paths, observed'[p] \in Versions
      PROVE  created'[observed'[p]] # 0
  <2>1. CASE observed'[p] = observed[p]
    BY <1>2, <2>1, CreatedStays DEF CreatedBefore
  <2>2. CASE observed'[p] # observed[p]
    <3>1. PICK i \in Importers : Commit(i)
      BY <2>2, OnlyCommitsCreate
    <3>2. observed'[p] = importer[i].version
      BY <2>2, <3>1, CommittedRows
    <3> QED
      BY <1>2, <3>1, <3>2, CommittedRows
  <2> QED
    BY <2>1, <2>2
<1>3. ASSUME NEW i \in Importers, After(i)'
      PROVE  created'[importer'[i].version] # 0
  <2>1. CASE importer'[i] = importer[i]
    BY <1>0, <1>3, <2>1
  <2>2. CASE Commit(i)
    <3>1. importer[i].work \in {"observe", "extract"}
      BY DEF IInv, KnowledgeTypeOK, Importer
    <3>2. importer'[i].version = importer[i].version
      BY <1>3, <2>2, FieldsAfter DEF Settled, Advanced
    <3>3. importer'[i].version \in Versions
      BY <1>3 DEF IInv, VersionInHand, Extracting
    <3> QED
      BY <2>2, <3>2, <3>3, CommittedRows
  <2>3. CASE Check(i) \/ Extract(i) \/ Recheck(i) \/ Register(i) \/ Raise(i)
    <3>1. importer'[i].version = importer[i].version /\ After(i)
      BY <1>3, <2>3, FieldsAfter DEF Settled, Advanced, Check, Extract, Recheck, Register
    <3> QED
      BY <1>0, <3>1
  <2>4. CASE Decide(i)
    BY <1>3, <2>4, FieldsAfter DEF Begun
  <2>5. CASE StartScan(i) \/ FinishScan(i) \/ Crash(i)
    <3>1. importer'[i] = Idle \/ \E listed \in SUBSET Paths, failed \in BOOLEAN :
                                      importer'[i] = Started(listed, failed)
      BY <2>5, RecordAfter
    <3>2. Idle.at = "idle" /\ \A listed, failed : Started(listed, failed).at = "next"
      BY DEF Started, Idle
    <3> QED
      BY <1>3, <3>1, <3>2
  <2> QED
    BY <2>1, <2>2, <2>3, <2>4, <2>5, RecordsOfOthers
       DEF KnowledgeNext, knowledgeVars, ChangeFile, Correct
<1> HIDE DEF After
<1> QED
  BY <1>1, <1>2, <1>3 DEF CreatedBefore, After

\* An importer is at its commit only when it has just decided.
LEMMA AtCommit ==
    ASSUME IInv, [KnowledgeNext]_knowledgeVars, NEW i \in Importers,
           importer'[i].at = "commit", ~Decide(i)
    PROVE  importer'[i] = importer[i]
<1>1. CASE Commit(i) \/ Check(i) \/ Extract(i) \/ Recheck(i) \/ Register(i) \/ Raise(i)
  BY <1>1, FieldsAfter DEF Settled, Advanced
<1>2. CASE StartScan(i) \/ FinishScan(i) \/ Crash(i)
  <2>1. importer'[i] = Idle \/ \E listed \in SUBSET Paths, failed \in BOOLEAN :
                                    importer'[i] = Started(listed, failed)
    BY <1>2, RecordAfter
  <2>2. Idle.at = "idle" /\ \A listed, failed : Started(listed, failed).at = "next"
    BY DEF Started, Idle
  <2> QED
    BY <2>1, <2>2
<1> QED
  BY <1>1, <1>2, RecordsOfOthers DEF KnowledgeNext, knowledgeVars, ChangeFile, Correct

LEMMA NewStep ==
    ASSUME IInv, OneAtATime, CreatedBefore, OneVersion, NewInHand, [KnowledgeNext]_knowledgeVars
    PROVE  NewInHand'
<1> SUFFICES ASSUME ~overlap', NEW i \in Importers,
                    importer'[i].at = "commit", importer'[i].version \in Versions
             PROVE  \/ created'[importer'[i].version] # 0
                    \/ \A u \in Versions : u[2] = importer'[i].version[2] => created'[u] = 0
  BY DEF NewInHand
<1>0. ~overlap
  BY OverlapStays
<1>1. CASE Decide(i)
  <2>1. PICK p \in importer[i].left : Begun(i, p)
    BY <1>1, FieldsAfter
  <2>2. PICK c : c = importer[i].listing[p].content
    OBVIOUS
  <2>3. p \in Paths /\ c \in Contents /\ importer'[i].version = Decision(p, c).version
    BY <2>1, <2>2, ListedType DEF Begun
  <2>4. UNCHANGED created
    BY <1>1 DEF Decide, rowVars
  <2>5. KnowledgeTypeOK
    BY DEF IInv
  <2> QED
    BY <1>0, <2>3, <2>4, <2>5, DecisionIsNew
<1>2. CASE ~Decide(i)
  <2>1. importer'[i] = importer[i]
    BY <1>2, AtCommit
  <2>2. ~ \E j \in Importers : Commit(j)
    <3>1. ASSUME NEW j \in Importers, Commit(j)
          PROVE  FALSE
      <4>1. j = i
        BY <1>0, <2>1, <3>1 DEF OneAtATime, Commit
      <4>2. importer'[i].at # "commit"
        BY <3>1, <4>1, FieldsAfter DEF Settled, Advanced
      <4> QED
        BY <4>2
    <3> QED
      BY <3>1
  <2>3. UNCHANGED created
    BY <2>2, OnlyCommitsCreate
  <2> QED
    BY <1>0, <2>1, <2>3 DEF NewInHand
<1> QED
  BY <1>1, <1>2

LEMMA OneVersionStep ==
    ASSUME IInv, OneVersion, NewInHand, [KnowledgeNext]_knowledgeVars
    PROVE  OneVersion'
<1> SUFFICES ASSUME ~overlap', NEW u \in Versions, NEW v \in Versions,
                    u[2] = v[2], created'[u] # 0, created'[v] # 0
             PROVE  u = v
  BY DEF OneVersion
<1>0. ~overlap
  BY OverlapStays
<1>1. ASSUME NEW i \in Importers, Commit(i)
      PROVE  u = v
  <2>1. \A w \in Versions : created'[w] # 0 <=> created[w] # 0 \/ w = importer[i].version
    BY <1>1, CommittedRows
  <2>2. importer[i].version \in Versions =>
            \/ created[importer[i].version] # 0
            \/ \A w \in Versions : w[2] = importer[i].version[2] => created[w] = 0
    BY <1>0, <1>1 DEF NewInHand, Commit
  <2> QED
    BY <1>0, <2>1, <2>2 DEF OneVersion
<1>2. CASE UNCHANGED created
  BY <1>0, <1>2 DEF OneVersion
<1> QED
  BY <1>1, <1>2, OnlyCommitsCreate

-----------------------------------------------------------------------------
(* What a search serves *)

\* What a search considers, it finds among the documents, and lawfully.
LEMMA EligibleAreThere ==
    ASSUME NEW r \in Requests, NEW score
    PROVE  /\ Candidates(r, score) \subseteq Distinct(r)
           /\ Distinct(r) \subseteq Eligible(r)
           /\ Eligible(r) \subseteq {v \in Versions : document[v].there}
<1>1. r.matching \subseteq {v \in Versions : document[v].there}
  BY DEF Requests
<1> QED
  BY <1>1 DEF Candidates, Distinct, Eligible

LEMMA WithdrawnIsNotFound ==
    ASSUME CreatedBefore, OneVersion
    PROVE  WithdrawnIsNotServed
<1> SUFFICES ASSUME ~overlap, NEW v \in Versions, document[v].there,
                    document[v].standing # "effective",
                    NEW r \in Requests, NEW score \in Scores, NEW u \in Search(r, score),
                    u[2] = v[2]
             PROVE  document[v].standing = "repealed" /\ r.historical
  BY DEF WithdrawnIsNotServed
<1>1. u \in Eligible(r) /\ u \in Versions /\ document[u].there
  <2>1. u \in Candidates(r, score)
    BY DEF Search, Selected
  <2> QED
    BY <2>1, EligibleAreThere
<1>2. u = v
  BY <1>1 DEF CreatedBefore, OneVersion
<1> QED
  BY <1>1, <1>2 DEF Eligible

\* Of some subsets of a finite set, one has none of the others within it.
LEMMA SmallestSet ==
    ASSUME NEW S, IsFiniteSet(S), NEW Some \in SUBSET (SUBSET S), Some # {}
    PROVE  \E x \in Some : \A y \in Some : y \subseteq x => y = x
<1>1. IsWellFoundedOn(StrictSubsetOrdering(S), FiniteSubsetsOf(S))
  BY FS_StrictSubsetOrderingWellFounded
<1>2. FiniteSubsetsOf(S) = SUBSET S
  BY FS_FiniteSubsetsOfFinite
<1>3. \E x \in Some : \A y \in Some : <<y, x>> \notin StrictSubsetOrdering(S)
  BY <1>1, <1>2, WFMin
<1>4. PICK x \in Some : \A y \in Some : <<y, x>> \notin StrictSubsetOrdering(S)
  BY <1>3
<1>5. ASSUME NEW y \in Some, y \subseteq x
      PROVE  y = x
  BY <1>4, <1>5 DEF StrictSubsetOrdering
<1> QED
  BY <1>5

\* The ranks and scores that order two candidates are numbers.
LEMMA OrderedByNumbers ==
    ASSUME KnowledgeTypeOK, NEW score \in Scores, NEW v \in Versions, document[v].there,
           TextIsOfItsVersion
    PROVE  /\ Rank(document[v].authority) \in 0..5
           /\ Rank(document[v].authority) = 5 <=> document[v].authority = "law"
           /\ document[v].text \in Wordings
           /\ score[document[v].text] \in Nat
<1>1. document[v].authority \in {"law", "policy", "unknown"}
  BY KnowledgeAssumption DEF KnowledgeTypeOK, Document
<1>2. document[v].text \in Wordings
  <2>1. v[2] \in Contents /\ document[v].text = TextOf[v[2]]
    BY DEF TextIsOfItsVersion, Versions
  <2> QED
    BY <2>1, KnowledgeAssumption
<1>3. score \in [Wordings -> 1..Cardinality(Wordings)]
  BY DEF Scores
<1>4. Cardinality(Wordings) \in Nat
  BY KnowledgeAssumption, FS_CardinalityType
<1>5. score[document[v].text] \in Nat
  BY <1>2, <1>3, <1>4
<1> QED
  BY <1>1, <1>2, <1>5 DEF Rank

\* Of some candidates, one has none of the others before it, and one none after it.
LEMMA FirstAndLast ==
    ASSUME KnowledgeTypeOK, TextIsOfItsVersion, NEW score \in Scores,
           NEW some \in SUBSET {v \in Versions : document[v].there}, some # {}
    PROVE  /\ \E v \in some : \A u \in some : ~Better(u, v, score)
           /\ \E v \in some : \A u \in some : ~Better(v, u, score)
<1> DEFINE Before(v) == {u \in some : Better(u, v, score)}
           After(v) == {u \in some : Better(v, u, score)}
<1>1. IsFiniteSet(some)
  BY VersionsAreFinite, FS_Subset
<1>2. ASSUME NEW u \in some, NEW v \in some, NEW w \in some,
             Better(u, v, score), Better(v, w, score)
      PROVE  Better(u, w, score)
  <2>1. \A x \in some : /\ Rank(document[x].authority) \in 0..5
                        /\ score[document[x].text] \in Nat
    BY OrderedByNumbers
  <2> QED
    BY <1>2, <2>1 DEF Better
<1>3. \A v \in some : ~Better(v, v, score)
  <2>1. \A x \in some : /\ Rank(document[x].authority) \in 0..5
                        /\ score[document[x].text] \in Nat
    BY OrderedByNumbers
  <2> QED
    BY <2>1 DEF Better
<1>4. \E v \in some : Before(v) = {}
  <2> DEFINE All == {Before(v) : v \in some}
  <2>1. PICK x \in All : \A y \in All : y \subseteq x => y = x
    <3>1. All \in SUBSET (SUBSET some) /\ All # {}
      OBVIOUS
    <3> HIDE DEF All
    <3> QED
      BY <1>1, <3>1, SmallestSet
  <2>2. PICK v \in some : x = Before(v)
    OBVIOUS
  <2>3. ASSUME NEW u \in Before(v)
        PROVE  FALSE
    <3>1. Before(u) \subseteq Before(v)
      BY <1>2
    <3>2. u \notin Before(u)
      BY <1>3
    <3>3. Before(u) = Before(v)
      BY <2>1, <2>2, <3>1
    <3> QED
      BY <3>2, <3>3
  <2> QED
    BY <2>3
<1>5. \E v \in some : After(v) = {}
  <2> DEFINE All == {After(v) : v \in some}
  <2>1. PICK x \in All : \A y \in All : y \subseteq x => y = x
    <3>1. All \in SUBSET (SUBSET some) /\ All # {}
      OBVIOUS
    <3> HIDE DEF All
    <3> QED
      BY <1>1, <3>1, SmallestSet
  <2>2. PICK v \in some : x = After(v)
    OBVIOUS
  <2>3. ASSUME NEW u \in After(v)
        PROVE  FALSE
    <3>1. After(u) \subseteq After(v)
      BY <1>2
    <3>2. u \notin After(u)
      BY <1>3
    <3>3. After(u) = After(v)
      BY <2>1, <2>2, <3>1
    <3> QED
      BY <3>2, <3>3
  <2> QED
    BY <2>3
<1> QED
  BY <1>4, <1>5

\* The loop over the candidates, however long, takes some set of them.
LEMMA SomeAreTaken ==
    ASSUME KnowledgeTypeOK, TextIsOfItsVersion, NEW score \in Scores,
           NEW candidates \in SUBSET {v \in Versions : document[v].there}
    PROVE  \E some \in SUBSET candidates : Taken(candidates, score, some)
<1> DEFINE Loops(some) == \E taken \in SUBSET some : Taken(some, score, taken)
           Bad == {some \in SUBSET candidates : ~Loops(some)}
<1>1. SUFFICES Bad = {}
  BY <1>1
<1>2. SUFFICES ASSUME Bad # {}
               PROVE  FALSE
  OBVIOUS
<1>3. IsFiniteSet(candidates)
  BY VersionsAreFinite, FS_Subset
<1>4. PICK some \in Bad : \A other \in Bad : other \subseteq some => other = some
  <2>1. Bad \in SUBSET (SUBSET candidates)
    OBVIOUS
  <2> HIDE DEF Bad
  <2> QED
    BY <1>2, <1>3, <2>1, SmallestSet
<1>5. some # {}
  <2>1. Taken({}, score, {})
    BY DEF Taken
  <2> QED
    BY <2>1
<1>6. PICK last \in some : \A u \in some : ~Better(last, u, score)
  BY <1>5, FirstAndLast
<1>7. PICK taken \in SUBSET (some \ {last}) : Taken(some \ {last}, score, taken)
  <2>1. some \ {last} \in SUBSET candidates /\ some \ {last} \subseteq some
        /\ some \ {last} # some
    OBVIOUS
  <2>2. some \ {last} \notin Bad
    BY <1>4, <2>1
  <2> QED
    BY <2>1, <2>2
<1> DEFINE Fitting == Fits(document[last].text, Texts({u \in taken : Better(u, last, score)}))
           all == IF Fitting THEN taken \cup {last} ELSE taken
<1>8. \A v \in some : {u \in all : Better(u, v, score)} = {u \in taken : Better(u, v, score)}
  BY <1>6
<1>9. ASSUME NEW v \in some
      PROVE  v \in all <=> Fits(document[v].text, Texts({u \in all : Better(u, v, score)}))
  <2>1. {u \in all : Better(u, v, score)} = {u \in taken : Better(u, v, score)}
    BY <1>8
  <2>2. CASE v = last
    <3>1. v \in all <=> Fitting
      BY <2>2
    <3> QED
      BY <2>1, <2>2, <3>1
  <2>3. CASE v # last
    <3>1. v \in all <=> v \in taken
      BY <2>3
    <3>2. v \in taken <=> Fits(document[v].text, Texts({u \in taken : Better(u, v, score)}))
      BY <1>7, <2>3 DEF Taken
    <3> HIDE DEF all
    <3> QED
      BY <2>1, <3>1, <3>2
  <2> QED
    BY <2>2, <2>3
<1>10. Taken(some, score, all) /\ all \in SUBSET some
  BY <1>9 DEF Taken
<1> QED
  BY <1>10

\* And no other: what select_budgeted_knowledge returns is that set.
LEMMA OneSetIsTaken ==
    ASSUME KnowledgeTypeOK, TextIsOfItsVersion, NEW score \in Scores,
           NEW candidates \in SUBSET {v \in Versions : document[v].there},
           NEW some \in SUBSET candidates, Taken(candidates, score, some),
           NEW other \in SUBSET candidates, Taken(candidates, score, other)
    PROVE  some = other
<1> DEFINE Differ == {v \in candidates : ~(v \in some <=> v \in other)}
<1>1. SUFFICES ASSUME Differ # {}
               PROVE  FALSE
  OBVIOUS
<1>2. PICK v \in Differ : \A u \in Differ : ~Better(u, v, score)
  <2>1. Differ \in SUBSET {u \in Versions : document[u].there}
    OBVIOUS
  <2> HIDE DEF Differ
  <2> QED
    BY <1>1, <2>1, FirstAndLast
<1>3. {u \in some : Better(u, v, score)} = {u \in other : Better(u, v, score)}
  BY <1>2
<1>4. /\ v \in some <=> Fits(document[v].text, Texts({u \in some : Better(u, v, score)}))
      /\ v \in other <=> Fits(document[v].text, Texts({u \in other : Better(u, v, score)}))
  BY DEF Taken
<1> QED
  BY <1>3, <1>4

LEMMA SelectedIsTaken ==
    ASSUME KnowledgeTypeOK, TextIsOfItsVersion, NEW score \in Scores,
           NEW candidates \in SUBSET {v \in Versions : document[v].there}
    PROVE  Selected(candidates, score) \in SUBSET candidates
           /\ Taken(candidates, score, Selected(candidates, score))
<1>1. PICK some \in SUBSET candidates : Taken(candidates, score, some)
  BY SomeAreTaken
<1>2. \A other \in SUBSET candidates : Taken(candidates, score, other) => other = some
  BY <1>1, OneSetIsTaken
<1>3. Selected(candidates, score) = some
  BY <1>1, <1>2 DEF Selected
<1> QED
  BY <1>1, <1>3

\* A chunk alone, with at most MaxTokens tokens, fits into a budget that is whole.
LEMMA OneFits ==
    ASSUME NEW t \in Wordings
    PROVE  Fits(t, {})
<1> DEFINE counted == {x \in {t} \X (1..MaxTokens) : x[2] <= Tokens[x[1]]}
<1>1. MaxTokens \in Nat /\ MaxChunks \in Nat \ {0}
  BY KnowledgeAssumption
<1>2. IsFiniteSet(1..MaxTokens) /\ Cardinality(1..MaxTokens) = MaxTokens
  BY <1>1, FS_Interval
<1>3. IsFiniteSet({t}) /\ Cardinality({t}) = 1
  BY FS_Singleton
<1>4. /\ IsFiniteSet({t} \X (1..MaxTokens))
      /\ Cardinality({t} \X (1..MaxTokens)) = Cardinality({t}) * Cardinality(1..MaxTokens)
  BY <1>2, <1>3, FS_Product
<1>5. Cardinality({t} \X (1..MaxTokens)) = MaxTokens
  BY <1>1, <1>2, <1>3, <1>4
<1>6. Cardinality(counted) <= Cardinality({t} \X (1..MaxTokens))
  <2>1. counted \subseteq {t} \X (1..MaxTokens)
    OBVIOUS
  <2> HIDE DEF counted
  <2> QED
    BY <1>4, <2>1, FS_Subset
<1>7. TokensOf({} \cup {t}) <= MaxTokens
  <2>1. {} \cup {t} = {t}
    OBVIOUS
  <2>2. TokensOf({} \cup {t}) = Cardinality(counted)
    BY <2>1 DEF TokensOf
  <2> QED
    BY <1>5, <1>6, <2>2
<1>8. Cardinality({}) < MaxChunks
  BY <1>1, FS_EmptySet
<1> QED
  BY <1>7, <1>8 DEF Fits

\* When all the texts that match are within the limit, none is cut off.
LEMMA NoneIsCutOff ==
    ASSUME KnowledgeTypeOK, TextIsOfItsVersion, NEW score \in Scores, NEW r \in Requests,
           Cardinality(Texts(Eligible(r))) <= 5 * MaxChunks
    PROVE  Candidates(r, score) = Distinct(r)
<1> SUFFICES ASSUME NEW v \in Distinct(r)
             PROVE  v \in Candidates(r, score)
  BY DEF Candidates
<1> DEFINE texts == Texts(Eligible(r))
           own == document[v].text
           higher == {t \in Texts(Distinct(r)) : score[t] > score[own]}
<1>1. Distinct(r) \subseteq Eligible(r) /\ Eligible(r) \subseteq {u \in Versions : document[u].there}
  BY EligibleAreThere
<1>2. own \in texts /\ own \in Wordings
  BY <1>1, OrderedByNumbers DEF Texts
<1>3. higher \subseteq texts \ {own}
  <2>1. Texts(Distinct(r)) \subseteq texts
    BY <1>1 DEF Texts
  <2>2. own \notin higher
    BY <1>1, OrderedByNumbers
  <2> QED
    BY <2>1, <2>2
<1>4. IsFiniteSet(texts)
  <2>1. texts \subseteq Wordings
    BY <1>1, OrderedByNumbers DEF Texts
  <2> HIDE DEF texts
  <2> QED
    BY <2>1, KnowledgeAssumption, FS_Subset
<1>5. Cardinality(higher) < Cardinality(texts)
  <2> HIDE DEF texts, own, higher
  <2>1. IsFiniteSet(texts \ {own}) /\ Cardinality(texts \ {own}) = Cardinality(texts) - 1
    BY <1>2, <1>4, FS_RemoveElement
  <2>2. Cardinality(higher) <= Cardinality(texts \ {own}) /\ IsFiniteSet(higher)
    BY <1>3, <2>1, FS_Subset
  <2>3. Cardinality(higher) \in Nat /\ Cardinality(texts) \in Nat
    BY <1>4, <2>2, FS_CardinalityType
  <2> QED
    BY <2>1, <2>2, <2>3
<1>6. Cardinality(higher) < 5 * MaxChunks
  <2>1. Cardinality(higher) \in Nat /\ Cardinality(texts) \in Nat /\ MaxChunks \in Nat
    <3> HIDE DEF texts, own, higher
    <3>1. IsFiniteSet(texts \ {own})
      BY <1>2, <1>4, FS_RemoveElement
    <3>2. IsFiniteSet(higher)
      BY <1>3, <3>1, FS_Subset
    <3> QED
      BY <1>4, <3>2, FS_CardinalityType, KnowledgeAssumption
  <2> HIDE DEF higher
  <2> QED
    BY <1>5, <2>1
<1> QED
  BY <1>6 DEF Candidates

LEMMA LawIsServed ==
    ASSUME KnowledgeTypeOK, TextIsOfItsVersion
    PROVE  LawIsServedFirst
<1> SUFFICES ASSUME NEW r \in Requests,
                    Cardinality(Texts(Eligible(r))) <= 5 * MaxChunks,
                    NEW v \in Eligible(r), document[v].authority = "law",
                    NEW score \in Scores
             PROVE  \E u \in Search(r, score) : document[u].authority = "law"
  BY DEF LawIsServedFirst
<1> DEFINE candidates == Candidates(r, score)
           laws == {u \in candidates : document[u].authority = "law"}
<1>1. candidates = Distinct(r)
  BY NoneIsCutOff
<1>2. Distinct(r) \subseteq Eligible(r) /\ Eligible(r) \subseteq {u \in Versions : document[u].there}
  BY EligibleAreThere
<1>3. \A u \in Eligible(r) : /\ Rank(document[u].authority) \in 0..5
                             /\ Rank(document[u].authority) = 5 <=> document[u].authority = "law"
                             /\ document[u].text \in Wordings
                             /\ score[document[u].text] \in Nat
  BY <1>2, OrderedByNumbers
<1>4. v \in laws
  BY <1>1, <1>3 DEF Distinct
<1>5. PICK first \in laws : \A u \in laws : ~Better(u, first, score)
  <2>1. laws \in SUBSET {u \in Versions : document[u].there} /\ laws # {}
    BY <1>1, <1>2, <1>4
  <2> HIDE DEF laws
  <2> QED
    BY <2>1, FirstAndLast
<1>6. \A u \in candidates : ~Better(u, first, score)
  <2>1. ASSUME NEW u \in candidates, Better(u, first, score)
        PROVE  u \in laws
    BY <1>1, <1>2, <1>3, <2>1 DEF Better
  <2> QED
    BY <1>5, <2>1
<1>7. /\ Search(r, score) \in SUBSET candidates
      /\ Taken(candidates, score, Search(r, score))
  <2>1. candidates \in SUBSET {u \in Versions : document[u].there}
    BY <1>1, <1>2
  <2> QED
    BY <2>1, SelectedIsTaken DEF Search
<1>8. {u \in Search(r, score) : Better(u, first, score)} = {}
  BY <1>6, <1>7
<1>9. Fits(document[first].text, Texts({}))
  <2>1. Texts({}) = {}
    BY DEF Texts
  <2>2. document[first].text \in Wordings
    BY <1>1, <1>2, <1>3, <1>5
  <2> QED
    BY <2>1, <2>2, OneFits
<1>10. first \in Search(r, score)
  BY <1>5, <1>7, <1>8, <1>9 DEF Taken
<1> QED
  BY <1>5, <1>10

\* No search serves more chunks or more tokens than its budget.
SearchIsWithinBudget ==
    \A r \in Requests : \A s \in Scores :
        /\ Cardinality(Texts(Search(r, s))) <= MaxChunks
        /\ TokensOf(Texts(Search(r, s))) <= MaxTokens

\* Candidates of different texts come one before the other, those of one text do not.
LEMMA TextsAreOrdered ==
    ASSUME KnowledgeTypeOK, TextIsOfItsVersion, NEW score \in Scores, NEW r \in Requests,
           NEW u \in Distinct(r), NEW v \in Distinct(r)
    PROVE  document[u].text # document[v].text <=> Better(u, v, score) \/ Better(v, u, score)
<1>1. Distinct(r) \subseteq Eligible(r) /\ Eligible(r) \subseteq {w \in Versions : document[w].there}
  BY EligibleAreThere
<1>2. \A w \in {u, v} : /\ Rank(document[w].authority) \in 0..5
                        /\ document[w].text \in Wordings
                        /\ score[document[w].text] \in Nat
  BY <1>1, OrderedByNumbers
<1>3. CASE document[u].text = document[v].text
  <2>1. /\ Rank(document[u].authority) <= Rank(document[v].authority)
        /\ Rank(document[v].authority) <= Rank(document[u].authority)
    BY <1>3 DEF Distinct
  <2> QED
    BY <1>2, <1>3, <2>1 DEF Better
<1>4. CASE document[u].text # document[v].text
  <2>1. score[document[u].text] # score[document[v].text]
    BY <1>2, <1>4 DEF Scores, IsInjective
  <2> QED
    BY <1>2, <1>4, <2>1 DEF Better
<1> QED
  BY <1>3, <1>4

LEMMA BudgetIsKept ==
    ASSUME KnowledgeTypeOK, TextIsOfItsVersion
    PROVE  SearchIsWithinBudget
<1> SUFFICES ASSUME NEW r \in Requests, NEW score \in Scores
             PROVE  /\ Cardinality(Texts(Search(r, score))) <= MaxChunks
                    /\ TokensOf(Texts(Search(r, score))) <= MaxTokens
  BY DEF SearchIsWithinBudget
<1> DEFINE candidates == Candidates(r, score)
           found == Search(r, score)
<1>0. MaxChunks \in Nat /\ MaxTokens \in Nat
  BY KnowledgeAssumption
<1>1. /\ candidates \subseteq Distinct(r)
      /\ candidates \in SUBSET {u \in Versions : document[u].there}
  BY EligibleAreThere
<1>2. found \in SUBSET candidates /\ Taken(candidates, score, found)
  BY <1>1, SelectedIsTaken DEF Search
<1>3. CASE found = {}
  <2>1. Texts(found) = {}
    BY <1>3 DEF Texts
  <2>2. TokensOf({}) = 0
    <3>1. {x \in {} \X (1..MaxTokens) : x[2] <= Tokens[x[1]]} = {}
      OBVIOUS
    <3> QED
      BY <3>1, FS_EmptySet DEF TokensOf
  <2> QED
    BY <1>0, <2>1, <2>2, FS_EmptySet
<1>4. CASE found # {}
  <2>1. PICK last \in found : \A u \in found : ~Better(last, u, score)
    <3>1. found \in SUBSET {u \in Versions : document[u].there}
      BY <1>1, <1>2
    <3> HIDE DEF found
    <3> QED
      BY <1>4, <3>1, FirstAndLast
  <2> DEFINE before == Texts({u \in found : Better(u, last, score)})
             c == document[last].text
  <2>2. Fits(c, before)
    BY <1>2, <2>1 DEF Taken
  <2>3. Texts(found) = before \cup {c}
    <3>1. \A u \in found : document[u].text = c \/ Better(u, last, score)
      BY <1>1, <1>2, <2>1, TextsAreOrdered
    <3> QED
      BY <2>1, <3>1 DEF Texts
  <2>4. IsFiniteSet(before)
    <3>1. before \subseteq Wordings
      BY <1>1, <1>2, OrderedByNumbers DEF Texts
    <3> HIDE DEF before
    <3> QED
      BY <3>1, KnowledgeAssumption, FS_Subset
  <2> HIDE DEF before, c, found
  <2>5. Cardinality(before) < MaxChunks /\ TokensOf(before \cup {c}) <= MaxTokens
    BY <2>2 DEF Fits
  <2>6. Cardinality(before) \in Nat
    BY <2>4, FS_CardinalityType
  <2>7. Cardinality(before \cup {c}) =
            IF c \in before THEN Cardinality(before) ELSE Cardinality(before) + 1
    BY <2>4, FS_AddElement
  <2>8. Cardinality(before \cup {c}) <= MaxChunks
    BY <1>0, <2>5, <2>6, <2>7
  <2> QED
    BY <2>3, <2>5, <2>8 DEF found
<1> QED
  BY <1>3, <1>4

-----------------------------------------------------------------------------
LEMMA Initially == KnowledgeInit => IInv
<1> SUFFICES ASSUME KnowledgeInit
             PROVE  IInv
  OBVIOUS
<1>1. \A i \in Importers : importer[i] = Idle
  BY DEF KnowledgeInit
<1>2. PathInHand /\ ListingIsPast /\ VersionInHand /\ ResultInHand /\ FoundInHand
      /\ HandledIsAvailable
  BY <1>1 DEF Idle, PathInHand, ListingIsPast, VersionInHand, ResultInHand, FoundInHand,
              HandledIsAvailable, Busy, Extracting
<1>3. StampsArePast
  BY DEF KnowledgeInit, StampsArePast
<1>4. TextIsOfItsVersion /\ CompletedScanIsSearchable
  BY DEF KnowledgeInit, NoDocument, TextIsOfItsVersion, CompletedScanIsSearchable
<1> QED
  BY <1>2, <1>3, <1>4, TypeInit DEF IInv

\* The strengthened invariant holds in every state an import can reach.
THEOREM Invariance == KnowledgeSpec => []IInv
<1>1. IInv /\ [KnowledgeNext]_knowledgeVars => IInv'
  BY TypeStep, StampsStep, ListingStep, PathStep, VersionStep, ResultStep, FoundStep, HandledStep,
     TextStep, CompletedStep DEF IInv
<1> QED
  BY <1>1, Initially, PTL DEF KnowledgeSpec

\* Rows and importers keep the shape of their tables and classes
\* (infrastructure/knowledge.py, local_knowledge_import.py).
THEOREM KnowledgeTypeCorrect == KnowledgeSpec => []KnowledgeTypeOK
<1>1. IInv => KnowledgeTypeOK
  BY DEF IInv
<1> QED
  BY <1>1, Invariance, PTL

\* Whenever files change while they are imported, by however many importers, what
\* is stored and searched under a version is the content whose hash the version
\* has: the two checks of local_knowledge_import.py that frame an extraction.
THEOREM TextsOfTheirVersions == KnowledgeSpec => []TextIsOfItsVersion
<1>1. IInv => TextIsOfItsVersion
  BY DEF IInv
<1> QED
  BY <1>1, Invariance, PTL

\* A scan that _finish_scan ends COMPLETED has left each supported file that it
\* listed searchable, for ever.
THEOREM CompletedScans == KnowledgeSpec => []CompletedScanIsSearchable
<1>1. IInv => CompletedScanIsSearchable
  BY DEF IInv
<1> QED
  BY <1>1, Invariance, PTL

\* What update_metadata corrected, no import changes: one that found the document
\* keeps it, and one that did not is refused by its unique source.
THEOREM CorrectionsAreKept == KnowledgeSpec => CorrectionsSurvive
<1> DEFINE Survives(v) == document[v].there =>
               document'[v] = document[v] \/ used'.corrections > used.corrections
<1>1. ASSUME IInv, [KnowledgeNext]_knowledgeVars
      PROVE  \A v \in Versions : Survives(v)
  <2>1. ASSUME NEW i \in Importers, Register(i), NEW u \in Versions
        PROVE  Survives(u)
    <3>1. PICK v : v = importer[i].version
      OBVIOUS
    <3>2. CASE UNCHANGED <<segments, document>>
      BY <3>2
    <3>3. CASE ~UNCHANGED <<segments, document>>
      <4>1. /\ v \in Versions
            /\ document' = [document EXCEPT ![v] =
                   Kept(v, importer[i].path, importer[i].result, importer[i].found)]
            /\ importer[i].found \/ ~document[v].there
            /\ importer[i].found => document'[v] = document[v]
        BY <1>1, <2>1, <3>1, <3>3, RegisteredRows
      <4>2. document \in [Versions -> Document]
        BY <1>1 DEF IInv, KnowledgeTypeOK
      <4>3. u # v => document'[u] = document[u]
        BY <4>1, <4>2
      <4> QED
        BY <4>1, <4>3
    <3> QED
      BY <3>2, <3>3
  <2>2. ASSUME NEW v \in Versions, Correct(v), NEW u \in Versions
        PROVE  Survives(u)
    BY <1>1, <2>2, CorrectedRows
  <2>3. ASSUME UNCHANGED document, NEW u \in Versions
        PROVE  Survives(u)
    BY <2>3
  <2> HIDE DEF Survives
  <2> QED
    BY <1>1, <2>1, <2>2, <2>3, RowsUnchanged DEF KnowledgeNext, knowledgeVars, rowVars, ChangeFile
<1>2. IInv /\ [KnowledgeNext]_knowledgeVars =>
          [\A v \in Versions : Survives(v)]_knowledgeVars
  BY <1>1
<1> QED
  BY <1>2, Invariance, PTL DEF KnowledgeSpec, CorrectionsSurvive

\* As long as no two imports overlap, a content has one version, whatever files it
\* is found in: find_any_local_version_by_sha256 finds it before another is made.
THEOREM VersionInvariance == KnowledgeSpec => []VersionInv
<1>1. KnowledgeInit => VersionInv
  <2>1. ASSUME KnowledgeInit
        PROVE  VersionInv
    <3>1. /\ \A i \in Importers : importer[i].at = "idle"
          /\ \A v \in Versions : created[v] = 0 /\ ~document[v].there
          /\ \A p \in Paths : observed[p] \notin Versions
      <4>1. NoVersion \notin Versions
        BY DEF NoVersion, Versions
      <4> QED
        BY <2>1, <4>1 DEF KnowledgeInit, Idle, NoDocument
    <3> QED
      BY <3>1 DEF VersionInv, OneAtATime, CreatedBefore, NewInHand, OneVersion
  <2> QED
    BY <2>1
<1>2. IInv /\ IInv' /\ VersionInv /\ [KnowledgeNext]_knowledgeVars => VersionInv'
  BY OneAtATimeStep, CreatedStep, NewStep, OneVersionStep DEF VersionInv
<1> QED
  BY <1>1, <1>2, Invariance, PTL DEF KnowledgeSpec

\* What the lawyer has disabled, no search serves, and what was repealed only one
\* of the law of another day: its content has no other version that a copy of the
\* file could have brought in (infrastructure/knowledge.py, local_knowledge_import.py).
THEOREM WithdrawnAreNotServed == KnowledgeSpec => []WithdrawnIsNotServed
<1>1. VersionInv => WithdrawnIsNotServed
  BY WithdrawnIsNotFound DEF VersionInv
<1> QED
  BY <1>1, VersionInvariance, PTL

\* Of the texts that match, as many as the statement's limit lets through,
\* select_budgeted_knowledge serves a law if there is one, whatever the budgets.
THEOREM LawsAreServedFirst == KnowledgeSpec => []LawIsServedFirst
<1>1. IInv => LawIsServedFirst
  BY LawIsServed DEF IInv
<1> QED
  BY <1>1, Invariance, PTL

\* Whatever it finds, select_budgeted_knowledge keeps both budgets: that of the
\* chunks and that of their tokens.
THEOREM BudgetsAreKept == KnowledgeSpec => []SearchIsWithinBudget
<1>1. IInv => SearchIsWithinBudget
  BY BudgetIsKept DEF IInv
<1> QED
  BY <1>1, Invariance, PTL
=============================================================================
