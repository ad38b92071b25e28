--------------------------- MODULE KnowledgeImport ---------------------------
(***************************************************************************)
(* The import of a local directory of legal material                       *)
(* (local_knowledge_import.py, local_knowledge_files.py), the corrections  *)
(* of its metadata, and what a search serves of it (knowledge.py,          *)
(* token_budget.py, infrastructure/knowledge.py).                          *)
(*                                                                         *)
(* An import is a process that the operator starts; nothing keeps two from *)
(* overlapping.  It commits file by file: Decide and Commit are the two    *)
(* ends of _prepare's transaction, Recheck and Register those of the one   *)
(* that ends an extraction.  Meanwhile the files change under it.          *)
(*                                                                         *)
(* A version is named by what is unique of it, its source and its content, *)
(* which stands for its hash.  The text of a content is what is extracted  *)
(* of it, as one segment and one chunk; other contents may have the same.  *)
(* An extraction is its importer's at; one whose importer is gone stays    *)
(* EXTRACTING, one that failed FAILED, and nothing reads either.  Files    *)
(* the scanner excludes, counters of a scan and logs are left out.         *)
(***************************************************************************)
EXTENDS Naturals, FiniteSets, Functions

CONSTANTS
    Authorities,    \* authority types that are told apart
    Importers,      \* processes of local_knowledge_importer.py
    Paths,          \* relative paths of the directory
    Position,       \* Position[p]: its place in the order of a listing
    Supported,      \* those with an extension that can be extracted
    Inferred,       \* Inferred[p]: the authority type its directories name
    Contents,       \* contents of files
    Wordings,       \* texts
    TextOf,         \* TextOf[c]: the text that is extracted of the content c
    Tokens,         \* Tokens[t]: the tokens of the chunk of the text t
    MaxChunks,      \* budget of a search: chunks
    MaxTokens,      \* budget of a search: tokens, of one chunk at most
    MaxScans,       \* bound on imports
    MaxChanges,     \* bound on changes of files
    MaxFaults,      \* bound on crashes, unreadable files, failed extractions
    MaxCorrections  \* bound on corrections of metadata

Absent == "absent"

ASSUME KnowledgeAssumption ==
    /\ IsFiniteSet(Paths) /\ Paths # {} /\ IsFiniteSet(Contents) /\ IsFiniteSet(Wordings)
    /\ Position \in [Paths -> Nat]
    /\ Supported \subseteq Paths
    /\ Absent \notin Contents
    /\ Authorities \subseteq {"law", "policy", "unknown"}
    /\ Inferred \in [Paths -> Authorities]
    /\ TextOf \in [Contents -> Wordings]
    /\ Tokens \in [Wordings -> 1..MaxTokens]
    /\ {MaxChunks, MaxTokens} \subseteq Nat \ {0}
    /\ {MaxScans, MaxChanges, MaxFaults, MaxCorrections} \subseteq Nat

VARIABLES
    file,      \* file[p]: the file at p; its stamp stands for size and mtime
    source,    \* source[p]: status of its row in local_document_sources
    observed,  \* observed[p]: the version of the latest observation of p
    created,   \* created[v]: when the row of v was created, 0 is not yet
    segments,  \* segments[v]: the texts of its successful extractions
    document,  \* document[v]: its row in knowledge_documents, with its chunk
    importer,  \* importer[i]: where the process is, and what it has in memory
    promised,  \* contents of the files that scans now COMPLETED had listed
    overlap,   \* two imports ran at once
    used       \* scans, changes, faults and corrections so far

dirVars == <<file>>
rowVars == <<source, observed, created, segments, document>>
knowledgeVars == <<dirVars, rowVars, importer, promised, overlap, used>>

-----------------------------------------------------------------------------
Versions == Paths \X Contents

NoVersion == <<>>

File == [content : Contents \cup {Absent}, stamp : 0..MaxChanges]

\* standing: disabled, whatever its authority_status; or enabled and either repealed,
\* for superseded too, or effective, for unknown too.
Document == [there : BOOLEAN, text : Wordings \cup {Absent}, authority : Authorities,
             standing : {"effective", "repealed", "disabled"}]

\* The tables: sources and observations by path, segments and documents by version.
SourceRows == [Paths -> {"none", "active", "missing"}]

ObservationRows == [Paths -> Versions \cup {NoVersion}]

SegmentRows == [Versions -> SUBSET Wordings]

DocumentRows == [Versions -> Document]

NoDocument == [there |-> FALSE, text |-> Absent, authority |-> CHOOSE a \in Authorities : TRUE,
               standing |-> "disabled"]

\* listing: what the scan found; left: files it has not come to; failed: that it
\* will end PARTIAL.  A result is the text that was extracted, or none.
Importer == [at : {"idle", "next", "commit", "check", "extract", "recheck", "register"},
             listing : [Paths -> File], left : SUBSET Paths, seen : SUBSET Paths, failed : BOOLEAN,
             path : Paths, version : Versions \cup {NoVersion},
             work : {"observe", "extract"},
             result : Wordings \cup {Absent}, found : BOOLEAN]

NoFile == [content |-> Absent, stamp |-> 0]

SomePath == CHOOSE p \in Paths : TRUE

Idle == [at |-> "idle", listing |-> [p \in Paths |-> NoFile], left |-> {}, seen |-> {},
         failed |-> FALSE, path |-> SomePath, version |-> NoVersion, work |-> "observe",
         result |-> Absent, found |-> FALSE]

KnowledgeInit ==
    /\ file \in [Paths -> [content : Contents \cup {Absent}, stamp : {0}]]
    /\ source = [p \in Paths |-> "none"]
    /\ observed = [p \in Paths |-> NoVersion]
    /\ created = [v \in Versions |-> 0]
    /\ segments = [v \in Versions |-> {}]
    /\ document = [v \in Versions |-> NoDocument]
    /\ importer = [i \in Importers |-> Idle]
    /\ promised = {}
    /\ overlap = FALSE
    /\ used = [scans |-> 0, changes |-> 0, faults |-> 0, corrections |-> 0]

Fault == used.faults < MaxFaults /\ used' = [used EXCEPT !.faults = @ + 1]

\* Somebody edits, replaces, adds or removes a file.
ChangeFile(p) ==
    /\ used.changes < MaxChanges
    /\ \E c \in Contents \cup {Absent} :
           /\ c # Absent \/ file[p].content # Absent
           /\ file' = [file EXCEPT ![p] = [content |-> c, stamp |-> used.changes + 1]]
    /\ used' = [used EXCEPT !.changes = @ + 1]
    /\ UNCHANGED <<rowVars, importer, promised, overlap>>

-----------------------------------------------------------------------------
\* An importer that has listed the files, and lost one if it failed.
Started(listed, failed) ==
    [Idle EXCEPT !.at = "next", !.left = listed, !.seen = listed, !.failed = failed,
                 !.listing = [p \in Paths |-> IF p \in listed THEN file[p] ELSE NoFile]]

\* scan_local_knowledge_files, at one moment, and the row of the scan.  A file
\* that cannot be read, or changes while it is, is a failure and not listed.
StartScan(i) ==
    /\ importer[i].at = "idle"
    /\ used.scans < MaxScans
    /\ \E unread \in SUBSET {p \in Paths : file[p].content # Absent} :
           /\ used.faults + Cardinality(unread) <= MaxFaults
           /\ used' = [used EXCEPT !.scans = @ + 1, !.faults = @ + Cardinality(unread)]
           /\ importer' = [importer EXCEPT ![i] =
                  Started({p \in Paths : file[p].content # Absent} \ unread, unread # {})]
    /\ overlap' = (overlap \/ \E j \in Importers \ {i} : importer[j].at # "idle")
    /\ UNCHANGED <<dirVars, rowVars, promised>>

\* Mutant: the same content in another file is not looked for.
CanonicalMut(c) == {}

\* find_any_local_version_by_sha256: the oldest version of a content.
Canonical(c) ==
    {v \in Versions : /\ v[2] = c /\ created[v] # 0
                      /\ \A u \in Versions : u[2] = c /\ created[u] # 0 => created[v] <= created[u]}

\* Mutant: a version counts as searchable once it is there.
SearchableMut(v) == created[v] # 0

\* _version_is_searchable.
Searchable(v) == segments[v] # {} /\ document[v].there

\* What _prepare finds of the content c of p: that its latest version, or the
\* oldest of the content, is searchable; one that is to be extracted again; or
\* none, and p gets a new one.
Decision(p, c) ==
    LET same == {v \in Versions : v = observed[p] /\ v[2] = c}
        known == IF \E v \in same : Searchable(v) THEN same ELSE Canonical(c)
        retry == IF same # {} THEN same ELSE Canonical(c)
    IN IF p \notin Supported THEN [work |-> "observe", version |-> NoVersion]
       ELSE IF \E v \in known : Searchable(v)
       THEN [work |-> "observe", version |-> CHOOSE v \in known : TRUE]
       ELSE [work |-> "extract",
             version |-> IF retry # {} THEN CHOOSE v \in retry : TRUE ELSE <<p, c>>]

\* The advisory lock of the path, and then of the row of its source.
Locked(p, i) == \E j \in Importers \ {i} : importer[j].at = "commit" /\ importer[j].path = p

Decide(i) ==
    /\ importer[i].at = "next"
    /\ \E p \in importer[i].left :
           LET d == Decision(p, importer[i].listing[p].content) IN
           /\ \A q \in importer[i].left : Position[p] <= Position[q]
           /\ ~Locked(p, i)
           /\ importer' = [importer EXCEPT ![i] = [@ EXCEPT
                  !.at = "commit", !.left = importer[i].left \ {p}, !.path = p,
                  !.work = d.work, !.version = d.version]]
    /\ UNCHANGED <<dirVars, rowVars, promised, overlap, used>>

\* The importer turns to the next file of its listing.
Turned(i, failed) ==
    [Idle EXCEPT !.at = "next", !.listing = importer[i].listing, !.left = importer[i].left,
                 !.seen = importer[i].seen, !.failed = importer[i].failed \/ failed]

\* The rest of _prepare: source, version if it is new, extraction, observation.
Commit(i) ==
    LET v == importer[i].version
        p == importer[i].path
        last == Cardinality({u \in Versions : created[u] # 0})
    IN
    /\ importer[i].at = "commit"
    /\ source' = [source EXCEPT ![p] = "active"]
    /\ observed' = [observed EXCEPT ![p] = v]
    /\ created' = [u \in Versions |-> IF u = v /\ created[u] = 0 THEN last + 1 ELSE created[u]]
    /\ importer' = [importer EXCEPT ![i] =
           IF @.work = "observe" THEN Turned(i, FALSE) ELSE [@ EXCEPT !.at = "check"]]
    /\ UNCHANGED <<dirVars, segments, document, promised, overlap, used>>

-----------------------------------------------------------------------------
\* _source_matches_prepared.
Matches(i) == file[importer[i].path] = importer[i].listing[importer[i].path]

\* Mutant: what was checked before the extraction is not checked after it.
RecheckedMut(i) == TRUE

Rechecked(i) == Matches(i)

\* A file is given up: its extraction, if any, is failed, and the scan PARTIAL.
Failed(i) == importer' = [importer EXCEPT ![i] = Turned(i, TRUE)]

Check(i) ==
    /\ importer[i].at = "check"
    /\ IF Matches(i) THEN importer' = [importer EXCEPT ![i].at = "extract"] ELSE Failed(i)
    /\ UNCHANGED <<dirVars, rowVars, promised, overlap, used>>

\* The extractor reads the file as it is now; its text is all that is kept of it.
Extract(i) ==
    /\ importer[i].at = "extract"
    /\ IF file[importer[i].path].content # Absent
       THEN importer' = [importer EXCEPT ![i].at = "recheck",
                                         ![i].result = TextOf[file[importer[i].path].content]]
       ELSE Failed(i)
    /\ UNCHANGED <<dirVars, rowVars, promised, overlap, used>>

\* The check after it, and the transaction that ends an extraction as far as
\* find_document_by_source.
Recheck(i) ==
    /\ importer[i].at = "recheck"
    /\ IF Rechecked(i)
       THEN importer' = [importer EXCEPT ![i].at = "register",
                                         ![i].found = document[importer[i].version].there]
       ELSE Failed(i)
    /\ UNCHANGED <<dirVars, rowVars, promised, overlap, used>>

\* Mutant: the document is given the name of its file for its authority type.
RegisteredMut(p, text) ==
    [there |-> TRUE, text |-> text, authority |-> p, standing |-> "effective"]

\* _register_knowledge: its authority is that of the path that was imported.
Registered(p, text) ==
    [there |-> TRUE, text |-> text, authority |-> Inferred[p], standing |-> "effective"]

\* Mutant: the document is written again when the file is.
KeptMut(v, p, text, found) == Registered(p, text)

\* The document that an import leaves when it has found one, or none.
Kept(v, p, text, found) == IF found THEN document[v] ELSE Registered(p, text)

\* The end of it.  Another import may have registered the version meanwhile:
\* then the unique source fails the insert, and the transaction with it.
Register(i) ==
    LET v == importer[i].version IN
    /\ importer[i].at = "register"
    /\ importer' = [importer EXCEPT ![i] = Turned(i, ~@.found /\ document[v].there)]
    /\ IF ~importer[i].found /\ document[v].there
       THEN UNCHANGED <<segments, document>>
       ELSE /\ segments' = [segments EXCEPT ![v] = @ \cup {importer[i].result}]
            /\ document' = [document EXCEPT ![v] =
                   Kept(v, importer[i].path, importer[i].result, importer[i].found)]
    /\ UNCHANGED <<dirVars, source, observed, created, promised, overlap, used>>

\* What is raised for a file is counted, and the next one is next; so is a file
\* that has no text, or that the extractor fails.
Raise(i) ==
    /\ importer[i].at \notin {"idle", "next"}
    /\ Fault
    /\ Failed(i)
    /\ UNCHANGED <<dirVars, rowVars, promised, overlap>>

\* _finish_scan: it waits for the rows of sources that others have locked.
FinishScan(i) ==
    /\ importer[i].at = "next" /\ importer[i].left = {}
    /\ \A p \in Paths : Locked(p, i) => source[p] = "none"
    /\ source' = [p \in Paths |->
           IF p \notin importer[i].seen /\ source[p] # "none" THEN "missing" ELSE source[p]]
    /\ promised' = IF importer[i].failed THEN promised
                   ELSE promised \cup {importer[i].listing[p].content : p \in importer[i].seen \cap Supported}
    /\ importer' = [importer EXCEPT ![i] = Idle]
    /\ UNCHANGED <<dirVars, observed, created, segments, document, overlap, used>>

Crash(i) ==
    /\ importer[i].at # "idle"
    /\ Fault
    /\ importer' = [importer EXCEPT ![i] = Idle]
    /\ UNCHANGED <<dirVars, rowVars, promised, overlap>>

-----------------------------------------------------------------------------
\* update_metadata: its page showed the version the row still has.
Correct(v) ==
    /\ document[v].there
    /\ used.corrections < MaxCorrections
    /\ used' = [used EXCEPT !.corrections = @ + 1]
    /\ \E a \in Authorities, s \in {"effective", "repealed", "disabled"} :
           /\ a = "unknown" => s # "repealed"
           /\ document' = [document EXCEPT ![v] = [@ EXCEPT !.authority = a, !.standing = s]]
    /\ UNCHANGED <<dirVars, source, observed, created, segments, importer, promised, overlap>>

KnowledgeNext ==
    \/ \E p \in Paths : ChangeFile(p)
    \/ \E i \in Importers :
           \/ StartScan(i) \/ Decide(i) \/ Commit(i)
           \/ Check(i) \/ Extract(i) \/ Recheck(i)
           \/ Register(i) \/ Raise(i) \/ FinishScan(i) \/ Crash(i)
    \/ \E v \in Versions : Correct(v)

KnowledgeSpec == KnowledgeInit /\ [][KnowledgeNext]_knowledgeVars

-----------------------------------------------------------------------------
\* What a search asks for: the law of today or, with historical_as_of, that of
\* another day.  matching: the documents that its other filters let through, by
\* their words, jurisdiction, type, matter, agent and dates.
Requests == [historical : BOOLEAN, matching : SUBSET {v \in Versions : document[v].there}]

\* AUTHORITY_RANK of the role, and authority_priority_for_type in that order.
Rank(a) == CASE a = "law" -> 5 [] a = "policy" -> 2 [] a = "unknown" -> 0

Eligible(r) ==
    {v \in r.matching : \/ document[v].standing = "effective"
                        \/ document[v].standing = "repealed" /\ r.historical}

\* The statement's row_number over text_hash: equal texts differ in the score of
\* their priority only.
Distinct(r) ==
    LET eligible == Eligible(r)
        rank(v) == Rank(document[v].authority)
    IN {v \in eligible :
            \A u \in eligible : document[u].text = document[v].text => rank(u) <= rank(v)}

Texts(versions) == {document[v].text : v \in versions}

\* The statement's limit, of five times the chunks, by total_score.
Candidates(r, score) ==
    LET distinct == Distinct(r)
        higher(v) == {t \in Texts(distinct) : score[t] > score[document[v].text]}
    IN {v \in distinct : Cardinality(higher(v)) < 5 * MaxChunks}

\* Mutant: the highest score first, whatever its authority.
BetterMut(u, v, score) == score[document[u].text] > score[document[v].text]

\* The key of the sort in select_budgeted_knowledge.
Better(u, v, score) ==
    \/ Rank(document[u].authority) > Rank(document[v].authority)
    \/ /\ Rank(document[u].authority) = Rank(document[v].authority)
       /\ score[document[u].text] > score[document[v].text]

\* The tokens of the chunks of some texts, counted one by one.
TokensOf(some) == Cardinality({x \in some \X (1..MaxTokens) : x[2] <= Tokens[x[1]]})

\* The text t is within the budget that the texts taken before it leave.
Fits(t, taken) ==
    /\ Cardinality(taken) < MaxChunks
    /\ TokensOf(taken \cup {t}) <= MaxTokens

\* Those that the loop takes: each that fits after those before it.
Taken(candidates, score, some) ==
    \A v \in candidates :
        v \in some <=> Fits(document[v].text, Texts({u \in some : Better(u, v, score)}))

\* select_budgeted_knowledge: there is one such set.  Versions of one text are
\* taken together; which of them stands for it is by its id.
Selected(candidates, score) ==
    UNION {some \in SUBSET candidates : Taken(candidates, score, some)}

\* KnowledgeRetrievalService.search: scores are the total_score of each text, ties broken.
Search(r, score) == Selected(Candidates(r, score), score)

Scores == {s \in [Wordings -> 1..Cardinality(Wordings)] : IsInjective(s)}

-----------------------------------------------------------------------------
\* The rows and the importers have the shape of their tables and classes.
KnowledgeTypeOK ==
    /\ file \in [Paths -> File]
    /\ source \in SourceRows
    /\ observed \in ObservationRows
    /\ created \in [Versions -> 0..Cardinality(Versions)]
    /\ segments \in SegmentRows
    /\ document \in DocumentRows
    /\ importer \in [Importers -> Importer]
    /\ promised \in SUBSET Contents
    /\ overlap \in BOOLEAN
    /\ used \in [scans : 0..MaxScans, changes : 0..MaxChanges, faults : 0..MaxFaults,
                 corrections : 0..MaxCorrections]

\* However a file changes while it is imported, the text that is stored and
\* searched under a version is that of the content whose hash the version has.
TextIsOfItsVersion ==
    \A v \in Versions :
        /\ segments[v] \subseteq {TextOf[v[2]]}
        /\ document[v].there => document[v].text = TextOf[v[2]]

\* A scan ends COMPLETED only when each file it listed, in whichever way it was
\* handled, has its content searchable under some version.
CompletedScanIsSearchable ==
    \A c \in promised : \E v \in Versions : v[2] = c /\ segments[v] # {} /\ document[v].there

\* As long as no two imports overlapped, what the lawyer has disabled is served to
\* no analysis, and what was repealed to none but of the law of another day,
\* under whichever other path the same file was imported too.
WithdrawnIsNotServed ==
    ~overlap => \A v \in Versions : document[v].there /\ document[v].standing # "effective" =>
        \A r \in Requests : \A s \in Scores : \A u \in Search(r, s) :
            u[2] = v[2] => document[v].standing = "repealed" /\ r.historical

\* As long as the texts that match fit into the statement's limit, a search serves
\* a law if there is one, although others have a higher score and fill the budget.
LawIsServedFirst ==
    \A r \in Requests :
        /\ \E v \in Eligible(r) : document[v].authority = "law"
        /\ Cardinality(Texts(Eligible(r))) <= 5 * MaxChunks
        => \A s \in Scores : \E u \in Search(r, s) : document[u].authority = "law"

\* No import, also one that runs while the lawyer works, undoes a correction.
CorrectionsSurvive ==
    [][\A v \in Versions : document[v].there =>
          document'[v] = document[v] \/ used'.corrections > used.corrections]_knowledgeVars
=============================================================================
