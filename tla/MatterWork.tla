----------------------------- MODULE MatterWork -----------------------------
(***************************************************************************)
(* What the legal team does with the work: candidates that the analysis of *)
(* messages found are confirmed, linked or dismissed (handlers.py), open   *)
(* matters are changed by proposals that are reviewed (matter_updates.py), *)
(* and work items with their priorities, deadlines and dependencies are    *)
(* worked off (work_item_lifecycle.py, workflow_handlers.py).              *)
(*                                                                         *)
(* Every command is one transaction of the API.  It is split where it has  *)
(* the rows it locks and has read what it decides on: Begin is its first   *)
(* part, the action of its name the second, which ends with the commit.    *)
(* A user's command carries what the page showed; between the page and the *)
(* commit others commit theirs.  The answer may be lost: the client sends  *)
(* the command again under the same Idempotency-Key.  Field values, audit  *)
(* events and events of the outbox without a consumer are left out; the    *)
(* two pending statuses of a candidate are one, and so are the statuses of *)
(* a dismissed one, information_only and ignored.                          *)
(***************************************************************************)
EXTENDS Naturals, FiniteSets

CONSTANTS
    Users,        \* browsers with a session
    Candidates,   \* rows of message_candidates
    Matters, OpenMatter, \* rows of legal_matters, the one there is at first
    Items, OpenItem,     \* rows of work_items, the one there is at first
    Dependencies, \* rows of work_item_dependencies
    Proposals,    \* rows of matter_update_proposals
    MaxCommands,  \* bound on the commands of all users
    MaxReplaced,  \* bound on analyses that replace a candidate's
    MaxLost       \* bound on lost answers

ASSUME WorkAssumption ==
    /\ OpenMatter \in Matters /\ OpenItem \in Items /\ Candidates # {}
    /\ \A S \in {Users, Candidates, Matters, Items, Dependencies, Proposals} : IsFiniteSet(S)
    /\ {MaxCommands, MaxReplaced, MaxLost} \subseteq Nat

VARIABLES
    candidate,  \* candidate[c]: its row; version 0 is a row that is not there
    matter,     \* matter[m]: its row
    item,       \* item[i]: its row
    dependency, \* dependency[d]: its row
    proposal,   \* proposal[p]: its row
    links,      \* the rows of candidate_matter_links
    deadlines,  \* the rows of deadlines
    butler,     \* the events LegalButlerRequested of the outbox
    asked,      \* asked[u]: the command that u waits for
    key,        \* key[u]: its Idempotency-Key
    tx,         \* tx[u]: what its open transaction has read
    recorded,   \* users whose command has a row in idempotency_records
    commands,   \* commands so far
    replaced,   \* analyses that replaced a candidate's so far
    lost        \* lost answers so far

rowVars == <<candidate, matter, item, dependency, proposal, links, deadlines, butler>>
userVars == <<asked, key, tx, recorded>>
workVars == <<rowVars, userVars, commands, replaced, lost>>

-----------------------------------------------------------------------------
Versions == Nat

External == "external"

Candidate == [version : Versions, legal : BOOLEAN,
              status : {"pending", "confirmed", "linked", "dismissed", "rejected"}]

\* content: the command whose changes the matter has.
Matter == [version : Versions, content : 0..MaxCommands]

WorkItem == [version : Versions, matter : Matters, order : Nat, by : 0..MaxCommands,
             status : {"todo", "in_progress", "paused", "waiting", "blocked", "done", "cancelled"}]

Dependency == [version : Versions, item : Items, on : Items \cup {External},
               status : {"active", "satisfied"}]

\* current: the content of the matter that the proposal shows to its reviewer.
Proposal == [version : Versions, candidate : Candidates, matter : Matters, base : Versions,
             current : 0..MaxCommands, fields : SUBSET {"scalar", "newWorkItems"},
             status : {"pending", "approved", "partially_approved", "rejected"}]

Deadline == [owner : Matters \cup Items, by : 0..MaxCommands]

Link == [candidate : Candidates, matter : Matters, relation : {"created", "linked", "updated"}]

Butler == [candidate : Candidates, matter : Matters, item : Items \cup {External}]

\* The tables: a row for each id.  Links, deadlines and requests to the butler
\* are only added.
CandidateRows == [Candidates -> Candidate]

MatterRows == [Matters -> Matter]

ItemRows == [Items -> WorkItem]

DependencyRows == [Dependencies -> Dependency]

ProposalRows == [Proposals -> Proposal]

LinkRows == SUBSET Link

DeadlineRows == SUBSET Deadline

\* A command has its own key; 0 is none.
Keys == 0..MaxCommands

IdempotencyRows == SUBSET Users

Idle == [op |-> "none"]

NotOpen == [open |-> FALSE, order |-> 0, base |-> 0, current |-> 0, waits |-> {}]

Open == [open : {TRUE}, order : Nat, base : Versions, current : 0..MaxCommands,
         waits : SUBSET Dependencies]

There(rows) == {r \in DOMAIN rows : rows[r].version > 0}

\* A row that is not there yet, for the next insert.
Fresh(rows) == CHOOSE r \in DOMAIN rows \ There(rows) : TRUE

HasFresh(rows) == There(rows) # DOMAIN rows

ItemsOf(m) == {i \in There(item) : item[i].matter = m}

OpenDependencies(i) ==
    {d \in There(dependency) : dependency[d].item = i /\ dependency[d].status = "active"}

\* At first some candidates wait for a decision, or all have a proposal.
Undecided ==
    /\ \E there \in SUBSET Candidates :
           candidate = [c \in Candidates |->
               [version |-> IF c \in there THEN 1 ELSE 0, legal |-> TRUE, status |-> "pending"]]
    /\ proposal = [p \in Proposals |->
           [version |-> 0, candidate |-> CHOOSE c \in Candidates : TRUE, matter |-> OpenMatter,
            base |-> 0, current |-> 0, fields |-> {}, status |-> "pending"]]
    /\ links = {}

AllProposed ==
    /\ candidate = [c \in Candidates |-> [version |-> 2, legal |-> TRUE, status |-> "linked"]]
    /\ \E of \in [Proposals -> Candidates], fields \in SUBSET {"scalar", "newWorkItems"} :
           /\ fields # {} /\ \A c \in Candidates : Cardinality({p \in Proposals : of[p] = c}) = 1
           /\ proposal = [p \in Proposals |->
                  [version |-> 1, candidate |-> of[p], matter |-> OpenMatter,
                   base |-> 1, current |-> 0, fields |-> fields, status |-> "pending"]]
    /\ links = {[candidate |-> c, matter |-> OpenMatter, relation |-> "updated"] : c \in Candidates}

WorkInit ==
    /\ Undecided \/ AllProposed
    /\ matter = [m \in Matters |-> [version |-> IF m = OpenMatter THEN 1 ELSE 0, content |-> 0]]
    /\ item = [i \in Items |-> [version |-> IF i = OpenItem THEN 1 ELSE 0, matter |-> OpenMatter,
                                order |-> 0, by |-> 0, status |-> "todo"]]
    /\ dependency = [d \in Dependencies |->
           [version |-> 0, item |-> OpenItem, on |-> External, status |-> "active"]]
    /\ deadlines = {} /\ butler = {}
    /\ asked = [u \in Users |-> Idle] /\ key = [u \in Users |-> 0]
    /\ tx = [u \in Users |-> NotOpen]
    /\ recorded = {}
    /\ commands = 0 /\ replaced = 0 /\ lost = 0

-----------------------------------------------------------------------------
\* What the rows allow.

IsPendingMut(row) == row.status \in {"pending", "linked"}

IsPending(row) == row.status = "pending"

MayCreateMatter(row) == IsPending(row) /\ row.legal

IsTerminal(row) == row.status \in {"done", "cancelled"}

\* WorkItem.apply: an action has statuses it starts from, and one it ends in.
From(action) ==
    CASE action = "start" -> {"todo", "paused"}
      [] action = "pause" -> {"in_progress"}
      [] action = "wait" -> {"todo", "in_progress"}
      [] action = "block" -> {"todo", "in_progress", "paused", "waiting"}
      [] action = "resume" -> {"paused", "waiting", "blocked"}
      [] action = "complete" -> {"in_progress"}
      [] action \in {"cancel", "change"} -> {"todo", "in_progress", "paused", "waiting", "blocked"}
      [] action = "reopen" -> {"done", "cancelled"}

To(action, status) ==
    CASE action \in {"start", "resume"} -> "in_progress"
      [] action = "pause" -> "paused"
      [] action = "wait" -> "waiting"
      [] action = "block" -> "blocked"
      [] action = "complete" -> "done"
      [] action = "cancel" -> "cancelled"
      [] action = "reopen" -> "todo"
      [] action = "change" -> status

MayAct(action, row, waits) ==
    /\ row.status \in From(action)
    /\ action = "wait" => waits # {}
    /\ action = "complete" \/ (action = "resume" /\ row.status = "waiting") => waits = {}

\* The unique constraint uq_work_item_dependency: also a satisfied one counts.
MayDependOn(i, o) ==
    /\ o # i
    /\ o # External => \A d \in There(dependency) : ~(dependency[d].item = i /\ dependency[d].on = o)

-----------------------------------------------------------------------------
\* The commands of the routes.  A command names rows and has them as the page
\* showed them (seen); of these only the versions are sent.  The page offers
\* the decisions and actions that the statuses of its rows allow.

ItemActions == {"start", "pause", "wait", "block", "resume", "complete", "cancel", "reopen", "change"}

Decisions ==
    UNION {{[op |-> "confirm", row |-> c, seen |-> candidate[c]] : x \in {TRUE} \cap {candidate[c].legal}}
           \cup {[op |-> "resolve", row |-> c, seen |-> candidate[c], matter |-> m] : m \in There(matter) \cup {External}}
           \cup {[op |-> "propose", row |-> c, seen |-> candidate[c], matter |-> m, fields |-> f] :
                    m \in There(matter), f \in (SUBSET {"scalar", "newWorkItems"}) \ {{}}} :
           c \in {c \in There(candidate) : IsPending(candidate[c])}}

\* approved: the fields that the reviewer lets pass; none rejects the proposal.
Reviews ==
    UNION {{[op |-> "review", row |-> p, seen |-> proposal[p], approved |-> a, matter |-> proposal[p].matter,
             seenMatter |-> matter[proposal[p].matter]] : a \in SUBSET proposal[p].fields} :
           p \in {p \in There(proposal) : IsPending(proposal[p])}}

OnItem(i) == [row |-> i, seen |-> item[i], open |-> OpenDependencies(i)]

ItemCommands ==
    {[op |-> "act", on |-> OnItem(i), action |-> a] : i \in There(item), a \in ItemActions}
    \cup {[op |-> "prioritize", on |-> OnItem(i)] : i \in There(item)}
    \cup {[op |-> "depend", on |-> OnItem(i), other |-> o] : i \in There(item), o \in There(item) \cup {External}}
    \cup {[op |-> "undepend", on |-> OnItem(dependency[d].item), row |-> d, seen |-> dependency[d]] :
             d \in {d \in There(dependency) : dependency[d].status = "active"}}

Offered(q) == q.op = "act" => MayAct(q.action, q.on.seen, q.on.open)

Additions ==
    {[op |-> "create", legal |-> l] : l \in BOOLEAN}
    \cup {[op |-> "add", matter |-> m] : m \in There(matter)}
    \cup {[op |-> "deadline", owner |-> o] : o \in There(matter) \cup There(item)}

\* A user sends a command under a new key.
Ask(u) ==
    /\ asked[u] = Idle /\ commands < MaxCommands
    /\ \E q \in Decisions \cup Reviews \cup {q \in ItemCommands : Offered(q)} \cup Additions :
           asked' = [asked EXCEPT ![u] = q]
    /\ key' = [key EXCEPT ![u] = commands + 1]
    /\ commands' = commands + 1
    /\ UNCHANGED <<rowVars, tx, recorded, replaced, lost>>

-----------------------------------------------------------------------------

\* The rows that the transaction of a command locks.
Locked(q) ==
    CASE q.op \in {"confirm", "resolve", "propose"} -> {q.row}
      [] q.op = "review" -> {q.row, q.matter}
      [] q.op = "add" -> {q.matter}
      [] q.op \in {"act", "prioritize", "depend"} -> {q.on.row}
      [] q.op = "undepend" -> {q.on.row, q.row}
      [] OTHER -> {}

IsFree(r) == \A u \in Users : tx[u].open => r \notin Locked(asked[u])

\* What the transaction reads before it decides.  A proposal reads the matter
\* without a lock.
Read(q) ==
    [open |-> TRUE,
     order |-> IF q.op \in {"add", "review"} THEN Cardinality(ItemsOf(q.matter)) ELSE 0,
     base |-> IF q.op = "propose" THEN matter[q.matter].version ELSE 0,
     current |-> IF q.op = "propose" THEN matter[q.matter].content ELSE 0,
     waits |-> IF q.op = "act" THEN OpenDependencies(q.on.row) ELSE {}]

Begin(u) ==
    /\ asked[u] # Idle /\ ~tx[u].open /\ u \notin recorded
    /\ \A r \in Locked(asked[u]) : IsFree(r)
    /\ tx' = [tx EXCEPT ![u] = Read(asked[u])]
    /\ UNCHANGED <<rowVars, asked, key, recorded, commands, replaced, lost>>

\* The user has an answer, or waits no longer.
Settle(u) ==
    /\ asked' = [asked EXCEPT ![u] = Idle]
    /\ key' = [key EXCEPT ![u] = 0]
    /\ recorded' = recorded \ {u}

\* The command was carried out before: the answer is the recorded one.
Replay(u) ==
    /\ u \in recorded
    /\ Settle(u)
    /\ UNCHANGED <<rowVars, tx, commands, replaced, lost>>

AnswerMut(u) ==
    /\ tx' = [tx EXCEPT ![u] = NotOpen]
    /\ \/ Settle(u) /\ UNCHANGED lost
       \/ lost < MaxLost /\ lost' = lost + 1 /\ UNCHANGED <<asked, key, recorded>>
    /\ UNCHANGED <<commands, replaced>>

\* The commit of a command; its answer arrives or is lost.
Answer(u) ==
    /\ tx' = [tx EXCEPT ![u] = NotOpen]
    /\ \/ Settle(u) /\ UNCHANGED lost
       \/ /\ lost < MaxLost
          /\ lost' = lost + 1
          /\ recorded' = recorded \cup {u}
          /\ UNCHANGED <<asked, key>>
    /\ UNCHANGED <<commands, replaced>>

\* The request fails before its commit, and everything is rolled back.
RollBack(u) ==
    /\ tx[u].open
    /\ tx' = [tx EXCEPT ![u] = NotOpen]
    /\ UNCHANGED <<rowVars, asked, key, recorded, commands, replaced, lost>>

GiveUp(u) ==
    /\ asked[u] # Idle /\ ~tx[u].open
    /\ Settle(u)
    /\ UNCHANGED <<rowVars, tx, commands, replaced, lost>>

InTx(u, op) == tx[u].open /\ asked[u].op = op

Bump(row) == [row EXCEPT !.version = @ + 1]

-----------------------------------------------------------------------------
\* Candidates.

CreateCandidate(u) ==
    /\ InTx(u, "create") /\ HasFresh(candidate)
    /\ candidate' = [candidate EXCEPT ![Fresh(candidate)] =
                         [version |-> 1, legal |-> asked[u].legal, status |-> "pending"]]
    /\ Answer(u)
    /\ UNCHANGED <<matter, item, dependency, proposal, links, deadlines, butler>>

IsCurrent(q) == q.seen.version = candidate[q.row].version

MayConfirm(q) == IsCurrent(q) /\ MayCreateMatter(candidate[q.row])

MayResolve(q) == IsCurrent(q) /\ IsPending(candidate[q.row])

NewItem(m, n, u) == [version |-> 1, matter |-> m, order |-> n, by |-> key[u], status |-> "todo"]

\* The commands that add one item add the first one of what they could.
ConfirmCreateMatter(u) ==
    /\ InTx(u, "confirm") /\ HasFresh(matter) /\ HasFresh(item)
    /\ LET c == asked[u].row  m == Fresh(matter)  i == Fresh(item) IN
           /\ MayConfirm(asked[u])
           /\ candidate' = [candidate EXCEPT ![c] = [Bump(@) EXCEPT !.status = "confirmed"]]
           /\ matter' = [matter EXCEPT ![m] = [version |-> 1, content |-> 0]]
           /\ item' = [item EXCEPT ![i] = NewItem(m, 0, u)]
           /\ links' = links \cup {[candidate |-> c, matter |-> m, relation |-> "created"]}
           /\ butler' = butler \cup {[candidate |-> c, matter |-> m, item |-> i]}
    /\ Answer(u)
    /\ UNCHANGED <<dependency, proposal, deadlines>>

Resolve(u) ==
    /\ InTx(u, "resolve")
    /\ LET q == asked[u] IN
           /\ MayResolve(q)
           /\ candidate' = [candidate EXCEPT ![q.row] = [Bump(@) EXCEPT !.status =
                  IF q.matter = External THEN "dismissed" ELSE "linked"]]
           /\ IF q.matter # External
              THEN /\ links' = links \cup {[candidate |-> q.row, matter |-> q.matter, relation |-> "linked"]}
                   /\ butler' = butler \cup {[candidate |-> q.row, matter |-> q.matter, item |-> External]}
              ELSE UNCHANGED <<links, butler>>
    /\ Answer(u)
    /\ UNCHANGED <<matter, item, dependency, proposal, deadlines>>

Propose(u) ==
    /\ InTx(u, "propose") /\ HasFresh(proposal)
    /\ LET q == asked[u] IN
           /\ MayResolve(q)
           /\ proposal' = [proposal EXCEPT ![Fresh(proposal)] =
                  [version |-> 1, candidate |-> q.row, matter |-> q.matter, base |-> tx[u].base,
                   current |-> tx[u].current, fields |-> q.fields, status |-> "pending"]]
           /\ candidate' = [candidate EXCEPT ![q.row] = [Bump(@) EXCEPT !.status = "linked"]]
           /\ links' = links \cup {[candidate |-> q.row, matter |-> q.matter, relation |-> "updated"]}
    /\ Answer(u)
    /\ UNCHANGED <<matter, item, dependency, deadlines, butler>>

\* A later analysis of the message replaces what waits for a decision; on a
\* message that is no longer legal it rejects it.
ReplaceAnalysis(c) ==
    /\ replaced < MaxReplaced
    /\ c \in There(candidate) /\ IsFree(c) /\ IsPending(candidate[c])
    /\ \/ \E l \in BOOLEAN : candidate' = [candidate EXCEPT ![c] = [Bump(@) EXCEPT !.legal = l]]
       \/ candidate' = [candidate EXCEPT ![c] = [Bump(@) EXCEPT !.status = "rejected"]]
    /\ replaced' = replaced + 1
    /\ UNCHANGED <<matter, item, dependency, proposal, links, deadlines, butler, userVars, commands, lost>>

-----------------------------------------------------------------------------
\* Matters.

OnBaseMut(q) == q.seenMatter.version = proposal[q.row].base

\* The reviewer decides on the matter that the proposal was made for.
OnBase(q) ==
    /\ q.seenMatter.version = proposal[q.row].base
    /\ matter[q.matter].version = proposal[q.row].base

MayReview(q) ==
    /\ OnBase(q)
    /\ q.seen.version = proposal[q.row].version
    /\ IsPending(proposal[q.row])

ReviewedStatus(q) ==
    CASE q.approved = {} -> "rejected"
      [] q.approved = proposal[q.row].fields -> "approved"
      [] OTHER -> "partially_approved"

\* Only the change of a scalar field makes a new version of the matter.
Review(u) ==
    /\ InTx(u, "review")
    /\ LET q == asked[u] IN
           /\ MayReview(q)
           /\ proposal' = [proposal EXCEPT ![q.row] = [Bump(@) EXCEPT !.status = ReviewedStatus(q)]]
           /\ IF "scalar" \in q.approved
              THEN /\ matter' = [matter EXCEPT ![q.matter] = [Bump(@) EXCEPT !.content = key[u]]]
                   /\ \/ deadlines' = deadlines \cup {[owner |-> q.matter, by |-> key[u]]}
                      \/ UNCHANGED deadlines
              ELSE UNCHANGED <<matter, deadlines>>
           /\ IF "newWorkItems" \in q.approved
              THEN /\ HasFresh(item)
                   /\ item' = [item EXCEPT ![Fresh(item)] = NewItem(q.matter, tx[u].order, u)]
              ELSE UNCHANGED item
    /\ Answer(u)
    /\ UNCHANGED <<candidate, dependency, links, butler>>

AddWorkItem(u) ==
    /\ InTx(u, "add") /\ HasFresh(item)
    /\ item' = [item EXCEPT ![Fresh(item)] = NewItem(asked[u].matter, tx[u].order, u)]
    /\ Answer(u)
    /\ UNCHANGED <<candidate, matter, dependency, proposal, links, deadlines, butler>>

CreateDeadline(u) ==
    /\ InTx(u, "deadline")
    /\ deadlines' = deadlines \cup {[owner |-> asked[u].owner, by |-> key[u]]}
    /\ Answer(u)
    /\ UNCHANGED <<candidate, matter, item, dependency, proposal, links, butler>>

-----------------------------------------------------------------------------
\* Work items.

ItemIsCurrent(q) == q.on.seen.version = item[q.on.row].version

Acted(row, action) == [Bump(row) EXCEPT !.status = To(action, row.status)]

ApplyAction(u) ==
    /\ InTx(u, "act")
    /\ LET q == asked[u] IN
           /\ ItemIsCurrent(q) /\ MayAct(q.action, item[q.on.row], tx[u].waits)
           /\ item' = [item EXCEPT ![q.on.row] = Acted(@, q.action)]
    /\ Answer(u)
    /\ UNCHANGED <<candidate, matter, dependency, proposal, links, deadlines, butler>>

MayPrioritize(q) == ItemIsCurrent(q) /\ ~IsTerminal(item[q.on.row])

\* The new version is the one SQLAlchemy gives to a changed row.
ConfirmPriority(u) ==
    /\ InTx(u, "prioritize") /\ MayPrioritize(asked[u])
    /\ item' = [item EXCEPT ![asked[u].on.row] = Bump(@)]
    /\ Answer(u)
    /\ UNCHANGED <<candidate, matter, dependency, proposal, links, deadlines, butler>>

MayTouchMut(q) == ItemIsCurrent(q)

TouchedMut(row) == row

\* touch_dependency_change
MayTouch(q) == ItemIsCurrent(q) /\ ~IsTerminal(item[q.on.row])

Touched(row) == Bump(row)

CreateDependency(u) ==
    /\ InTx(u, "depend") /\ HasFresh(dependency)
    /\ LET q == asked[u] IN
           /\ MayTouch(q) /\ MayDependOn(q.on.row, q.other)
           /\ dependency' = [dependency EXCEPT ![Fresh(dependency)] =
                  [version |-> 1, item |-> q.on.row, on |-> q.other, status |-> "active"]]
           /\ item' = [item EXCEPT ![q.on.row] = Touched(@)]
    /\ Answer(u)
    /\ UNCHANGED <<candidate, matter, proposal, links, deadlines, butler>>

MayResolveDependency(q) ==
    /\ q.seen.version = dependency[q.row].version
    /\ dependency[q.row].status = "active"
    /\ MayTouch(q)

ResolveDependency(u) ==
    /\ InTx(u, "undepend")
    /\ LET q == asked[u] IN
           /\ MayResolveDependency(q)
           /\ dependency' = [dependency EXCEPT ![q.row] = [Bump(@) EXCEPT !.status = "satisfied"]]
           /\ item' = [item EXCEPT ![q.on.row] = Touched(@)]
    /\ Answer(u)
    /\ UNCHANGED <<candidate, matter, proposal, links, deadlines, butler>>

-----------------------------------------------------------------------------
Accepts(u) ==
    LET q == asked[u] IN
    CASE q.op = "confirm" -> MayConfirm(q)
      [] q.op \in {"resolve", "propose"} -> MayResolve(q)
      [] q.op = "review" -> MayReview(q)
      [] q.op = "act" -> ItemIsCurrent(q) /\ MayAct(q.action, item[q.on.row], tx[u].waits)
      [] q.op = "prioritize" -> MayPrioritize(q)
      [] q.op = "depend" -> MayTouch(q) /\ MayDependOn(q.on.row, q.other)
      [] q.op = "undepend" -> MayResolveDependency(q)
      [] OTHER -> TRUE

\* A stale version, a status or a constraint that forbids the command.
Refuse(u) ==
    /\ tx[u].open /\ ~Accepts(u)
    /\ tx' = [tx EXCEPT ![u] = NotOpen]
    /\ Settle(u)
    /\ UNCHANGED <<rowVars, commands, replaced, lost>>

WorkNext ==
    \/ \E u \in Users :
           \/ Ask(u) \/ Begin(u) \/ Replay(u) \/ RollBack(u) \/ GiveUp(u) \/ Refuse(u)
           \/ CreateCandidate(u) \/ ConfirmCreateMatter(u) \/ Resolve(u) \/ Propose(u)
           \/ Review(u) \/ AddWorkItem(u) \/ CreateDeadline(u)
           \/ ApplyAction(u) \/ ConfirmPriority(u) \/ CreateDependency(u) \/ ResolveDependency(u)
    \/ \E c \in Candidates : ReplaceAnalysis(c)

WorkSpec == WorkInit /\ [][WorkNext]_workVars

-----------------------------------------------------------------------------
\* The rows have the shape of their tables, and a user at most one transaction.
WorkTypeOK ==
    /\ candidate \in CandidateRows
    /\ matter \in MatterRows
    /\ item \in ItemRows
    /\ dependency \in DependencyRows
    /\ proposal \in ProposalRows
    /\ links \in LinkRows /\ deadlines \in DeadlineRows /\ butler \subseteq Butler
    /\ DOMAIN asked = Users /\ key \in [Users -> Keys]
    /\ tx \in [Users -> Open \cup {NotOpen}]
    /\ recorded \in IdempotencyRows
    /\ commands \in 0..MaxCommands /\ replaced \in 0..MaxReplaced /\ lost \in 0..MaxLost

\* A finished work item has no open dependency, whoever completes it, reopens
\* it or changes its dependencies at the same time (domain/work_items.py:224,
\* :281; work_item_lifecycle.py:111).
DoneHasNothingOpen ==
    \A i \in There(item) : item[i].status = "done" => OpenDependencies(i) = {}

\* A candidate is decided once: two users and repeated requests leave it one
\* link, of the kind its status tells, and one request to plan the work
\* (domain/candidates.py:101, :133; handlers.py:340, :509).
DecidedOnce ==
    \A c \in Candidates :
        LET linked == {l \in links : l.candidate = c} IN
        /\ Cardinality(linked) = IF candidate[c].status \in {"confirmed", "linked"} THEN 1 ELSE 0
        /\ \A l \in linked : (l.relation = "created") <=> (candidate[c].status = "confirmed")
        /\ \A b \in butler : b.candidate = c =>
               \E l \in linked : l.matter = b.matter /\ l.relation # "updated"
        /\ Cardinality({p \in There(proposal) : proposal[p].candidate = c}) =
               Cardinality({l \in linked : l.relation = "updated"})

\* A command adds at most one work item, however often it is sent
\* (handlers.py:586, the Idempotency-Key of api.ts).
AddedOnce ==
    \A i, j \in There(item) : item[i].by = item[j].by => i = j

\* An approved change replaces the content of the matter that the proposal
\* showed: the changes of a competing proposal are never overwritten unseen
\* (matter_updates.py:341).
NoLostUpdate ==
    [][\A p \in Proposals :
           proposal'[p].status \in {"approved", "partially_approved"} /\ proposal[p].status = "pending"
               => matter[proposal[p].matter].content = proposal[p].current]_workVars

\* Who changes a work item or its dependencies has seen the item and the
\* dependencies it is changed from (domain/work_items.py:119, :154, :282).
ChangesAreInformed ==
    [][\A u \in Users :
           asked[u].op \in {"act", "prioritize", "depend", "undepend"} /\ tx[u].open /\ ~tx'[u].open
           /\ item' # item
               => LET q == asked[u] IN
                  /\ q.on.seen = item[q.on.row]
                  /\ q.on.open = OpenDependencies(q.on.row)]_workVars
=============================================================================
