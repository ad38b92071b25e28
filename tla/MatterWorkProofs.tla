-------------------------- MODULE MatterWorkProofs --------------------------
(***************************************************************************)
(* What the commands of any number of users leave of candidates, matters   *)
(* and work items, for every number of rows, commands and lost answers.    *)
(*                                                                         *)
(* Three things carry the proofs.  Open transactions lock different rows,  *)
(* so what one has read of an item stays so until it commits.  Whoever     *)
(* changes an item, or what it depends on, makes a new version of it, so a *)
(* version that is still current shows the page its user has seen.  And    *)
(* the key of a command is used until its answer, or its record, is there. *)
(***************************************************************************)
EXTENDS MatterWork, FiniteSetTheorems, TLAPS

OnItems == {"act", "prioritize", "depend", "undepend"}

\* A command names rows that are there.
Names(q) ==
    /\ q.op \in {"confirm", "resolve", "propose"} => q.row \in Candidates
    /\ q.op = "resolve" => q.matter \in Matters \cup {External}
    /\ q.op = "propose" =>
           /\ q.matter \in Matters /\ matter[q.matter].version > 0
           /\ q.fields \subseteq {"scalar", "newWorkItems"}
    /\ q.op = "review" =>
           /\ q.row \in Proposals /\ proposal[q.row].version > 0
           /\ q.matter = proposal[q.row].matter
    /\ q.op = "add" => q.matter \in Matters
    /\ q.op = "create" => q.legal \in BOOLEAN
    /\ q.op = "deadline" => q.owner \in Matters \cup Items
    /\ q.op \in OnItems => q.on.row \in Items /\ item[q.on.row].version > 0
    /\ q.op = "act" => q.action \in ItemActions
    /\ q.op = "depend" => q.other \in Items \cup {External}
    /\ q.op = "undepend" =>
           /\ q.row \in Dependencies /\ dependency[q.row].version > 0
           /\ dependency[q.row].item = q.on.row

RowsAreThere == \A u \in Users : Names(asked[u])

DependenciesHaveItems ==
    \A d \in Dependencies : dependency[d].version > 0 => item[dependency[d].item].version > 0

\* A transaction is that of a command without a record.
OpenIsAsked == \A u \in Users : tx[u].open => asked[u] # Idle /\ u \notin recorded

\* Open transactions lock different rows.
LocksExclude ==
    \A u, v \in Users :
        u # v /\ tx[u].open /\ tx[v].open => Locked(asked[u]) \cap Locked(asked[v]) = {}

\* What a transaction has read of an item's dependencies is still so.
WaitsAreCurrent ==
    \A u \in Users : \A i \in Items :
        tx[u].open /\ asked[u].op = "act" /\ asked[u].on.row = i =>
            tx[u].waits = OpenDependencies(i)

\* A page whose version of an item is current shows the item as it is.
PagesAreVersioned ==
    \A u \in Users : \A i \in Items :
        asked[u].op \in OnItems /\ asked[u].on.row = i =>
            /\ asked[u].on.seen.version \in 0..item[i].version
            /\ asked[u].on.seen.version = item[i].version =>
                   asked[u].on.seen = item[i] /\ asked[u].on.open = OpenDependencies(i)

\* The key of a command that was not carried out is that of no item.
KeysAreNew ==
    /\ \A i \in Items : item[i].version > 0 => item[i].by <= commands
    /\ \A u \in Users : asked[u] # Idle =>
           /\ key[u] \in 1..commands
           /\ \A v \in Users : asked[v] # Idle /\ key[v] = key[u] => v = u
           /\ \A i \in Items : u \notin recorded /\ item[i].version > 0 => item[i].by # key[u]

\* A proposal whose base is the current version of the matter shows its content.
BaseIsShown ==
    /\ \A p \in Proposals : proposal[p].version > 0 =>
           LET m == proposal[p].matter IN
           /\ matter[m].version > 0 /\ proposal[p].base <= matter[m].version
           /\ proposal[p].base = matter[m].version => proposal[p].current = matter[m].content
    /\ \A u \in Users : \A m \in Matters :
           tx[u].open /\ asked[u].op = "propose" /\ asked[u].matter = m =>
               /\ tx[u].base <= matter[m].version
               /\ tx[u].base = matter[m].version => tx[u].current = matter[m].content

WorkInv ==
    /\ WorkTypeOK
    /\ RowsAreThere
    /\ DependenciesHaveItems
    /\ OpenIsAsked
    /\ LocksExclude
    /\ WaitsAreCurrent
    /\ PagesAreVersioned
    /\ KeysAreNew
    /\ BaseIsShown
    /\ DoneHasNothingOpen
    /\ AddedOnce

-----------------------------------------------------------------------------

\* What a step leaves of the users' commands: an open transaction was open
\* before, for the same command, and a command without a record had none.
Kept ==
    /\ \A v \in Users :
        /\ tx'[v].open => tx[v].open /\ tx'[v] = tx[v] /\ asked'[v] = asked[v]
        /\ asked'[v] # Idle => asked'[v] = asked[v] /\ key'[v] = key[v]
        /\ (asked'[v] # Idle \/ tx'[v].open) /\ v \notin recorded' => v \notin recorded
        /\ tx'[v].open /\ v \in recorded' => v \in recorded
    /\ commands' = commands

\* The transaction of u ends, and its command is not carried out again.
Commits(u) ==
    /\ tx[u].open /\ ~tx'[u].open /\ (asked'[u] = Idle \/ u \in recorded')
    /\ \A v \in Users \ {u} : tx'[v] = tx[v]

\* What a commit of u makes of an item and of what it depends on.
SameItem(i) == item'[i] = item[i] /\ OpenDependencies(i)' = OpenDependencies(i)

Adds(u, i) ==
    /\ asked[u].op \notin OnItems
    /\ item[i].version = 0 /\ item'[i].version = 1
    /\ item'[i].by = key[u] /\ item'[i].status = "todo"
    /\ OpenDependencies(i)' = OpenDependencies(i)

Changes(u, i) ==
    /\ asked[u].op \in OnItems /\ asked[u].on.row = i
    /\ asked[u].on.seen.version = item[i].version
    /\ item'[i].version = item[i].version + 1 /\ item'[i].by = item[i].by
    /\ item'[i].status = "done" => OpenDependencies(i)' = {}

ItemsStep(u) ==
    /\ \A i \in Items : SameItem(i) \/ Adds(u, i) \/ Changes(u, i)
    /\ \A i, j \in Items : Adds(u, i) /\ Adds(u, j) => i = j

MattersStep == \A m \in Matters : matter'[m] = matter[m] \/ matter'[m].version > matter[m].version

DependenciesStep(u) ==
    \A d \in Dependencies :
        /\ dependency[d].version > 0 =>
               dependency'[d].version > 0 /\ dependency'[d].item = dependency[d].item
        /\ dependency'[d].version > 0 /\ ~(dependency[d].version > 0) =>
               asked[u].op \in OnItems /\ dependency'[d].item = asked[u].on.row

ProposalsStep(u) ==
    \A p \in Proposals :
        \/ /\ proposal[p].version > 0 => proposal'[p].version > 0
           /\ proposal'[p].version > 0 => proposal[p].version > 0
           /\ proposal'[p].matter = proposal[p].matter /\ proposal'[p].base = proposal[p].base
           /\ proposal'[p].current = proposal[p].current
        \/ /\ asked[u].op = "propose" /\ proposal[p].version = 0 /\ matter' = matter
           /\ proposal'[p].matter = asked[u].matter /\ proposal'[p].base = tx[u].base
           /\ proposal'[p].current = tx[u].current

Commit(u) ==
    /\ Kept
    /\ Commits(u)
    /\ ItemsStep(u)
    /\ MattersStep
    /\ DependenciesStep(u)
    /\ ProposalsStep(u)

\* A step that commits nothing of what the properties are about.
Quiet == Kept /\ UNCHANGED <<matter, item, dependency, proposal>>

-----------------------------------------------------------------------------
LEMMA FreshRow ==
    ASSUME NEW rows, HasFresh(rows)
    PROVE  Fresh(rows) \in DOMAIN rows /\ ~(rows[Fresh(rows)].version > 0)
<1>1. \E r : r \in DOMAIN rows \ There(rows)
  BY DEF HasFresh, There
<1>2. Fresh(rows) \in DOMAIN rows \ There(rows)
  BY <1>1 DEF Fresh
<1> QED
  BY <1>2 DEF There

LEMMA SettleKeeps ==
    ASSUME WorkInv, NEW u \in Users, Settle(u), ~tx'[u].open, UNCHANGED commands,
           \A v \in Users \ {u} : tx'[v] = tx[v]
    PROVE  Kept /\ asked'[u] = Idle
<1>1. DOMAIN asked = Users /\ key \in [Users -> Keys]
  BY DEF WorkInv, WorkTypeOK
<1>2. asked'[u] = Idle /\ \A v \in Users \ {u} : asked'[v] = asked[v] /\ key'[v] = key[v]
  BY <1>1 DEF Settle
<1>3. \A v \in Users \ {u} : v \in recorded' <=> v \in recorded
  BY DEF Settle
<1> QED
  BY <1>2, <1>3 DEF Kept

LEMMA AnswerKeeps ==
    ASSUME WorkInv, NEW u \in Users, tx[u].open, Answer(u)
    PROVE  Kept /\ Commits(u)
<1>1. tx \in [Users -> Open \cup {NotOpen}]
  BY DEF WorkInv, WorkTypeOK
<1>2. ~tx'[u].open /\ \A v \in Users \ {u} : tx'[v] = tx[v]
  BY <1>1 DEF Answer, NotOpen
<1>3. commands' = commands
  BY DEF Answer
<1>4. CASE Settle(u)
  BY <1>2, <1>3, <1>4, SettleKeeps DEF Commits
<1>5. CASE UNCHANGED <<asked, key>> /\ recorded' = recorded \cup {u}
  BY <1>2, <1>3, <1>5 DEF Kept, Commits
<1> QED
  BY <1>4, <1>5 DEF Answer

LEMMA QuietSteps ==
    ASSUME WorkInv, NEW u \in Users,
           Replay(u) \/ RollBack(u) \/ GiveUp(u) \/ Refuse(u)
    PROVE  Quiet
<1>1. tx \in [Users -> Open \cup {NotOpen}] /\ OpenIsAsked
  BY DEF WorkInv, WorkTypeOK
<1>2. CASE Replay(u)
  <2>1. ~tx[u].open /\ UNCHANGED <<tx, commands, matter, item, dependency, proposal>> /\ Settle(u)
    BY <1>1, <1>2 DEF Replay, OpenIsAsked, rowVars
  <2> QED
    BY <2>1, SettleKeeps DEF Quiet
<1>3. CASE RollBack(u)
  <2>1. ~tx'[u].open /\ \A v \in Users \ {u} : tx'[v] = tx[v]
    BY <1>1, <1>3 DEF RollBack, NotOpen
  <2>2. UNCHANGED <<asked, key, recorded, commands, matter, item, dependency, proposal>>
    BY <1>3 DEF RollBack, rowVars
  <2> QED
    BY <2>1, <2>2 DEF Quiet, Kept
<1>4. CASE GiveUp(u)
  <2>1. ~tx[u].open /\ UNCHANGED <<tx, commands, matter, item, dependency, proposal>> /\ Settle(u)
    BY <1>4 DEF GiveUp, rowVars
  <2> QED
    BY <2>1, SettleKeeps DEF Quiet
<1>5. CASE Refuse(u)
  <2>1. ~tx'[u].open /\ \A v \in Users \ {u} : tx'[v] = tx[v]
    BY <1>1, <1>5 DEF Refuse, NotOpen
  <2>2. Settle(u) /\ UNCHANGED <<commands, matter, item, dependency, proposal>>
    BY <1>5 DEF Refuse, rowVars
  <2> QED
    BY <2>1, <2>2, SettleKeeps DEF Quiet
<1> QED
  BY <1>2, <1>3, <1>4, <1>5

\* Without a change of the dependencies the items depend on the same ones.
LEMMA SameDependencies ==
    ASSUME UNCHANGED dependency, NEW i
    PROVE  OpenDependencies(i)' = OpenDependencies(i)
BY DEF OpenDependencies, There

\* One new row of work_items, made by the transaction of u.
LEMMA AddsOneItem ==
    ASSUME WorkInv, NEW u \in Users, NEW m \in Matters, NEW n \in Nat, HasFresh(item),
           item' = [item EXCEPT ![Fresh(item)] = NewItem(m, n, u)], UNCHANGED dependency,
           asked[u].op \notin OnItems
    PROVE  ItemsStep(u)
<1> DEFINE new == NewItem(m, n, u)
<1>1. item \in [Items -> WorkItem] /\ \A i \in Items : item[i].version \in Nat
  BY DEF WorkInv, WorkTypeOK, ItemRows, WorkItem, Versions
<1>2. PICK f \in Items : f = Fresh(item) /\ ~(item[f].version > 0)
  BY <1>1, FreshRow
<1>3. item[f].version = 0
  BY <1>1, <1>2
<1>4. new.version = 1 /\ new.by = key[u] /\ new.status = "todo"
  BY DEF NewItem
<1> HIDE DEF new
<1>5. item' = [item EXCEPT ![f] = new]
  BY <1>2 DEF new
<1>6. Adds(u, f) /\ \A i \in Items \ {f} : SameItem(i)
  BY <1>1, <1>3, <1>4, <1>5, SameDependencies DEF Adds, SameItem
<1>7. \A i \in Items : Adds(u, i) => i = f
  BY <1>1, <1>5 DEF Adds
<1> QED
  BY <1>6, <1>7 DEF ItemsStep

\* One row of work_items gets a new version.
LEMMA NewVersion ==
    ASSUME WorkInv, NEW i \in Items
    PROVE  /\ Bump(item[i]).version = item[i].version + 1
           /\ Bump(item[i]).by = item[i].by /\ Bump(item[i]).status = item[i].status
<1>1. item[i] \in WorkItem
  BY DEF WorkInv, WorkTypeOK, ItemRows
<1> QED
  BY <1>1 DEF Bump, WorkItem

LEMMA ChangesOneItem ==
    ASSUME WorkInv, NEW u \in Users, NEW i \in Items, NEW new,
           asked[u].op \in OnItems, asked[u].on.row = i, ItemIsCurrent(asked[u]),
           item' = [item EXCEPT ![i] = new],
           new.version = item[i].version + 1, new.by = item[i].by,
           \A j \in Items \ {i} : OpenDependencies(j)' = OpenDependencies(j),
           new.status = "done" => OpenDependencies(i)' = {}
    PROVE  ItemsStep(u)
<1>1. item \in [Items -> WorkItem] /\ \A j \in Items : item[j].version \in Nat
  BY DEF WorkInv, WorkTypeOK, ItemRows, WorkItem, Versions
<1>2. item[i].version > 0
  BY DEF WorkInv, RowsAreThere, Names
<1>3. item'[i] = new /\ \A j \in Items \ {i} : item'[j] = item[j]
  BY <1>1
<1>4. asked[u].on.seen.version = item[i].version
  BY DEF ItemIsCurrent
<1>5. Changes(u, i) /\ \A j \in Items \ {i} : SameItem(j)
  BY <1>3, <1>4 DEF Changes, SameItem
<1>6. \A j \in Items : ~Adds(u, j)
  BY <1>1, <1>2, <1>3 DEF Adds
<1> QED
  BY <1>5, <1>6 DEF ItemsStep

LEMMA RowsUnchanged ==
    /\ UNCHANGED matter => MattersStep
    /\ \A u : UNCHANGED dependency => DependenciesStep(u)
    /\ \A u : UNCHANGED proposal => ProposalsStep(u)
    /\ \A u : UNCHANGED <<item, dependency>> => \A i \in Items : SameItem(i)
BY SameDependencies DEF MattersStep, DependenciesStep, ProposalsStep, SameItem

LEMMA NothingAdded ==
    ASSUME WorkInv, NEW u, UNCHANGED <<item, dependency>>
    PROVE  ItemsStep(u)
<1>1. \A i \in Items : SameItem(i)
  BY RowsUnchanged
<1>2. \A i \in Items : ~Adds(u, i)
  BY <1>1 DEF Adds, SameItem
<1> QED
  BY <1>1, <1>2 DEF ItemsStep

LEMMA CandidateSteps ==
    ASSUME WorkInv, NEW u \in Users,
           CreateCandidate(u) \/ ConfirmCreateMatter(u) \/ Resolve(u) \/ Propose(u)
    PROVE  Commit(u)
<1>0. tx[u].open /\ Answer(u)
  BY DEF CreateCandidate, ConfirmCreateMatter, Resolve, Propose, InTx
<1>1. Kept /\ Commits(u)
  BY <1>0, AnswerKeeps
<1>2. CASE CreateCandidate(u) \/ Resolve(u)
  <2>1. UNCHANGED <<matter, item, dependency, proposal>>
    BY <1>2 DEF CreateCandidate, Resolve
  <2> QED
    BY <1>1, <2>1, RowsUnchanged, NothingAdded DEF Commit
<1>3. CASE ConfirmCreateMatter(u)
  <2>1. matter \in [Matters -> Matter] /\ \A m \in Matters : matter[m].version \in Nat
    BY DEF WorkInv, WorkTypeOK, MatterRows, Matter, Versions
  <2>2. HasFresh(matter) /\ HasFresh(item) /\ UNCHANGED <<dependency, proposal>>
    BY <1>3 DEF ConfirmCreateMatter
  <2>3. PICK m \in Matters : m = Fresh(matter) /\ ~(matter[m].version > 0)
    BY <2>1, <2>2, FreshRow
  <2>4. /\ matter' = [matter EXCEPT ![m] = [version |-> 1, content |-> 0]]
        /\ item' = [item EXCEPT ![Fresh(item)] = NewItem(m, 0, u)]
    BY <1>3, <2>3 DEF ConfirmCreateMatter
  <2>5. MattersStep
    BY <2>1, <2>3, <2>4 DEF MattersStep
  <2>6. ItemsStep(u)
    BY <1>3, <2>2, <2>4, AddsOneItem DEF ConfirmCreateMatter, InTx, OnItems
  <2> QED
    BY <1>1, <2>2, <2>5, <2>6, RowsUnchanged DEF Commit
<1>4. CASE Propose(u)
  <2>1. proposal \in [Proposals -> Proposal] /\ \A p \in Proposals : proposal[p].version \in Nat
    BY DEF WorkInv, WorkTypeOK, ProposalRows, Proposal, Versions
  <2>2. HasFresh(proposal) /\ UNCHANGED <<matter, item, dependency>> /\ asked[u].op = "propose"
    BY <1>4 DEF Propose, InTx
  <2>3. PICK p \in Proposals : p = Fresh(proposal) /\ ~(proposal[p].version > 0)
    BY <2>1, <2>2, FreshRow
  <2> DEFINE new == [version |-> 1, candidate |-> asked[u].row, matter |-> asked[u].matter,
                     base |-> tx[u].base, current |-> tx[u].current,
                     fields |-> asked[u].fields, status |-> "pending"]
  <2>4. new.matter = asked[u].matter /\ new.base = tx[u].base /\ new.current = tx[u].current
    OBVIOUS
  <2>5. proposal' = [proposal EXCEPT ![p] = new]
    BY <1>4, <2>3 DEF Propose
  <2> HIDE DEF new
  <2>6. ProposalsStep(u)
    BY <2>1, <2>2, <2>3, <2>4, <2>5 DEF ProposalsStep
  <2> QED
    BY <1>1, <2>2, <2>6, RowsUnchanged, NothingAdded DEF Commit
<1> QED
  BY <1>2, <1>3, <1>4

LEMMA MatterSteps ==
    ASSUME WorkInv, NEW u \in Users, Review(u) \/ AddWorkItem(u) \/ CreateDeadline(u)
    PROVE  Commit(u)
<1>0. tx[u].open /\ Answer(u)
  BY DEF Review, AddWorkItem, CreateDeadline, InTx
<1>1. Kept /\ Commits(u)
  BY <1>0, AnswerKeeps
<1>2. tx[u].order \in Nat
  <2>1. tx[u] \in Open
    BY <1>0 DEF WorkInv, WorkTypeOK, NotOpen
  <2> QED
    BY <2>1 DEF Open
<1>3. CASE CreateDeadline(u)
  <2>1. UNCHANGED <<matter, item, dependency, proposal>>
    BY <1>3 DEF CreateDeadline
  <2> QED
    BY <1>1, <2>1, RowsUnchanged, NothingAdded DEF Commit
<1>4. CASE AddWorkItem(u)
  <2>1. UNCHANGED <<matter, dependency, proposal>> /\ HasFresh(item)
    BY <1>4 DEF AddWorkItem
  <2>2. asked[u].matter \in Matters
    BY <1>4 DEF WorkInv, RowsAreThere, Names, AddWorkItem, InTx
  <2>3. ItemsStep(u)
    BY <1>2, <1>4, <2>1, <2>2, AddsOneItem DEF AddWorkItem, InTx, OnItems
  <2> QED
    BY <1>1, <2>1, <2>3, RowsUnchanged DEF Commit
<1>5. CASE Review(u)
  <2>1. PICK p \in Proposals : p = asked[u].row /\ proposal[p].version > 0
    BY <1>5 DEF Review, InTx, WorkInv, RowsAreThere, Names
  <2>2. PICK m \in Matters : m = asked[u].matter
    BY <1>5, <2>1 DEF Review, InTx, WorkInv, RowsAreThere, Names, WorkTypeOK, ProposalRows, Proposal
  <2>3. UNCHANGED dependency
    BY <1>5 DEF Review
  <2>4. MattersStep
    <3>1. matter \in [Matters -> Matter] /\ \A k \in Matters : matter[k].version \in Nat
      BY DEF WorkInv, WorkTypeOK, MatterRows, Matter, Versions
    <3> DEFINE new == [Bump(matter[m]) EXCEPT !.content = key[u]]
    <3>2. new.version = matter[m].version + 1
      BY <3>1 DEF Bump, Matter
    <3>3. matter' = [matter EXCEPT ![m] = new] \/ matter' = matter
      BY <1>5, <2>2 DEF Review
    <3> HIDE DEF new
    <3> QED
      BY <3>1, <3>2, <3>3 DEF MattersStep
  <2>5. ProposalsStep(u)
    <3>1. proposal \in [Proposals -> Proposal] /\ proposal[p].version \in Nat
      BY DEF WorkInv, WorkTypeOK, ProposalRows, Proposal, Versions
    <3> DEFINE new == [Bump(proposal[p]) EXCEPT !.status = ReviewedStatus(asked[u])]
    <3>2. /\ new.version = proposal[p].version + 1 /\ new.matter = proposal[p].matter
          /\ new.base = proposal[p].base /\ new.current = proposal[p].current
      <4>1. proposal[p] \in Proposal
        BY <3>1
      <4> QED
        BY <4>1 DEF Bump, Proposal
    <3>3. proposal' = [proposal EXCEPT ![p] = new]
      BY <1>5, <2>1 DEF Review
    <3> HIDE DEF new
    <3> QED
      BY <2>1, <3>1, <3>2, <3>3 DEF ProposalsStep
  <2>6. ItemsStep(u)
    <3>1. CASE "newWorkItems" \in asked[u].approved
      <4>1. asked[u].op \notin OnItems /\ HasFresh(item)
        BY <1>5, <3>1 DEF Review, InTx, OnItems
      <4>2. item' = [item EXCEPT ![Fresh(item)] = NewItem(m, tx[u].order, u)]
        BY <1>5, <2>2, <3>1 DEF Review
      <4> QED
        BY <1>2, <2>3, <4>1, <4>2, AddsOneItem
    <3>2. CASE "newWorkItems" \notin asked[u].approved
      BY <1>5, <2>3, <3>2, NothingAdded DEF Review
    <3> QED
      BY <3>1, <3>2
  <2> QED
    BY <1>1, <2>3, <2>4, <2>5, <2>6, RowsUnchanged DEF Commit
<1> QED
  BY <1>3, <1>4, <1>5

\* No action but complete ends in done.
LEMMA OnlyCompleteIsDone ==
    ASSUME NEW a \in ItemActions, NEW row, NEW waits,
           MayAct(a, row, waits), To(a, row.status) = "done"
    PROVE  waits = {}
BY DEF ItemActions, MayAct, To, From

LEMMA ActStep ==
    ASSUME WorkInv, NEW u \in Users, ApplyAction(u)
    PROVE  Commit(u)
<1>1. /\ tx[u].open /\ asked[u].op = "act" /\ Answer(u)
      /\ UNCHANGED <<matter, dependency, proposal>>
  BY DEF ApplyAction, InTx
<1>2. Kept /\ Commits(u)
  BY <1>1, AnswerKeeps
<1>3. PICK i \in Items : i = asked[u].on.row
  BY <1>1 DEF WorkInv, RowsAreThere, Names, OnItems
<1>4. PICK a \in ItemActions : a = asked[u].action
  BY <1>1 DEF WorkInv, RowsAreThere, Names
<1>5. tx[u].waits = OpenDependencies(i)
  BY <1>1, <1>3 DEF WorkInv, WaitsAreCurrent
<1>6. /\ ItemIsCurrent(asked[u]) /\ MayAct(a, item[i], tx[u].waits)
      /\ item' = [item EXCEPT ![i] = Acted(item[i], a)]
  BY <1>3, <1>4 DEF ApplyAction
<1> DEFINE new == Acted(item[i], a)
<1>7. new.version = item[i].version + 1 /\ new.by = item[i].by /\ new.status = To(a, item[i].status)
  <2>1. item[i] \in WorkItem
    BY DEF WorkInv, WorkTypeOK, ItemRows
  <2> QED
    BY <2>1 DEF Acted, Bump, WorkItem
<1>8. item' = [item EXCEPT ![i] = new]
  BY <1>6
<1> HIDE DEF new
<1>9. new.status = "done" => OpenDependencies(i)' = {}
  BY <1>1, <1>5, <1>6, <1>7, OnlyCompleteIsDone, SameDependencies
<1>10. ItemsStep(u)
  <2>1. asked[u].op \in OnItems /\ asked[u].on.row = i /\ ItemIsCurrent(asked[u])
    BY <1>1, <1>3, <1>6 DEF OnItems
  <2>2. \A j \in Items \ {i} : OpenDependencies(j)' = OpenDependencies(j)
    BY <1>1, SameDependencies
  <2> QED
    BY <1>7, <1>8, <1>9, <2>1, <2>2, ChangesOneItem
<1> QED
  BY <1>1, <1>2, <1>10, RowsUnchanged DEF Commit

LEMMA PriorityStep ==
    ASSUME WorkInv, NEW u \in Users, ConfirmPriority(u)
    PROVE  Commit(u)
<1>1. /\ tx[u].open /\ asked[u].op = "prioritize" /\ Answer(u)
      /\ UNCHANGED <<matter, dependency, proposal>>
  BY DEF ConfirmPriority, InTx
<1>2. Kept /\ Commits(u)
  BY <1>1, AnswerKeeps
<1>3. PICK i \in Items : i = asked[u].on.row
  BY <1>1 DEF WorkInv, RowsAreThere, Names, OnItems
<1>4. /\ ItemIsCurrent(asked[u]) /\ item[i].status # "done"
      /\ item' = [item EXCEPT ![i] = Bump(item[i])]
  BY <1>3 DEF ConfirmPriority, MayPrioritize, IsTerminal
<1>5. ItemsStep(u)
  <2>1. asked[u].op \in OnItems /\ asked[u].on.row = i /\ ItemIsCurrent(asked[u])
    BY <1>1, <1>3, <1>4 DEF OnItems
  <2>2. \A j \in Items \ {i} : OpenDependencies(j)' = OpenDependencies(j)
    BY <1>1, SameDependencies
  <2> DEFINE new == Bump(item[i])
  <2>3. new.version = item[i].version + 1 /\ new.by = item[i].by /\ new.status # "done"
    BY <1>4, NewVersion
  <2>4. item' = [item EXCEPT ![i] = new]
    BY <1>4
  <2> HIDE DEF new
  <2> QED
    BY <2>1, <2>2, <2>3, <2>4, ChangesOneItem
<1> QED
  BY <1>1, <1>2, <1>5, RowsUnchanged DEF Commit

LEMMA DependSteps ==
    ASSUME WorkInv, NEW u \in Users, CreateDependency(u) \/ ResolveDependency(u)
    PROVE  Commit(u)
<1>1. /\ tx[u].open /\ asked[u].op \in {"depend", "undepend"} /\ Answer(u)
      /\ UNCHANGED <<matter, proposal>>
  BY DEF CreateDependency, ResolveDependency, InTx
<1>2. Kept /\ Commits(u)
  BY <1>1, AnswerKeeps
<1>3. PICK i \in Items : i = asked[u].on.row
  BY <1>1 DEF WorkInv, RowsAreThere, Names, OnItems
<1>4. /\ ItemIsCurrent(asked[u]) /\ item[i].status # "done"
      /\ item' = [item EXCEPT ![i] = Bump(item[i])]
  BY <1>3 DEF CreateDependency, ResolveDependency, MayResolveDependency, MayTouch, Touched, IsTerminal
<1>5. /\ dependency \in [Dependencies -> Dependency]
      /\ \A d \in Dependencies : dependency[d].version \in Nat
  BY DEF WorkInv, WorkTypeOK, DependencyRows, Dependency, Versions
<1>6. \E d \in Dependencies : \E new :
          /\ dependency' = [dependency EXCEPT ![d] = new]
          /\ new.version > 0 /\ new.item = i
          /\ dependency[d].version > 0 => dependency[d].item = i
  <2>1. CASE CreateDependency(u)
    <3>1. HasFresh(dependency)
      BY <2>1 DEF CreateDependency
    <3>2. PICK d \in Dependencies : d = Fresh(dependency) /\ ~(dependency[d].version > 0)
      BY <1>5, <3>1, FreshRow
    <3> DEFINE new == [version |-> 1, item |-> i, on |-> asked[u].other, status |-> "active"]
    <3>3. dependency' = [dependency EXCEPT ![d] = new]
      BY <1>3, <2>1, <3>2 DEF CreateDependency
    <3>4. new.version > 0 /\ new.item = i
      OBVIOUS
    <3> HIDE DEF new
    <3> QED
      BY <3>2, <3>3, <3>4
  <2>2. CASE ResolveDependency(u)
    <3>1. PICK d \in Dependencies : d = asked[u].row /\ dependency[d].item = i
      BY <1>3, <2>2 DEF ResolveDependency, InTx, WorkInv, RowsAreThere, Names
    <3> DEFINE new == [Bump(dependency[d]) EXCEPT !.status = "satisfied"]
    <3>2. dependency' = [dependency EXCEPT ![d] = new]
      BY <2>2, <3>1 DEF ResolveDependency
    <3>3. new.version = dependency[d].version + 1 /\ new.item = i
      <4>1. dependency[d] \in Dependency
        BY <1>5
      <4> QED
        BY <3>1, <4>1 DEF Bump, Dependency
    <3> HIDE DEF new
    <3>4. new.version > 0
      BY <1>5, <3>3
    <3> QED
      BY <3>1, <3>2, <3>3, <3>4
  <2> QED
    BY <2>1, <2>2
<1>7. PICK d \in Dependencies : \E new :
           /\ dependency' = [dependency EXCEPT ![d] = new]
           /\ new.version > 0 /\ new.item = i
           /\ dependency[d].version > 0 => dependency[d].item = i
  BY <1>6
<1>8. PICK new :
          /\ dependency' = [dependency EXCEPT ![d] = new]
          /\ new.version > 0 /\ new.item = i
          /\ dependency[d].version > 0 => dependency[d].item = i
  BY <1>7
<1>9. DependenciesStep(u)
  BY <1>1, <1>3, <1>5, <1>8 DEF DependenciesStep, OnItems
<1>10. ASSUME NEW j \in Items \ {i}
      PROVE  OpenDependencies(j)' = OpenDependencies(j)
  <2>1. /\ OpenDependencies(j) = {e \in Dependencies :
               dependency[e].version > 0 /\ dependency[e].item = j /\ dependency[e].status = "active"}
        /\ OpenDependencies(j)' = {e \in Dependencies :
               dependency'[e].version > 0 /\ dependency'[e].item = j /\ dependency'[e].status = "active"}
    BY <1>5, <1>8 DEF OpenDependencies, There
  <2>2. \A e \in Dependencies \ {d} : dependency'[e] = dependency[e]
    BY <1>5, <1>8
  <2>3. dependency'[d].item = i
    BY <1>5, <1>8
  <2> QED
    BY <1>8, <2>1, <2>2, <2>3
<1>11. ItemsStep(u)
  <2>1. asked[u].op \in OnItems /\ asked[u].on.row = i /\ ItemIsCurrent(asked[u])
    BY <1>1, <1>3, <1>4 DEF OnItems
  <2> DEFINE row == Bump(item[i])
  <2>2. row.version = item[i].version + 1 /\ row.by = item[i].by /\ row.status # "done"
    BY <1>4, NewVersion
  <2>3. item' = [item EXCEPT ![i] = row]
    BY <1>4
  <2> HIDE DEF row
  <2> QED
    BY <1>10, <2>1, <2>2, <2>3, ChangesOneItem
<1> QED
  BY <1>1, <1>2, <1>9, <1>11, RowsUnchanged DEF Commit

LEMMA Steps ==
    ASSUME WorkInv, [WorkNext]_workVars
    PROVE  Quiet \/ \E u \in Users : Ask(u) \/ Begin(u) \/ Commit(u)
<1>1. CASE UNCHANGED workVars
  BY <1>1 DEF workVars, rowVars, userVars, Quiet, Kept
<1>2. ASSUME NEW c \in Candidates, ReplaceAnalysis(c)
      PROVE  Quiet
  BY <1>2 DEF ReplaceAnalysis, userVars, Quiet, Kept
<1> QED
  BY <1>1, <1>2, QuietSteps, CandidateSteps, MatterSteps, ActStep, PriorityStep, DependSteps DEF WorkNext

-----------------------------------------------------------------------------
\* Rows are never deleted, and what refers to another row keeps to it.
RowsStay ==
    /\ \A i \in Items : item[i].version > 0 => item'[i].version > 0
    /\ \A m \in Matters : matter[m].version > 0 => matter'[m].version > 0
    /\ \A d \in Dependencies : dependency[d].version > 0 =>
           dependency'[d].version > 0 /\ dependency'[d].item = dependency[d].item
    /\ \A p \in Proposals : proposal[p].version > 0 =>
           proposal'[p].version > 0 /\ proposal'[p].matter = proposal[p].matter

LEMMA VersionsAreNat ==
    ASSUME WorkTypeOK
    PROVE  /\ \A i \in Items : item[i].version \in Nat
           /\ \A m \in Matters : matter[m].version \in Nat
           /\ \A d \in Dependencies : dependency[d].version \in Nat
           /\ \A p \in Proposals : proposal[p].version \in Nat
BY DEF WorkTypeOK, ItemRows, WorkItem, MatterRows, Matter, DependencyRows, Dependency,
       ProposalRows, Proposal, Versions

LEMMA RowsDoStay ==
    ASSUME WorkInv, WorkTypeOK', NEW u, Quiet \/ Commit(u)
    PROVE  RowsStay
<1>1. CASE Quiet
  BY <1>1 DEF Quiet, RowsStay
<1>2. CASE Commit(u)
  <2>1. /\ \A i \in Items : item[i].version \in Nat
        /\ \A m \in Matters : matter[m].version \in Nat /\ matter'[m].version \in Nat
        /\ \A p \in Proposals : proposal[p].version \in Nat
    BY VersionsAreNat, WorkTypeOK' DEF WorkInv, WorkTypeOK, MatterRows, Matter, Versions
  <2>2. ASSUME NEW i \in Items, item[i].version > 0
        PROVE  item'[i].version > 0
    BY <1>2, <2>1, <2>2 DEF Commit, ItemsStep, SameItem, Adds, Changes
  <2>3. ASSUME NEW m \in Matters, matter[m].version > 0
        PROVE  matter'[m].version > 0
    BY <1>2, <2>1, <2>3 DEF Commit, MattersStep
  <2>4. ASSUME NEW p \in Proposals, proposal[p].version > 0
        PROVE  proposal'[p].version > 0 /\ proposal'[p].matter = proposal[p].matter
    BY <1>2, <2>1, <2>4 DEF Commit, ProposalsStep
  <2> QED
    BY <1>2, <2>2, <2>3, <2>4 DEF Commit, RowsStay, DependenciesStep
<1> QED
  BY <1>1, <1>2

LEMMA NamesStay ==
    ASSUME WorkInv, RowsStay, NEW q, Names(q)
    PROVE  Names(q)'
BY DEF Names, RowsStay

\* The commands that the pages offer.
LEMMA AskedNames ==
    ASSUME WorkInv, NEW q \in Decisions \cup Reviews \cup {c \in ItemCommands : Offered(c)} \cup Additions
    PROVE  /\ Names(q) /\ q # Idle
           /\ q.op \in OnItems => q.on = OnItem(q.on.row)
<1>0. /\ candidate \in [Candidates -> Candidate] /\ matter \in [Matters -> Matter]
      /\ item \in [Items -> WorkItem] /\ dependency \in [Dependencies -> Dependency]
      /\ proposal \in [Proposals -> Proposal]
  BY DEF WorkInv, WorkTypeOK, CandidateRows, MatterRows, ItemRows, DependencyRows, ProposalRows
<1>1. CASE q \in Decisions
  <2>1. /\ There(candidate) \subseteq Candidates
        /\ \A m \in There(matter) : m \in Matters /\ matter[m].version > 0
    BY <1>0 DEF There
  <2> DEFINE Confirms(c) == {[op |-> "confirm", row |-> c, seen |-> candidate[c]] :
                                x \in {TRUE} \cap {candidate[c].legal}}
             Resolves(c) == {[op |-> "resolve", row |-> c, seen |-> candidate[c], matter |-> m] :
                                m \in There(matter) \cup {External}}
             Proposes(c) == {[op |-> "propose", row |-> c, seen |-> candidate[c], matter |-> m,
                              fields |-> f] :
                                m \in There(matter), f \in (SUBSET {"scalar", "newWorkItems"}) \ {{}}}
  <2>2. PICK c \in There(candidate) : q \in Confirms(c) \/ q \in Resolves(c) \/ q \in Proposes(c)
    <3>1. q \in UNION {Confirms(c) \cup Resolves(c) \cup Proposes(c) :
                           c \in {d \in There(candidate) : IsPending(candidate[d])}}
      BY <1>1 DEF Decisions
    <3> HIDE DEF Confirms, Resolves, Proposes
    <3> QED
      BY <3>1
  <2>3. \/ q.op = "confirm" /\ q.row = c
        \/ q.op = "resolve" /\ q.row = c /\ q.matter \in There(matter) \cup {External}
        \/ /\ q.op = "propose" /\ q.row = c /\ q.matter \in There(matter)
           /\ q.fields \in SUBSET {"scalar", "newWorkItems"}
    BY <2>2
  <2> QED
    BY <2>1, <2>2, <2>3 DEF Names, OnItems, Idle
<1>2. CASE q \in Reviews
  <2>1. \A p \in There(proposal) : p \in Proposals /\ proposal[p].version > 0
    BY <1>0 DEF There
  <2>2. PICK p \in There(proposal) : q.op = "review" /\ q.row = p /\ q.matter = proposal[p].matter
    BY <1>2 DEF Reviews
  <2> QED
    BY <2>1, <2>2 DEF Names, OnItems, Idle
<1>3. CASE q \in ItemCommands
  <2>1. /\ \A i \in There(item) : i \in Items /\ item[i].version > 0
        /\ \A d \in There(dependency) :
               /\ d \in Dependencies /\ dependency[d].version > 0
               /\ dependency[d].item \in There(item)
    BY <1>0 DEF There, Dependency, WorkInv, DependenciesHaveItems
  <2>2. \A i : OnItem(i).row = i
    BY DEF OnItem
  <2>3. CASE q \in {[op |-> "act", on |-> OnItem(i), action |-> a] : i \in There(item), a \in ItemActions}
    BY <2>1, <2>2, <2>3 DEF Names, OnItems, Idle
  <2>4. CASE q \in {[op |-> "prioritize", on |-> OnItem(i)] : i \in There(item)}
    BY <2>1, <2>2, <2>4 DEF Names, OnItems, Idle
  <2>5. CASE q \in {[op |-> "depend", on |-> OnItem(i), other |-> o] :
                       i \in There(item), o \in There(item) \cup {External}}
    BY <2>1, <2>2, <2>5 DEF Names, OnItems, Idle
  <2>6. CASE q \in {[op |-> "undepend", on |-> OnItem(dependency[d].item), row |-> d, seen |-> dependency[d]] :
                       d \in {d \in There(dependency) : dependency[d].status = "active"}}
    BY <2>1, <2>2, <2>6 DEF Names, OnItems, Idle
  <2> QED
    BY <1>3, <2>3, <2>4, <2>5, <2>6 DEF ItemCommands
<1>4. CASE q \in Additions
  <2>1. There(matter) \subseteq Matters /\ There(item) \subseteq Items
    BY <1>0 DEF There
  <2> QED
    BY <1>4, <2>1 DEF Additions, Names, OnItems, Idle
<1> QED
  BY <1>1, <1>2, <1>3, <1>4

-----------------------------------------------------------------------------
\* A user who asks has no transaction, and the others keep their commands.
LEMMA AskIs ==
    ASSUME WorkInv, NEW u \in Users, Ask(u)
    PROVE  /\ asked[u] = Idle /\ ~tx[u].open
           /\ asked'[u] # Idle /\ Names(asked'[u])
           /\ asked'[u].op \in OnItems => asked'[u].on = OnItem(asked'[u].on.row)
           /\ key'[u] = commands + 1
           /\ \A v \in Users \ {u} : asked'[v] = asked[v] /\ key'[v] = key[v]
           /\ commands < MaxCommands /\ commands' = commands + 1
           /\ UNCHANGED <<rowVars, tx, recorded, replaced, lost>>
<1>1. PICK q \in Decisions \cup Reviews \cup {c \in ItemCommands : Offered(c)} \cup Additions :
          asked' = [asked EXCEPT ![u] = q]
  BY DEF Ask
<1>2. DOMAIN asked = Users /\ key \in [Users -> Keys] /\ OpenIsAsked
  BY DEF WorkInv, WorkTypeOK
<1>3. asked'[u] = q /\ \A v \in Users \ {u} : asked'[v] = asked[v]
  BY <1>1, <1>2
<1>4. Names(q) /\ q # Idle /\ (q.op \in OnItems => q.on = OnItem(q.on.row))
  BY AskedNames
<1>5. asked[u] = Idle /\ ~tx[u].open
  BY <1>2 DEF Ask, OpenIsAsked
<1>6. key'[u] = commands + 1 /\ \A v \in Users \ {u} : key'[v] = key[v]
  BY <1>2 DEF Ask
<1> QED
  BY <1>3, <1>4, <1>5, <1>6 DEF Ask

LEMMA BeginIs ==
    ASSUME WorkInv, NEW u \in Users, Begin(u)
    PROVE  /\ asked[u] # Idle /\ u \notin recorded
           /\ tx'[u] = Read(asked[u])
           /\ \A v \in Users \ {u} : tx'[v] = tx[v]
           /\ \A r \in Locked(asked[u]) : IsFree(r)
           /\ UNCHANGED <<rowVars, asked, key, recorded, commands, replaced, lost>>
BY DEF Begin, WorkInv, WorkTypeOK

LEMMA NamesStep ==
    ASSUME WorkInv, WorkTypeOK', [WorkNext]_workVars
    PROVE  RowsAreThere'
<1>1. RowsAreThere
  BY DEF WorkInv
<1>2. ASSUME NEW u \in Users, Ask(u)
      PROVE  RowsAreThere'
  <2>1. UNCHANGED <<matter, item, dependency, proposal>>
    BY <1>2, AskIs DEF rowVars
  <2>2. \A v \in Users : Names(asked'[v])
    BY <1>1, <1>2, AskIs DEF RowsAreThere
  <2> QED
    BY <2>1, <2>2 DEF RowsAreThere, Names
<1>3. ASSUME NEW u \in Users, Begin(u)
      PROVE  RowsAreThere'
  BY <1>1, <1>3, BeginIs DEF RowsAreThere, Names, rowVars
<1>4. ASSUME NEW u, Quiet \/ Commit(u)
      PROVE  RowsAreThere'
  <2>1. RowsStay /\ Kept
    BY <1>4, RowsDoStay DEF Quiet, Commit
  <2>2. ASSUME NEW v \in Users, NEW q, q = asked'[v]
        PROVE  Names(q)'
    <3>1. CASE q = Idle
      BY <3>1 DEF Names, Idle, OnItems
    <3>2. CASE q # Idle
      <4>1. q = asked[v]
        BY <2>1, <2>2, <3>2 DEF Kept
      <4> QED
        BY <1>1, <2>1, <4>1, NamesStay DEF RowsAreThere
    <3> QED
      BY <3>1, <3>2
  <2> QED
    BY <2>2 DEF RowsAreThere, Names
<1> QED
  BY <1>2, <1>3, <1>4, Steps

LEMMA DependenciesStepKeeps ==
    ASSUME WorkInv, WorkTypeOK', [WorkNext]_workVars
    PROVE  DependenciesHaveItems'
<1>1. DependenciesHaveItems
  BY DEF WorkInv
<1>2. ASSUME NEW u \in Users, Ask(u) \/ Begin(u)
      PROVE  DependenciesHaveItems'
  BY <1>1, <1>2, AskIs, BeginIs DEF DependenciesHaveItems, rowVars
<1>3. CASE Quiet
  BY <1>1, <1>3 DEF DependenciesHaveItems, Quiet
<1>4. ASSUME NEW u \in Users, Commit(u)
      PROVE  DependenciesHaveItems'
  <2>1. RowsStay /\ DependenciesStep(u)
    BY <1>4, RowsDoStay DEF Commit
  <2>2. \A d \in Dependencies : dependency[d].item \in Items
    BY DEF WorkInv, WorkTypeOK, DependencyRows, Dependency
  <2>3. asked[u].op \in OnItems => asked[u].on.row \in Items /\ item[asked[u].on.row].version > 0
    BY DEF WorkInv, RowsAreThere, Names
  <2> QED
    BY <1>1, <2>1, <2>2, <2>3 DEF DependenciesHaveItems, RowsStay, DependenciesStep
<1> QED
  BY <1>2, <1>3, <1>4, Steps

LEMMA OpenStep ==
    ASSUME WorkInv, [WorkNext]_workVars
    PROVE  OpenIsAsked'
<1>1. OpenIsAsked
  BY DEF WorkInv
<1>2. ASSUME NEW u \in Users, Ask(u)
      PROVE  OpenIsAsked'
  BY <1>1, <1>2, AskIs DEF OpenIsAsked
<1>3. ASSUME NEW u \in Users, Begin(u)
      PROVE  OpenIsAsked'
  BY <1>1, <1>3, BeginIs DEF OpenIsAsked
<1>4. ASSUME Kept
      PROVE  OpenIsAsked'
  BY <1>1, <1>4 DEF OpenIsAsked, Kept
<1> QED
  BY <1>2, <1>3, <1>4, Steps DEF Quiet, Commit

LEMMA LocksStep ==
    ASSUME WorkInv, [WorkNext]_workVars
    PROVE  LocksExclude'
<1>1. LocksExclude
  BY DEF WorkInv
<1>2. ASSUME NEW u \in Users, Ask(u)
      PROVE  LocksExclude'
  BY <1>1, <1>2, AskIs DEF LocksExclude
<1>3. ASSUME NEW u \in Users, Begin(u)
      PROVE  LocksExclude'
  <2>1. \A v \in Users : tx[v].open => Locked(asked[u]) \cap Locked(asked[v]) = {}
    BY <1>3, BeginIs DEF IsFree
  <2> QED
    BY <1>1, <1>3, <2>1, BeginIs DEF LocksExclude
<1>4. ASSUME Kept
      PROVE  LocksExclude'
  BY <1>1, <1>4 DEF LocksExclude, Kept
<1> QED
  BY <1>2, <1>3, <1>4, Steps DEF Quiet, Commit

LEMMA WaitsStep ==
    ASSUME WorkInv, [WorkNext]_workVars
    PROVE  WaitsAreCurrent'
<1>1. WaitsAreCurrent
  BY DEF WorkInv
<1>2. ASSUME NEW u \in Users, Ask(u)
      PROVE  WaitsAreCurrent'
  <2>1. \A i : OpenDependencies(i)' = OpenDependencies(i)
    BY <1>2, AskIs, SameDependencies DEF rowVars
  <2> QED
    BY <1>1, <1>2, <2>1, AskIs DEF WaitsAreCurrent
<1>3. ASSUME NEW u \in Users, Begin(u)
      PROVE  WaitsAreCurrent'
  <2>1. \A i : OpenDependencies(i)' = OpenDependencies(i)
    BY <1>3, BeginIs, SameDependencies DEF rowVars
  <2>2. asked[u].op = "act" => tx'[u].waits = OpenDependencies(asked[u].on.row)
    <3>1. \A q : q.op = "act" => Read(q).waits = OpenDependencies(q.on.row)
      BY DEF Read
    <3> QED
      BY <1>3, <3>1, BeginIs
  <2> QED
    BY <1>1, <1>3, <2>1, <2>2, BeginIs DEF WaitsAreCurrent
<1>4. CASE Quiet
  <2>1. \A i : OpenDependencies(i)' = OpenDependencies(i)
    BY <1>4, SameDependencies DEF Quiet
  <2> QED
    BY <1>1, <1>4, <2>1 DEF WaitsAreCurrent, Quiet, Kept
<1>5. ASSUME NEW u \in Users, Commit(u)
      PROVE  WaitsAreCurrent'
  <2> SUFFICES ASSUME NEW v \in Users, NEW i \in Items, tx'[v].open,
                      asked'[v].op = "act", asked'[v].on.row = i
               PROVE  tx'[v].waits = OpenDependencies(i)'
    BY DEF WaitsAreCurrent
  <2>1. tx[v].open /\ tx'[v] = tx[v] /\ asked'[v] = asked[v] /\ v # u
    BY <1>5 DEF Commit, Commits, Kept
  <2>2. tx[v].waits = OpenDependencies(i)
    BY <1>1, <2>1 DEF WaitsAreCurrent
  <2>3. ~Changes(u, i)
    <3>1. i \in Locked(asked[v])
      BY <2>1 DEF Locked
    <3>2. Changes(u, i) => i \in Locked(asked[u])
      BY DEF Changes, OnItems, Locked
    <3> QED
      BY <1>5, <2>1, <3>1, <3>2 DEF WorkInv, LocksExclude, Commit, Commits
  <2> QED
    BY <1>5, <2>1, <2>2, <2>3 DEF Commit, ItemsStep, SameItem, Adds
<1> QED
  BY <1>2, <1>3, <1>4, <1>5, Steps

LEMMA PagesStep ==
    ASSUME WorkInv, [WorkNext]_workVars
    PROVE  PagesAreVersioned'
<1>1. PagesAreVersioned /\ \A i \in Items : item[i].version \in Nat
  BY VersionsAreNat DEF WorkInv
<1>2. ASSUME NEW u \in Users, Ask(u)
      PROVE  PagesAreVersioned'
  <2>1. item' = item /\ \A i : OpenDependencies(i)' = OpenDependencies(i)
    BY <1>2, AskIs, SameDependencies DEF rowVars
  <2>2. ASSUME NEW i \in Items, asked'[u].op \in OnItems, asked'[u].on.row = i
        PROVE  asked'[u].on.seen = item[i] /\ asked'[u].on.open = OpenDependencies(i)
    <3>1. asked'[u].on = OnItem(i)
      BY <1>2, <2>2, AskIs
    <3> QED
      BY <3>1 DEF OnItem
  <2> SUFFICES ASSUME NEW v \in Users, NEW i \in Items, asked'[v].op \in OnItems, asked'[v].on.row = i
               PROVE  /\ asked'[v].on.seen.version \in 0..item[i].version
                      /\ asked'[v].on.seen.version = item[i].version =>
                             asked'[v].on.seen = item[i] /\ asked'[v].on.open = OpenDependencies(i)
    BY <2>1 DEF PagesAreVersioned
  <2>3. CASE v = u
    BY <1>1, <2>2, <2>3
  <2>4. CASE v # u
    BY <1>1, <1>2, <2>4, AskIs DEF PagesAreVersioned
  <2> QED
    BY <2>3, <2>4
<1>3. ASSUME NEW u \in Users, Begin(u)
      PROVE  PagesAreVersioned'
  <2>1. \A i : OpenDependencies(i)' = OpenDependencies(i)
    BY <1>3, BeginIs, SameDependencies DEF rowVars
  <2> QED
    BY <1>1, <1>3, <2>1, BeginIs DEF PagesAreVersioned, rowVars
<1>4. ASSUME NEW u, Quiet \/ Commit(u)
      PROVE  PagesAreVersioned'
  <2> SUFFICES ASSUME NEW v \in Users, NEW i \in Items, asked'[v].op \in OnItems, asked'[v].on.row = i
               PROVE  /\ asked'[v].on.seen.version \in 0..item'[i].version
                      /\ asked'[v].on.seen.version = item'[i].version =>
                             asked'[v].on.seen = item'[i] /\ asked'[v].on.open = OpenDependencies(i)'
    BY DEF PagesAreVersioned
  <2>1. asked'[v] = asked[v]
    BY <1>4 DEF Quiet, Commit, Kept, Idle, OnItems
  <2>2. /\ asked[v].on.seen.version \in 0..item[i].version
        /\ asked[v].on.seen.version = item[i].version =>
               asked[v].on.seen = item[i] /\ asked[v].on.open = OpenDependencies(i)
    BY <1>1, <2>1 DEF PagesAreVersioned
  <2>3. item[i].version > 0
    BY <2>1 DEF WorkInv, RowsAreThere, Names
  <2>4. SameItem(i) \/ item'[i].version = item[i].version + 1
    <3>1. CASE Quiet
      BY <3>1, SameDependencies DEF Quiet, SameItem
    <3>2. CASE Commit(u)
      BY <2>3, <3>2 DEF Commit, ItemsStep, Adds, Changes
    <3> QED
      BY <1>4, <3>1, <3>2
  <2> QED
    BY <1>1, <2>1, <2>2, <2>4 DEF SameItem
<1> QED
  BY <1>2, <1>3, <1>4, Steps

LEMMA KeysStep ==
    ASSUME WorkInv, [WorkNext]_workVars
    PROVE  KeysAreNew'
<1>1. /\ KeysAreNew /\ commands \in Nat
      /\ \A i \in Items : item[i].version \in Nat /\ item[i].by \in Nat
  BY WorkAssumption DEF WorkInv, WorkTypeOK, ItemRows, WorkItem, Versions
<1>2. ASSUME NEW u \in Users, Ask(u)
      PROVE  KeysAreNew'
  <2>1. item' = item /\ recorded' = recorded
    BY <1>2, AskIs DEF rowVars
  <2> QED
    BY <1>1, <1>2, <2>1, AskIs DEF KeysAreNew
<1>3. ASSUME NEW u \in Users, Begin(u)
      PROVE  KeysAreNew'
  BY <1>1, <1>3, BeginIs DEF KeysAreNew, rowVars
<1>4. CASE Quiet
  BY <1>1, <1>4 DEF KeysAreNew, Quiet, Kept
<1>5. ASSUME NEW u \in Users, Commit(u)
      PROVE  KeysAreNew'
  <2>1. asked[u] # Idle /\ u \notin recorded /\ key[u] \in 1..commands
    BY <1>1, <1>5 DEF Commit, Commits, WorkInv, OpenIsAsked, KeysAreNew
  <2>2. ASSUME NEW i \in Items, item'[i].version > 0
        PROVE  (item[i].version > 0 /\ item'[i].by = item[i].by) \/ item'[i].by = key[u]
    <3>1. CASE SameItem(i)
      BY <2>2, <3>1 DEF SameItem
    <3>2. CASE Adds(u, i)
      BY <3>2 DEF Adds
    <3>3. CASE Changes(u, i)
      BY <3>3 DEF Changes, WorkInv, RowsAreThere, Names
    <3> QED
      BY <1>5, <3>1, <3>2, <3>3 DEF Commit, ItemsStep
  <2>3. ASSUME NEW v \in Users, asked'[v] # Idle
        PROVE  /\ asked'[v] = asked[v] /\ key'[v] = key[v]
               /\ v \notin recorded' => v \notin recorded /\ v # u
    BY <1>5, <2>3 DEF Commit, Commits, Kept
  <2>4. commands' = commands
    BY <1>5 DEF Commit, Kept
  <2>5. \A i \in Items : item'[i].version > 0 => item'[i].by <= commands'
    BY <1>1, <2>1, <2>2, <2>4 DEF KeysAreNew
  <2>6. ASSUME NEW v \in Users, asked'[v] # Idle
        PROVE  /\ key'[v] \in 1..commands'
               /\ \A w \in Users : asked'[w] # Idle /\ key'[w] = key'[v] => w = v
    BY <1>1, <2>3, <2>4, <2>6 DEF KeysAreNew
  <2>7. ASSUME NEW v \in Users, asked'[v] # Idle, v \notin recorded',
               NEW i \in Items, item'[i].version > 0
        PROVE  item'[i].by # key'[v]
    BY <1>1, <2>1, <2>2, <2>3, <2>7 DEF KeysAreNew
  <2> QED
    BY <2>5, <2>6, <2>7 DEF KeysAreNew
<1> QED
  BY <1>2, <1>3, <1>4, <1>5, Steps

LEMMA AddedStep ==
    ASSUME WorkInv, WorkTypeOK', [WorkNext]_workVars
    PROVE  AddedOnce'
<1>1. AddedOnce /\ item \in [Items -> WorkItem]
  BY DEF WorkInv, WorkTypeOK, ItemRows
<1>2. ASSUME UNCHANGED item
      PROVE  AddedOnce'
  BY <1>1, <1>2 DEF AddedOnce, There
<1>3. ASSUME NEW u \in Users, Commit(u)
      PROVE  AddedOnce'
  <2>1. \A i \in Items : item[i].version > 0 => item[i].by # key[u]
    BY <1>3 DEF Commit, Commits, WorkInv, OpenIsAsked, KeysAreNew
  <2>2. ASSUME NEW i \in Items, item'[i].version > 0
        PROVE  (item[i].version > 0 /\ item'[i].by = item[i].by) \/ Adds(u, i)
    <3>1. CASE SameItem(i)
      BY <2>2, <3>1 DEF SameItem
    <3>2. CASE Changes(u, i)
      BY <3>2 DEF Changes, WorkInv, RowsAreThere, Names
    <3> QED
      BY <1>3, <3>1, <3>2 DEF Commit, ItemsStep
  <2> SUFFICES ASSUME NEW i \in Items, NEW j \in Items, item'[i].version > 0, item'[j].version > 0,
                      item'[i].by = item'[j].by
               PROVE  i = j
    <3>1. DOMAIN item' = Items
      BY WorkTypeOK' DEF WorkTypeOK, ItemRows
    <3> QED
      BY <3>1 DEF AddedOnce, There
  <2>3. \A k \in Items : item[k].version > 0 => k \in There(item)
    BY <1>1 DEF There
  <2>4. CASE Adds(u, i) /\ Adds(u, j)
    BY <1>3, <2>4 DEF Commit, ItemsStep
  <2>5. CASE ~Adds(u, i) /\ ~Adds(u, j)
    BY <1>1, <2>2, <2>3, <2>5 DEF AddedOnce
  <2> QED
    BY <2>1, <2>2, <2>4, <2>5 DEF Adds
<1> QED
  BY <1>2, <1>3, Steps, AskIs, BeginIs DEF Quiet, rowVars

LEMMA DoneStep ==
    ASSUME WorkInv, WorkTypeOK', [WorkNext]_workVars
    PROVE  DoneHasNothingOpen'
<1>1. DoneHasNothingOpen /\ item \in [Items -> WorkItem] /\ DOMAIN item' = Items
  BY DEF WorkInv, WorkTypeOK, ItemRows
<1>2. ASSUME UNCHANGED <<item, dependency>>
      PROVE  DoneHasNothingOpen'
  BY <1>1, <1>2 DEF DoneHasNothingOpen, There, OpenDependencies
<1>3. ASSUME NEW u \in Users, Commit(u)
      PROVE  DoneHasNothingOpen'
  <2> SUFFICES ASSUME NEW i \in Items, item'[i].version > 0, item'[i].status = "done"
               PROVE  OpenDependencies(i)' = {}
    BY <1>1 DEF DoneHasNothingOpen, There
  <2>1. CASE SameItem(i)
    <3>1. i \in There(item) /\ item[i].status = "done"
      BY <1>1, <2>1 DEF SameItem, There
    <3> QED
      BY <1>1, <2>1, <3>1 DEF SameItem, DoneHasNothingOpen
  <2>2. CASE Changes(u, i)
    BY <2>2 DEF Changes
  <2> QED
    BY <1>3, <2>1, <2>2 DEF Commit, ItemsStep, Adds
<1>4. ASSUME NEW u \in Users, Ask(u) \/ Begin(u)
      PROVE  UNCHANGED <<item, dependency>>
  BY <1>4, AskIs, BeginIs DEF rowVars
<1> QED
  BY <1>2, <1>3, <1>4, Steps DEF Quiet

LEMMA BaseStep ==
    ASSUME WorkInv, WorkTypeOK', [WorkNext]_workVars
    PROVE  BaseIsShown'
<1>1. BaseIsShown
  BY DEF WorkInv
<1>2. /\ \A m \in Matters : matter[m].version \in Nat
      /\ \A p \in Proposals : /\ proposal[p].version \in Nat /\ proposal'[p].version \in Nat
                              /\ proposal[p].matter \in Matters /\ proposal[p].base \in Nat
  BY VersionsAreNat DEF WorkInv, WorkTypeOK, ProposalRows, Proposal, Versions
<1>3. ASSUME NEW u \in Users, Ask(u)
      PROVE  BaseIsShown'
  <2>1. UNCHANGED <<matter, proposal, tx>> /\ ~tx[u].open /\ \A v \in Users \ {u} : asked'[v] = asked[v]
    BY <1>3, AskIs DEF rowVars
  <2> QED
    BY <1>1, <2>1 DEF BaseIsShown
<1>4. ASSUME NEW u \in Users, Begin(u)
      PROVE  BaseIsShown'
  <2>1. /\ UNCHANGED <<matter, proposal, asked>> /\ tx'[u] = Read(asked[u])
        /\ \A v \in Users \ {u} : tx'[v] = tx[v]
    BY <1>4, BeginIs DEF rowVars
  <2>2. \A q : q.op = "propose" =>
            /\ Read(q).base = matter[q.matter].version
            /\ Read(q).current = matter[q.matter].content
    BY DEF Read
  <2>3. asked[u].op = "propose" =>
            /\ tx'[u].base = matter[asked[u].matter].version
            /\ tx'[u].current = matter[asked[u].matter].content
    BY <2>1, <2>2
  <2> QED
    BY <1>1, <1>2, <2>1, <2>3 DEF BaseIsShown
<1>5. CASE Quiet
  BY <1>1, <1>5 DEF BaseIsShown, Quiet, Kept
<1>6. ASSUME NEW u \in Users, Commit(u)
      PROVE  BaseIsShown'
  <2>1. \A m \in Matters : matter'[m] = matter[m] \/ matter'[m].version > matter[m].version
    BY <1>6 DEF Commit, MattersStep
  <2>2. \A m \in Matters : matter'[m].version \in Nat
    BY WorkTypeOK' DEF WorkTypeOK, MatterRows, Matter, Versions
  <2>3. \A m \in Matters : matter[m].version > 0 => matter'[m].version > 0
    BY <1>2, <2>1, <2>2
  <2>4. ASSUME NEW p \in Proposals, proposal'[p].version > 0, NEW m, m = proposal'[p].matter
        PROVE  /\ matter'[m].version > 0 /\ proposal'[p].base <= matter'[m].version
               /\ proposal'[p].base = matter'[m].version => proposal'[p].current = matter'[m].content
    <3>1. CASE /\ proposal[p].version > 0 /\ proposal'[p].matter = proposal[p].matter
               /\ proposal'[p].base = proposal[p].base /\ proposal'[p].current = proposal[p].current
      <4>1. /\ m \in Matters /\ matter[m].version > 0 /\ proposal[p].base <= matter[m].version
            /\ proposal[p].base = matter[m].version => proposal[p].current = matter[m].content
        BY <1>1, <1>2, <2>4, <3>1 DEF BaseIsShown
      <4> QED
        BY <1>2, <2>1, <2>2, <2>3, <3>1, <4>1
    <3>2. CASE /\ asked[u].op = "propose" /\ matter' = matter
               /\ proposal'[p].matter = asked[u].matter /\ proposal'[p].base = tx[u].base
               /\ proposal'[p].current = tx[u].current
      <4>1. m \in Matters /\ matter[m].version > 0
        BY <2>4, <3>2 DEF WorkInv, RowsAreThere, Names
      <4>2. /\ tx[u].base <= matter[m].version
            /\ tx[u].base = matter[m].version => tx[u].current = matter[m].content
        BY <1>1, <1>6, <2>4, <3>2, <4>1 DEF BaseIsShown, Commit, Commits
      <4> QED
        BY <3>2, <4>1, <4>2
    <3> QED
      BY <1>6, <2>4, <3>1, <3>2 DEF Commit, ProposalsStep
  <2>5. ASSUME NEW v \in Users, NEW m \in Matters,
               tx'[v].open, asked'[v].op = "propose", asked'[v].matter = m
        PROVE  /\ tx'[v].base <= matter'[m].version
               /\ tx'[v].base = matter'[m].version => tx'[v].current = matter'[m].content
    <3>1. tx[v].open /\ tx'[v] = tx[v] /\ asked'[v] = asked[v]
      BY <1>6, <2>5 DEF Commit, Kept
    <3>2. tx[v] \in Open
      BY <3>1 DEF WorkInv, WorkTypeOK, NotOpen
    <3>3. tx[v].base \in Nat
      BY <3>2 DEF Open, Versions
    <3> QED
      BY <1>1, <1>2, <2>1, <2>2, <2>5, <3>1, <3>3 DEF BaseIsShown
  <2> QED
    BY <2>4, <2>5 DEF BaseIsShown
<1> QED
  BY <1>3, <1>4, <1>5, <1>6, Steps

-----------------------------------------------------------------------------
\* WorkTypeOK in its two halves.
RowsTyped ==
    /\ candidate \in [Candidates -> Candidate] /\ matter \in [Matters -> Matter]
    /\ item \in [Items -> WorkItem] /\ dependency \in [Dependencies -> Dependency]
    /\ proposal \in [Proposals -> Proposal]
    /\ links \in SUBSET Link /\ deadlines \in SUBSET Deadline /\ butler \subseteq Butler

UsersTyped ==
    /\ DOMAIN asked = Users /\ key \in [Users -> 0..MaxCommands]
    /\ tx \in [Users -> Open \cup {NotOpen}]
    /\ recorded \in SUBSET Users
    /\ commands \in 0..MaxCommands /\ replaced \in 0..MaxReplaced /\ lost \in 0..MaxLost

LEMMA Halves ==
    /\ WorkTypeOK <=> RowsTyped /\ UsersTyped
    /\ RowsTyped' /\ UsersTyped' => WorkTypeOK'
BY DEF WorkTypeOK, RowsTyped, UsersTyped, CandidateRows, MatterRows, ItemRows, DependencyRows,
       ProposalRows, LinkRows, DeadlineRows, Keys, IdempotencyRows

LEMMA Bounds == MaxCommands \in Nat /\ MaxReplaced \in Nat /\ MaxLost \in Nat
BY WorkAssumption

LEMMA BumpTyped ==
    /\ \A row \in Candidate : Bump(row) \in Candidate
    /\ \A row \in Candidate, l \in BOOLEAN : [Bump(row) EXCEPT !.legal = l] \in Candidate
    /\ \A row \in Candidate, s \in {"pending", "confirmed", "linked", "dismissed", "rejected"} :
           [Bump(row) EXCEPT !.status = s] \in Candidate
    /\ \A row \in Matter, n \in 0..MaxCommands : [Bump(row) EXCEPT !.content = n] \in Matter
    /\ \A row \in WorkItem : Bump(row) \in WorkItem
    /\ \A row \in Dependency : [Bump(row) EXCEPT !.status = "satisfied"] \in Dependency
    /\ \A row \in Proposal, s \in {"approved", "partially_approved", "rejected"} :
           [Bump(row) EXCEPT !.status = s] \in Proposal
<1>1. \A row \in Candidate : Bump(row) \in Candidate
  BY DEF Bump, Candidate, Versions
<1>2. \A row \in Matter : Bump(row) \in Matter
  BY DEF Bump, Matter, Versions
<1>3. \A row \in WorkItem : Bump(row) \in WorkItem
  BY DEF Bump, WorkItem, Versions
<1>4. \A row \in Dependency : Bump(row) \in Dependency
  BY DEF Bump, Dependency, Versions
<1>5. \A row \in Proposal : Bump(row) \in Proposal
  BY DEF Bump, Proposal, Versions
<1>6. /\ \A row \in Candidate, l \in BOOLEAN : [row EXCEPT !.legal = l] \in Candidate
      /\ \A row \in Candidate, s \in {"pending", "confirmed", "linked", "dismissed", "rejected"} :
             [row EXCEPT !.status = s] \in Candidate
  BY DEF Candidate
<1>7. \A row \in Matter, n \in 0..MaxCommands : [row EXCEPT !.content = n] \in Matter
  BY DEF Matter
<1>8. \A row \in Dependency : [row EXCEPT !.status = "satisfied"] \in Dependency
  BY DEF Dependency
<1>9. \A row \in Proposal, s \in {"approved", "partially_approved", "rejected"} :
          [row EXCEPT !.status = s] \in Proposal
  BY DEF Proposal
<1> QED
  BY <1>1, <1>2, <1>3, <1>4, <1>5, <1>6, <1>7, <1>8, <1>9

LEMMA ActedTyped ==
    ASSUME NEW row \in WorkItem, NEW a \in ItemActions
    PROVE  Acted(row, a) \in WorkItem
<1>1. To(a, row.status) \in {"todo", "in_progress", "paused", "waiting", "blocked", "done", "cancelled"}
  BY DEF ItemActions, To, WorkItem
<1>2. Bump(row) \in WorkItem
  BY BumpTyped
<1> QED
  BY <1>1, <1>2 DEF Acted, WorkItem

LEMMA ItemTyped ==
    ASSUME UsersTyped, NEW m \in Matters, NEW n \in Nat, NEW u \in Users
    PROVE  NewItem(m, n, u) \in WorkItem
BY DEF NewItem, WorkItem, Versions, UsersTyped

LEMMA SettleTyped ==
    ASSUME UsersTyped, NEW u \in Users, Settle(u), tx' \in [Users -> Open \cup {NotOpen}],
           UNCHANGED <<commands, replaced, lost>>
    PROVE  UsersTyped'
<1>1. DOMAIN asked' = Users
  BY DEF UsersTyped, Settle
<1>2. key' \in [Users -> 0..MaxCommands]
  BY Bounds DEF UsersTyped, Settle
<1>3. recorded' \in SUBSET Users
  BY DEF UsersTyped, Settle
<1> QED
  BY <1>1, <1>2, <1>3 DEF UsersTyped

LEMMA AnswerTyped ==
    ASSUME UsersTyped, NEW u \in Users, Answer(u)
    PROVE  UsersTyped'
<1>1. tx' \in [Users -> Open \cup {NotOpen}] /\ UNCHANGED <<commands, replaced>>
  BY DEF UsersTyped, Answer
<1>2. CASE Settle(u) /\ UNCHANGED lost
  BY <1>1, <1>2, SettleTyped
<1>3. CASE /\ lost < MaxLost /\ lost' = lost + 1 /\ recorded' = recorded \cup {u}
           /\ UNCHANGED <<asked, key>>
  BY <1>1, <1>3, Bounds DEF UsersTyped
<1> QED
  BY <1>2, <1>3 DEF Answer

\* What a transaction reads.
LEMMA ReadTyped ==
    ASSUME RowsTyped, NEW q, Names(q)
    PROVE  Read(q) \in Open
<1>1. Cardinality(ItemsOf(q.matter)) \in Nat
  <2>1. ItemsOf(q.matter) \subseteq Items
    BY DEF ItemsOf, There, RowsTyped
  <2>2. IsFiniteSet(Items)
    BY WorkAssumption
  <2> QED
    BY <2>1, <2>2, FS_Subset, FS_CardinalityType
<1>2. q.op = "propose" => matter[q.matter].version \in Nat /\ matter[q.matter].content \in 0..MaxCommands
  BY DEF Names, RowsTyped, Matter, Versions
<1>3. OpenDependencies(q.on.row) \in SUBSET Dependencies
  BY DEF OpenDependencies, There, RowsTyped
<1> DEFINE order == IF q.op \in {"add", "review"} THEN Cardinality(ItemsOf(q.matter)) ELSE 0
           base == IF q.op = "propose" THEN matter[q.matter].version ELSE 0
           current == IF q.op = "propose" THEN matter[q.matter].content ELSE 0
           waits == IF q.op = "act" THEN OpenDependencies(q.on.row) ELSE {}
<1>4. order \in Nat /\ base \in Nat /\ current \in 0..MaxCommands /\ waits \in SUBSET Dependencies
  BY <1>1, <1>2, <1>3, Bounds
<1>5. Read(q) = [open |-> TRUE, order |-> order, base |-> base, current |-> current, waits |-> waits]
  BY DEF Read
<1> HIDE DEF order, base, current, waits
<1> QED
  BY <1>4, <1>5 DEF Open, Versions

\* The steps that change no rows.
LEMMA UserStepsTyped ==
    ASSUME WorkInv, NEW u \in Users,
           \/ Ask(u) \/ Begin(u) \/ Replay(u) \/ RollBack(u) \/ GiveUp(u) \/ Refuse(u)
    PROVE  WorkTypeOK'
<1>0. RowsTyped /\ UsersTyped
  BY Halves DEF WorkInv
<1>1. RowsTyped'
  <2>1. UNCHANGED rowVars
    BY DEF Ask, Begin, Replay, RollBack, GiveUp, Refuse
  <2> QED
    BY <1>0, <2>1 DEF RowsTyped, rowVars
<1>2. UsersTyped'
  <2>1. CASE Ask(u)
    <3>1. DOMAIN asked' = Users /\ key' \in [Users -> 0..MaxCommands] /\ commands' \in 0..MaxCommands
      BY <1>0, <2>1, Bounds DEF Ask, UsersTyped
    <3> QED
      BY <1>0, <2>1, <3>1 DEF Ask, UsersTyped
  <2>2. CASE Begin(u)
    <3>1. Read(asked[u]) \in Open
      BY <1>0, ReadTyped DEF WorkInv, RowsAreThere
    <3> QED
      BY <1>0, <2>2, <3>1 DEF Begin, UsersTyped
  <2>3. CASE RollBack(u)
    BY <1>0, <2>3 DEF RollBack, UsersTyped
  <2>4. CASE Replay(u) \/ GiveUp(u) \/ Refuse(u)
    <3>1. Settle(u) /\ tx' \in [Users -> Open \cup {NotOpen}] /\ UNCHANGED <<commands, replaced, lost>>
      BY <1>0, <2>4 DEF Replay, GiveUp, Refuse, UsersTyped
    <3> QED
      BY <1>0, <3>1, SettleTyped
  <2> QED
    BY <2>1, <2>2, <2>3, <2>4
<1> QED
  BY <1>1, <1>2, Halves

LEMMA CandidateStepsTyped ==
    ASSUME WorkInv, NEW u \in Users,
           CreateCandidate(u) \/ ConfirmCreateMatter(u) \/ Resolve(u) \/ Propose(u)
    PROVE  RowsTyped'
<1>0. RowsTyped /\ UsersTyped /\ Names(asked[u]) /\ tx[u].open
  BY Halves DEF WorkInv, RowsAreThere, CreateCandidate, ConfirmCreateMatter, Resolve, Propose, InTx
<1>1. CASE CreateCandidate(u)
  <2>1. [version |-> 1, legal |-> asked[u].legal, status |-> "pending"] \in Candidate
    BY <1>0, <1>1 DEF CreateCandidate, InTx, Names, Candidate, Versions
  <2> QED
    BY <1>0, <1>1, <2>1 DEF CreateCandidate, RowsTyped
<1>2. CASE ConfirmCreateMatter(u)
  <2>1. PICK c \in Candidates : c = asked[u].row
    BY <1>0, <1>2 DEF ConfirmCreateMatter, InTx, Names
  <2>2. PICK m \in Matters : m = Fresh(matter)
    BY <1>0, <1>2, FreshRow DEF ConfirmCreateMatter, RowsTyped
  <2>3. PICK i \in Items : i = Fresh(item)
    BY <1>0, <1>2, FreshRow DEF ConfirmCreateMatter, RowsTyped
  <2>4. candidate' \in [Candidates -> Candidate]
    <3>1. candidate' = [candidate EXCEPT ![c] = [Bump(candidate[c]) EXCEPT !.status = "confirmed"]]
      BY <1>2, <2>1 DEF ConfirmCreateMatter
    <3>2. [Bump(candidate[c]) EXCEPT !.status = "confirmed"] \in Candidate
      BY <1>0, BumpTyped DEF RowsTyped
    <3> QED
      BY <1>0, <3>1, <3>2 DEF RowsTyped
  <2>5. matter' \in [Matters -> Matter]
    <3>1. [version |-> 1, content |-> 0] \in Matter
      BY Bounds DEF Matter, Versions
    <3> QED
      BY <1>0, <1>2, <3>1 DEF ConfirmCreateMatter, RowsTyped
  <2>6. item' \in [Items -> WorkItem]
    <3>1. NewItem(m, 0, u) \in WorkItem
      BY <1>0, ItemTyped
    <3> QED
      BY <1>0, <1>2, <2>2, <3>1 DEF ConfirmCreateMatter, RowsTyped
  <2>7. links' \in SUBSET Link
    BY <1>0, <1>2, <2>1, <2>2 DEF ConfirmCreateMatter, RowsTyped, Link
  <2>8. butler' \subseteq Butler
    BY <1>0, <1>2, <2>1, <2>2, <2>3 DEF ConfirmCreateMatter, RowsTyped, Butler
  <2> QED
    BY <1>0, <1>2, <2>4, <2>5, <2>6, <2>7, <2>8 DEF ConfirmCreateMatter, RowsTyped
<1>3. CASE Resolve(u)
  <2>1. PICK c \in Candidates : c = asked[u].row
    BY <1>0, <1>3 DEF Resolve, InTx, Names
  <2>2. candidate' \in [Candidates -> Candidate]
    <3>1. PICK s \in {"dismissed", "linked"} :
              candidate' = [candidate EXCEPT ![c] = [Bump(candidate[c]) EXCEPT !.status = s]]
      BY <1>3, <2>1 DEF Resolve
    <3>2. [Bump(candidate[c]) EXCEPT !.status = s] \in Candidate
      BY <1>0, BumpTyped DEF RowsTyped
    <3> QED
      BY <1>0, <3>1, <3>2 DEF RowsTyped
  <2>3. asked[u].matter # External => asked[u].matter \in Matters
    BY <1>0, <1>3 DEF Resolve, InTx, Names
  <2>4. links' \in SUBSET Link
    BY <1>0, <1>3, <2>1, <2>3 DEF Resolve, RowsTyped, Link
  <2>5. butler' \subseteq Butler
    BY <1>0, <1>3, <2>1, <2>3 DEF Resolve, RowsTyped, Butler
  <2> QED
    BY <1>0, <1>3, <2>2, <2>4, <2>5 DEF Resolve, RowsTyped
<1>4. CASE Propose(u)
  <2>1. PICK c \in Candidates : c = asked[u].row
    BY <1>0, <1>4 DEF Propose, InTx, Names
  <2>2. asked[u].matter \in Matters /\ asked[u].fields \subseteq {"scalar", "newWorkItems"}
    BY <1>0, <1>4 DEF Propose, InTx, Names
  <2>3. tx[u].base \in Versions /\ tx[u].current \in 0..MaxCommands
    <3>1. tx[u] \in Open
      BY <1>0 DEF UsersTyped, NotOpen
    <3> QED
      BY <3>1 DEF Open
  <2> DEFINE new == [version |-> 1, candidate |-> c, matter |-> asked[u].matter,
                     base |-> tx[u].base, current |-> tx[u].current,
                     fields |-> asked[u].fields, status |-> "pending"]
  <2>4. new \in Proposal
    BY <2>2, <2>3 DEF Proposal, Versions
  <2>5. proposal' = [proposal EXCEPT ![Fresh(proposal)] = new]
    BY <1>4, <2>1 DEF Propose
  <2> HIDE DEF new
  <2>6. proposal' \in [Proposals -> Proposal]
    BY <1>0, <2>4, <2>5 DEF RowsTyped
  <2>7. candidate' \in [Candidates -> Candidate]
    <3>1. candidate' = [candidate EXCEPT ![c] = [Bump(candidate[c]) EXCEPT !.status = "linked"]]
      BY <1>4, <2>1 DEF Propose
    <3>2. [Bump(candidate[c]) EXCEPT !.status = "linked"] \in Candidate
      BY <1>0, BumpTyped DEF RowsTyped
    <3> QED
      BY <1>0, <3>1, <3>2 DEF RowsTyped
  <2>8. links' \in SUBSET Link
    BY <1>0, <1>4, <2>1, <2>2 DEF Propose, RowsTyped, Link
  <2> QED
    BY <1>0, <1>4, <2>6, <2>7, <2>8 DEF Propose, RowsTyped
<1> QED
  BY <1>1, <1>2, <1>3, <1>4

LEMMA MatterStepsTyped ==
    ASSUME WorkInv, NEW u \in Users, Review(u) \/ AddWorkItem(u) \/ CreateDeadline(u)
    PROVE  RowsTyped'
<1>0. /\ RowsTyped /\ UsersTyped /\ Names(asked[u]) /\ tx[u].open
      /\ \A p \in Proposals : proposal[p].matter \in Matters
  BY Halves DEF WorkInv, RowsAreThere, RowsTyped, Proposal, Review, AddWorkItem, CreateDeadline, InTx
<1>1. tx[u].order \in Nat
  <2>1. tx[u] \in Open
    BY <1>0 DEF UsersTyped, NotOpen
  <2> QED
    BY <2>1 DEF Open
<1>2. key[u] \in 0..MaxCommands
  BY <1>0 DEF UsersTyped
<1>3. CASE CreateDeadline(u)
  <2>1. asked[u].owner \in Matters \cup Items
    BY <1>0, <1>3 DEF CreateDeadline, InTx, Names
  <2>2. deadlines' \in SUBSET Deadline
    BY <1>0, <1>2, <1>3, <2>1 DEF CreateDeadline, RowsTyped, Deadline
  <2> QED
    BY <1>0, <1>3, <2>2 DEF CreateDeadline, RowsTyped
<1>4. CASE AddWorkItem(u)
  <2>1. NewItem(asked[u].matter, tx[u].order, u) \in WorkItem
    BY <1>0, <1>1, <1>4, ItemTyped DEF AddWorkItem, InTx, Names
  <2> QED
    BY <1>0, <1>4, <2>1 DEF AddWorkItem, RowsTyped
<1>5. CASE Review(u)
  <2>1. PICK p \in Proposals : p = asked[u].row
    BY <1>0, <1>5 DEF Review, InTx, Names
  <2>2. PICK m \in Matters : m = asked[u].matter
    BY <1>0, <1>5, <2>1 DEF Review, InTx, Names
  <2>3. proposal' \in [Proposals -> Proposal]
    <3>1. PICK s \in {"approved", "partially_approved", "rejected"} : s = ReviewedStatus(asked[u])
      BY DEF ReviewedStatus
    <3> DEFINE new == [Bump(proposal[p]) EXCEPT !.status = s]
    <3>2. proposal' = [proposal EXCEPT ![p] = new]
      BY <1>5, <2>1, <3>1 DEF Review
    <3>3. new \in Proposal
      BY <1>0, BumpTyped DEF RowsTyped
    <3> HIDE DEF new
    <3> QED
      BY <1>0, <3>2, <3>3 DEF RowsTyped
  <2>4. matter' \in [Matters -> Matter]
    <3> DEFINE new == [Bump(matter[m]) EXCEPT !.content = key[u]]
    <3>1. matter' = matter \/ matter' = [matter EXCEPT ![m] = new]
      BY <1>5, <2>2 DEF Review
    <3>2. new \in Matter
      BY <1>0, <1>2, BumpTyped DEF RowsTyped
    <3> HIDE DEF new
    <3> QED
      BY <1>0, <3>1, <3>2 DEF RowsTyped
  <2>5. deadlines' \in SUBSET Deadline
    <3>1. deadlines' = deadlines \/ deadlines' = deadlines \cup {[owner |-> m, by |-> key[u]]}
      BY <1>5, <2>2 DEF Review
    <3> QED
      BY <1>0, <1>2, <3>1 DEF RowsTyped, Deadline
  <2>6. item' \in [Items -> WorkItem]
    <3>1. NewItem(m, tx[u].order, u) \in WorkItem
      BY <1>0, <1>1, ItemTyped
    <3>2. item' = item \/ item' = [item EXCEPT ![Fresh(item)] = NewItem(m, tx[u].order, u)]
      BY <1>5, <2>2 DEF Review
    <3> QED
      BY <1>0, <3>1, <3>2 DEF RowsTyped
  <2> QED
    BY <1>0, <1>5, <2>3, <2>4, <2>5, <2>6 DEF Review, RowsTyped
<1> QED
  BY <1>3, <1>4, <1>5

LEMMA ItemStepsTyped ==
    ASSUME WorkInv, NEW u \in Users,
           ApplyAction(u) \/ ConfirmPriority(u) \/ CreateDependency(u) \/ ResolveDependency(u)
    PROVE  RowsTyped'
<1>0. RowsTyped /\ Names(asked[u])
  BY Halves DEF WorkInv, RowsAreThere
<1>1. PICK i \in Items : i = asked[u].on.row
  BY <1>0 DEF Names, OnItems, ApplyAction, ConfirmPriority, CreateDependency, ResolveDependency, InTx
<1>2. CASE ApplyAction(u)
  <2>1. PICK a \in ItemActions : a = asked[u].action
    BY <1>0, <1>2 DEF Names, ApplyAction, InTx
  <2>2. item' = [item EXCEPT ![i] = Acted(item[i], a)]
    BY <1>1, <1>2, <2>1 DEF ApplyAction
  <2>3. Acted(item[i], a) \in WorkItem
    BY <1>0, ActedTyped DEF RowsTyped
  <2> QED
    BY <1>0, <1>2, <2>2, <2>3 DEF ApplyAction, RowsTyped
<1>3. CASE ConfirmPriority(u) \/ CreateDependency(u) \/ ResolveDependency(u)
  <2>1. item' = [item EXCEPT ![i] = Bump(item[i])]
    BY <1>1, <1>3 DEF ConfirmPriority, CreateDependency, ResolveDependency, Touched
  <2>2. Bump(item[i]) \in WorkItem
    BY <1>0, BumpTyped DEF RowsTyped
  <2>3. item' \in [Items -> WorkItem]
    BY <1>0, <2>1, <2>2 DEF RowsTyped
  <2>4. dependency' \in [Dependencies -> Dependency]
    <3>1. CASE ConfirmPriority(u)
      BY <1>0, <3>1 DEF ConfirmPriority, RowsTyped
    <3>2. CASE CreateDependency(u)
      <4> DEFINE new == [version |-> 1, item |-> i, on |-> asked[u].other, status |-> "active"]
      <4>1. asked[u].other \in Items \cup {External}
        BY <1>0, <3>2 DEF CreateDependency, InTx, Names
      <4>2. new \in Dependency
        BY <4>1 DEF Dependency, Versions
      <4>3. dependency' = [dependency EXCEPT ![Fresh(dependency)] = new]
        BY <1>1, <3>2 DEF CreateDependency
      <4> HIDE DEF new
      <4> QED
        BY <1>0, <4>2, <4>3 DEF RowsTyped
    <3>3. CASE ResolveDependency(u)
      <4>1. PICK d \in Dependencies : d = asked[u].row
        BY <1>0, <3>3 DEF ResolveDependency, InTx, Names
      <4> DEFINE new == [Bump(dependency[d]) EXCEPT !.status = "satisfied"]
      <4>2. new \in Dependency
        BY <1>0, BumpTyped DEF RowsTyped
      <4>3. dependency' = [dependency EXCEPT ![d] = new]
        BY <3>3, <4>1 DEF ResolveDependency
      <4> HIDE DEF new
      <4> QED
        BY <1>0, <4>2, <4>3 DEF RowsTyped
    <3> QED
      BY <1>3, <3>1, <3>2, <3>3
  <2>5. UNCHANGED <<candidate, matter, proposal, links, deadlines, butler>>
    BY <1>3 DEF ConfirmPriority, CreateDependency, ResolveDependency
  <2> QED
    BY <1>0, <2>3, <2>4, <2>5 DEF RowsTyped
<1> QED
  BY <1>2, <1>3

LEMMA TypeStep ==
    ASSUME WorkInv, [WorkNext]_workVars
    PROVE  WorkTypeOK'
<1>0. RowsTyped /\ UsersTyped
  BY Halves DEF WorkInv
<1>1. CASE UNCHANGED workVars
  BY <1>0, <1>1, Halves DEF workVars, rowVars, userVars, RowsTyped, UsersTyped
<1>2. ASSUME NEW c \in Candidates, ReplaceAnalysis(c)
      PROVE  WorkTypeOK'
  <2>1. PICK new \in Candidate : candidate' = [candidate EXCEPT ![c] = new]
    <3>1. candidate[c] \in Candidate
      BY <1>0 DEF RowsTyped
    <3>2. CASE \E l \in BOOLEAN : candidate' = [candidate EXCEPT ![c] = [Bump(@) EXCEPT !.legal = l]]
      BY <3>1, <3>2, BumpTyped
    <3>3. CASE candidate' = [candidate EXCEPT ![c] = [Bump(@) EXCEPT !.status = "rejected"]]
      BY <3>1, <3>3, BumpTyped
    <3> QED
      BY <1>2, <3>2, <3>3 DEF ReplaceAnalysis
  <2>2. RowsTyped'
    BY <1>0, <1>2, <2>1 DEF ReplaceAnalysis, RowsTyped
  <2>3. UsersTyped'
    BY <1>0, <1>2, Bounds DEF ReplaceAnalysis, userVars, UsersTyped
  <2> QED
    BY <2>2, <2>3, Halves
<1>3. ASSUME NEW u \in Users, RowsTyped', Answer(u)
      PROVE  WorkTypeOK'
  BY <1>0, <1>3, AnswerTyped, Halves
<1>4. ASSUME NEW u \in Users,
             CreateCandidate(u) \/ ConfirmCreateMatter(u) \/ Resolve(u) \/ Propose(u)
      PROVE  WorkTypeOK'
  <2>1. Answer(u)
    BY <1>4 DEF CreateCandidate, ConfirmCreateMatter, Resolve, Propose
  <2> QED
    BY <1>3, <1>4, <2>1, CandidateStepsTyped
<1>5. ASSUME NEW u \in Users, Review(u) \/ AddWorkItem(u) \/ CreateDeadline(u)
      PROVE  WorkTypeOK'
  <2>1. Answer(u)
    BY <1>5 DEF Review, AddWorkItem, CreateDeadline
  <2> QED
    BY <1>3, <1>5, <2>1, MatterStepsTyped
<1>6. ASSUME NEW u \in Users,
             ApplyAction(u) \/ ConfirmPriority(u) \/ CreateDependency(u) \/ ResolveDependency(u)
      PROVE  WorkTypeOK'
  <2>1. Answer(u)
    BY <1>6 DEF ApplyAction, ConfirmPriority, CreateDependency, ResolveDependency
  <2> QED
    BY <1>3, <1>6, <2>1, ItemStepsTyped
<1> QED
  BY <1>1, <1>2, <1>4, <1>5, <1>6, UserStepsTyped DEF WorkNext

-----------------------------------------------------------------------------
LEMMA InitTyped == WorkInit => WorkTypeOK
<1> SUFFICES ASSUME WorkInit
             PROVE  WorkTypeOK
  OBVIOUS
<1>0. (CHOOSE c \in Candidates : TRUE) \in Candidates /\ OpenMatter \in Matters /\ OpenItem \in Items
  BY WorkAssumption
<1>1. candidate \in [Candidates -> Candidate]
  <2>1. CASE Undecided
    BY <2>1 DEF Undecided, Candidate, Versions
  <2>2. CASE AllProposed
    BY <2>2 DEF AllProposed, Candidate, Versions
  <2> QED
    BY <2>1, <2>2 DEF WorkInit
<1>2. matter \in [Matters -> Matter]
  BY Bounds DEF WorkInit, Matter, Versions
<1>3. item \in [Items -> WorkItem]
  BY <1>0, Bounds DEF WorkInit, WorkItem, Versions
<1>4. dependency \in [Dependencies -> Dependency]
  BY <1>0 DEF WorkInit, Dependency, Versions
<1>5. proposal \in [Proposals -> Proposal] /\ links \in SUBSET Link
  <2>1. CASE Undecided
    <3> DEFINE none == CHOOSE c \in Candidates : TRUE
    <3>1. proposal = [p \in Proposals |->
              [version |-> 0, candidate |-> none, matter |-> OpenMatter,
               base |-> 0, current |-> 0, fields |-> {}, status |-> "pending"]]
      BY <2>1 DEF Undecided
    <3>2. none \in Candidates
      BY <1>0
    <3> HIDE DEF none
    <3>3. proposal \in [Proposals -> Proposal]
      BY <1>0, <3>1, <3>2, Bounds DEF Proposal, Versions
    <3> QED
      BY <2>1, <3>3 DEF Undecided
  <2>2. CASE AllProposed
    <3>1. PICK of \in [Proposals -> Candidates], fields \in SUBSET {"scalar", "newWorkItems"} :
              proposal = [p \in Proposals |->
                  [version |-> 1, candidate |-> of[p], matter |-> OpenMatter,
                   base |-> 1, current |-> 0, fields |-> fields, status |-> "pending"]]
      BY <2>2 DEF AllProposed
    <3>2. proposal \in [Proposals -> Proposal]
      BY <1>0, <3>1, Bounds DEF Proposal, Versions
    <3>3. links = {[candidate |-> c, matter |-> OpenMatter, relation |-> "updated"] : c \in Candidates}
      BY <2>2 DEF AllProposed
    <3>4. links \in SUBSET Link
      BY <1>0, <3>3 DEF Link
    <3> QED
      BY <3>2, <3>4
  <2> QED
    BY <2>1, <2>2 DEF WorkInit
<1>6. RowsTyped
  BY <1>1, <1>2, <1>3, <1>4, <1>5 DEF WorkInit, RowsTyped
<1>7. UsersTyped
  BY Bounds DEF WorkInit, UsersTyped
<1> QED
  BY <1>6, <1>7, Halves

LEMMA Initially == WorkInit => WorkInv
<1> SUFFICES ASSUME WorkInit
             PROVE  WorkInv
  OBVIOUS
<1>1. WorkTypeOK
  BY InitTyped
<1>2. \A u \in Users : asked[u] = Idle /\ ~tx[u].open
  BY DEF WorkInit, NotOpen
<1>3. RowsAreThere
  BY <1>2 DEF RowsAreThere, Names, Idle, OnItems
<1>4. DependenciesHaveItems
  BY DEF WorkInit, DependenciesHaveItems
<1>5. OpenIsAsked /\ LocksExclude /\ WaitsAreCurrent /\ PagesAreVersioned
  BY <1>2 DEF OpenIsAsked, LocksExclude, WaitsAreCurrent, PagesAreVersioned, Idle, OnItems
<1>6. KeysAreNew
  BY <1>2 DEF WorkInit, KeysAreNew
<1>7. BaseIsShown
  <2>1. /\ OpenMatter \in Matters /\ matter[OpenMatter].version = 1 /\ matter[OpenMatter].content = 0
    BY WorkAssumption DEF WorkInit
  <2>2. \A p \in Proposals : proposal[p].version > 0 =>
            proposal[p].matter = OpenMatter /\ proposal[p].base = 1 /\ proposal[p].current = 0
    BY DEF WorkInit, Undecided, AllProposed
  <2> QED
    BY <1>2, <2>1, <2>2 DEF BaseIsShown
<1>8. DoneHasNothingOpen /\ AddedOnce
  BY DEF WorkInit, DoneHasNothingOpen, AddedOnce, There
<1> QED
  BY <1>1, <1>3, <1>4, <1>5, <1>6, <1>7, <1>8 DEF WorkInv

LEMMA InvStep == WorkInv /\ [WorkNext]_workVars => WorkInv'
BY TypeStep, NamesStep, DependenciesStepKeeps, OpenStep, LocksStep, WaitsStep, PagesStep, KeysStep,
   BaseStep, DoneStep, AddedStep DEF WorkInv

LEMMA Always == WorkSpec => []WorkInv
BY Initially, InvStep, PTL DEF WorkSpec

-----------------------------------------------------------------------------
\* The rows have the shape of their tables, and a user has at most one
\* transaction, whatever the users do (infrastructure/models/core.py).
THEOREM WorkTypeCorrect == WorkSpec => []WorkTypeOK
<1>1. WorkInv => WorkTypeOK
  BY DEF WorkInv
<1> QED
  BY <1>1, Always, PTL

\* A finished work item has no open dependency (domain/work_items.py:224).
THEOREM NothingIsLeftOpen == WorkSpec => []DoneHasNothingOpen
<1>1. WorkInv => DoneHasNothingOpen
  BY DEF WorkInv
<1> QED
  BY <1>1, Always, PTL

\* A command adds at most one work item, however often it is sent
\* (handlers.py:586).
THEOREM NothingIsAddedTwice == WorkSpec => []AddedOnce
<1>1. WorkInv => AddedOnce
  BY DEF WorkInv
<1> QED
  BY <1>1, Always, PTL

LEMMA ApprovalStep ==
    ASSUME WorkInv, WorkTypeOK', [WorkNext]_workVars,
           NEW p \in Proposals, proposal[p].status = "pending",
           proposal'[p].status \in {"approved", "partially_approved"}
    PROVE  matter[proposal[p].matter].content = proposal[p].current
<1>0. proposal \in [Proposals -> Proposal]
  BY DEF WorkInv, WorkTypeOK, ProposalRows
<1>1. proposal' # proposal
  OBVIOUS
<1>2. ASSUME NEW u \in Users, Propose(u)
      PROVE  FALSE
  <2> DEFINE new == [version |-> 1, candidate |-> asked[u].row, matter |-> asked[u].matter,
                     base |-> tx[u].base, current |-> tx[u].current,
                     fields |-> asked[u].fields, status |-> "pending"]
  <2>1. proposal' = [proposal EXCEPT ![Fresh(proposal)] = new] /\ new.status = "pending"
    BY <1>2 DEF Propose
  <2> HIDE DEF new
  <2> QED
    BY <1>0, <2>1
<1>3. PICK u \in Users : Review(u)
  <2>1. ASSUME NEW v \in Users, Ask(v) \/ Begin(v) \/ Replay(v) \/ RollBack(v) \/ GiveUp(v) \/ Refuse(v)
        PROVE  UNCHANGED proposal
    BY <2>1 DEF rowVars, Ask, Begin, Replay, RollBack, GiveUp, Refuse
  <2>2. ASSUME NEW v \in Users,
               CreateCandidate(v) \/ ConfirmCreateMatter(v) \/ Resolve(v) \/ AddWorkItem(v) \/ CreateDeadline(v)
        PROVE  UNCHANGED proposal
    BY <2>2 DEF CreateCandidate, ConfirmCreateMatter, Resolve, AddWorkItem, CreateDeadline
  <2>3. ASSUME NEW v \in Users,
               ApplyAction(v) \/ ConfirmPriority(v) \/ CreateDependency(v) \/ ResolveDependency(v)
        PROVE  UNCHANGED proposal
    BY <2>3 DEF ApplyAction, ConfirmPriority, CreateDependency, ResolveDependency
  <2>4. ASSUME UNCHANGED workVars \/ \E c \in Candidates : ReplaceAnalysis(c)
        PROVE  UNCHANGED proposal
    BY <2>4 DEF workVars, rowVars, ReplaceAnalysis
  <2> QED
    BY <1>1, <1>2, <2>1, <2>2, <2>3, <2>4 DEF WorkNext
<1>4. asked[u].row \in Proposals /\ proposal[asked[u].row].version > 0
      /\ asked[u].matter = proposal[asked[u].row].matter
  BY <1>3 DEF Review, InTx, WorkInv, RowsAreThere, Names
<1>5. asked[u].row = p
  <2>1. PICK r \in Proposals : r = asked[u].row
    BY <1>4
  <2> DEFINE new == [Bump(proposal[r]) EXCEPT !.status = ReviewedStatus(asked[u])]
  <2>2. proposal' = [proposal EXCEPT ![r] = new]
    BY <1>3, <2>1 DEF Review
  <2> HIDE DEF new
  <2> QED
    BY <1>0, <2>1, <2>2
<1>6. matter[asked[u].matter].version = proposal[p].base
  BY <1>3, <1>5 DEF Review, MayReview, OnBase
<1> QED
  BY <1>4, <1>5, <1>6 DEF WorkInv, BaseIsShown

\* Who approves a change has seen the content that it replaces
\* (matter_updates.py:341).
THEOREM NoUpdateIsLost == WorkSpec => NoLostUpdate
<1>1. WorkInv /\ WorkInv' /\ [WorkNext]_workVars =>
          [\A p \in Proposals :
               proposal'[p].status \in {"approved", "partially_approved"} /\ proposal[p].status = "pending"
                   => matter[proposal[p].matter].content = proposal[p].current]_workVars
  BY ApprovalStep, TypeStep
<1> QED
  BY <1>1, Always, PTL DEF WorkSpec, NoLostUpdate

LEMMA InformedStep ==
    ASSUME WorkInv, [WorkNext]_workVars, NEW u \in Users,
           WorkTypeOK', asked[u].op \in OnItems, tx[u].open, ~tx'[u].open, item' # item
    PROVE  /\ asked[u].on.seen = item[asked[u].on.row]
           /\ asked[u].on.open = OpenDependencies(asked[u].on.row)
<1>1. Commit(u)
  <2>1. PICK v \in Users : Commit(v)
    BY Steps, AskIs, BeginIs DEF Quiet, rowVars
  <2> QED
    BY <2>1 DEF Commit, Commits
<1>2. PICK i \in Items : item'[i] # item[i]
  BY DEF WorkInv, WorkTypeOK, ItemRows
<1>3. Changes(u, i)
  BY <1>1, <1>2 DEF Commit, ItemsStep, SameItem, Adds
<1> QED
  BY <1>3 DEF Changes, WorkInv, PagesAreVersioned

\* Who changes an item has seen the item and what it depends on
\* (domain/work_items.py:119).
THEOREM ChangesAreOfWhatWasSeen == WorkSpec => ChangesAreInformed
<1>1. WorkInv /\ WorkInv' /\ [WorkNext]_workVars =>
          [\A u \in Users :
               asked[u].op \in {"act", "prioritize", "depend", "undepend"} /\ tx[u].open /\ ~tx'[u].open
               /\ item' # item
                   => LET q == asked[u] IN
                      /\ q.on.seen = item[q.on.row]
                      /\ q.on.open = OpenDependencies(q.on.row)]_workVars
  BY InformedStep, TypeStep DEF OnItems
<1> QED
  BY <1>1, Always, PTL DEF WorkSpec, ChangesAreInformed

-----------------------------------------------------------------------------
(* What was decided on a candidate *)

LinksOf(c) == {l \in links : l.candidate = c}

ProposalsOf(c) == {p \in There(proposal) : proposal[p].candidate = c}

RequestsOf(c) == {b \in butler : b.candidate = c}

\* A candidate that waits, was dismissed or rejected has nothing; a decided one
\* has one link, and a proposal or a request of the kind its link has.
WasDecided(c) ==
    IF candidate[c].status \in {"confirmed", "linked"}
    THEN \E l \in links :
            /\ LinksOf(c) = {l}
            /\ (l.relation = "created") <=> (candidate[c].status = "confirmed")
            /\ \A b \in RequestsOf(c) : b.matter = l.matter /\ l.relation # "updated"
            /\ IF l.relation = "updated"
               THEN \E p \in Proposals : ProposalsOf(c) = {p}
               ELSE ProposalsOf(c) = {}
    ELSE LinksOf(c) = {} /\ ProposalsOf(c) = {} /\ RequestsOf(c) = {}

DecisionsAreSound ==
    \A c \in Candidates :
        /\ WasDecided(c)
        /\ ~(candidate[c].version > 0) => IsPending(candidate[c])

\* Counted, that is what DecidedOnce says.
LEMMA DecisionsAreCounted == DecisionsAreSound => DecidedOnce
<1> SUFFICES ASSUME DecisionsAreSound, NEW c \in Candidates
             PROVE  /\ Cardinality(LinksOf(c)) =
                           IF candidate[c].status \in {"confirmed", "linked"} THEN 1 ELSE 0
                    /\ \A l \in LinksOf(c) :
                           (l.relation = "created") <=> (candidate[c].status = "confirmed")
                    /\ \A b \in butler : b.candidate = c =>
                           \E l \in LinksOf(c) : l.matter = b.matter /\ l.relation # "updated"
                    /\ Cardinality(ProposalsOf(c)) =
                           Cardinality({l \in LinksOf(c) : l.relation = "updated"})
  BY DEF DecidedOnce, LinksOf, ProposalsOf
<1>1. WasDecided(c)
  BY DEF DecisionsAreSound
<1>2. CASE candidate[c].status \in {"confirmed", "linked"}
  <2>1. PICK l \in links :
            /\ LinksOf(c) = {l}
            /\ (l.relation = "created") <=> (candidate[c].status = "confirmed")
            /\ \A b \in RequestsOf(c) : b.matter = l.matter /\ l.relation # "updated"
            /\ IF l.relation = "updated"
               THEN \E p \in Proposals : ProposalsOf(c) = {p}
               ELSE ProposalsOf(c) = {}
    BY <1>1, <1>2 DEF WasDecided
  <2>2. Cardinality(LinksOf(c)) = 1
    BY <2>1, FS_Singleton
  <2>3. \A b \in butler : b.candidate = c =>
            \E k \in LinksOf(c) : k.matter = b.matter /\ k.relation # "updated"
    BY <2>1 DEF RequestsOf
  <2>4. Cardinality(ProposalsOf(c)) = Cardinality({k \in LinksOf(c) : k.relation = "updated"})
    <3>1. CASE l.relation = "updated"
      <4>1. {k \in LinksOf(c) : k.relation = "updated"} = {l}
        BY <2>1, <3>1
      <4> QED
        BY <2>1, <3>1, <4>1, FS_Singleton
    <3>2. CASE l.relation # "updated"
      <4>1. {k \in LinksOf(c) : k.relation = "updated"} = {}
        BY <2>1, <3>2
      <4> QED
        BY <2>1, <3>2, <4>1
    <3> QED
      BY <3>1, <3>2
  <2> QED
    BY <1>2, <2>1, <2>2, <2>3, <2>4
<1>3. CASE candidate[c].status \notin {"confirmed", "linked"}
  <2>1. LinksOf(c) = {} /\ ProposalsOf(c) = {} /\ RequestsOf(c) = {}
    BY <1>1, <1>3 DEF WasDecided
  <2>2. {l \in LinksOf(c) : l.relation = "updated"} = {}
    BY <2>1
  <2> QED
    BY <1>3, <2>1, <2>2, FS_EmptySet DEF RequestsOf
<1> QED
  BY <1>2, <1>3

\* At first nothing is decided, or every candidate has its one proposal.
LEMMA InitDecisions == WorkInit => DecisionsAreSound
<1> SUFFICES ASSUME WorkInit, NEW c \in Candidates
             PROVE  WasDecided(c) /\ (~(candidate[c].version > 0) => IsPending(candidate[c]))
  BY DEF DecisionsAreSound
<1>1. RequestsOf(c) = {}
  BY DEF WorkInit, RequestsOf
<1>2. CASE Undecided
  <2>1. candidate[c].status = "pending"
    BY <1>2 DEF Undecided
  <2>2. LinksOf(c) = {} /\ ProposalsOf(c) = {}
    BY <1>2 DEF Undecided, LinksOf, ProposalsOf, There
  <2> QED
    BY <1>1, <2>1, <2>2 DEF WasDecided, IsPending
<1>3. CASE AllProposed
  <2> DEFINE l == [candidate |-> c, matter |-> OpenMatter, relation |-> "updated"]
  <2>1. candidate[c].status = "linked" /\ candidate[c].version = 2
    BY <1>3 DEF AllProposed
  <2>2. l \in links /\ LinksOf(c) = {l} /\ l.relation = "updated"
    BY <1>3 DEF AllProposed, LinksOf
  <2>3. \E p \in Proposals : ProposalsOf(c) = {p}
    <3>1. PICK of \in [Proposals -> Candidates], fields \in SUBSET {"scalar", "newWorkItems"} :
              /\ \A d \in Candidates : Cardinality({p \in Proposals : of[p] = d}) = 1
              /\ proposal = [p \in Proposals |->
                     [version |-> 1, candidate |-> of[p], matter |-> OpenMatter,
                      base |-> 1, current |-> 0, fields |-> fields, status |-> "pending"]]
      BY <1>3 DEF AllProposed
    <3>2. ProposalsOf(c) = {p \in Proposals : of[p] = c}
      BY <3>1 DEF ProposalsOf, There
    <3>3. {p \in Proposals : of[p] = c} \in SUBSET Proposals /\ IsFiniteSet(Proposals)
      BY WorkAssumption
    <3>4. IsFiniteSet(ProposalsOf(c)) /\ Cardinality(ProposalsOf(c)) = 1
      BY <3>1, <3>2, <3>3, FS_Subset
    <3>5. PICK p : ProposalsOf(c) = {p}
      BY <3>4, FS_Singleton
    <3> QED
      BY <3>2, <3>5
  <2>4. /\ LinksOf(c) = {l} /\ (l.relation = "created") <=> (candidate[c].status = "confirmed")
        /\ \A b \in RequestsOf(c) : b.matter = l.matter /\ l.relation # "updated"
        /\ IF l.relation = "updated"
           THEN \E p \in Proposals : ProposalsOf(c) = {p}
           ELSE ProposalsOf(c) = {}
    BY <1>1, <2>1, <2>2, <2>3
  <2> HIDE DEF l
  <2> QED
    BY <2>1, <2>2, <2>4 DEF WasDecided
<1> QED
  BY <1>2, <1>3 DEF WorkInit

\* A decision is of a candidate that waits, and so has nothing yet.
LEMMA WaitingHasNothing ==
    ASSUME DecisionsAreSound, NEW c \in Candidates, IsPending(candidate[c])
    PROVE  LinksOf(c) = {} /\ ProposalsOf(c) = {} /\ RequestsOf(c) = {}
  BY DEF DecisionsAreSound, WasDecided, IsPending

\* What a step leaves of a candidate that it does not decide on.
LEMMA DecisionStays ==
    ASSUME DecisionsAreSound, NEW c \in Candidates,
           candidate'[c].status = candidate[c].status
               \/ {candidate[c].status, candidate'[c].status} \cap {"confirmed", "linked"} = {},
           LinksOf(c)' = LinksOf(c), ProposalsOf(c)' = ProposalsOf(c), RequestsOf(c)' = RequestsOf(c)
    PROVE  WasDecided(c)'
<1>1. WasDecided(c)
  BY DEF DecisionsAreSound
<1>2. \A l \in links : LinksOf(c) = {l} => l \in links'
  BY DEF LinksOf
<1>3. candidate'[c].status \in {"confirmed", "linked"} <=> candidate[c].status \in {"confirmed", "linked"}
  OBVIOUS
<1>4. candidate'[c].status \in {"confirmed", "linked"} => candidate'[c].status = candidate[c].status
  OBVIOUS
<1> QED
  BY <1>1, <1>2, <1>3, <1>4 DEF WasDecided

\* The candidate of a decision is one of the rows, and its version goes up.
LEMMA DecidedRow ==
    ASSUME WorkInv, NEW u \in Users, asked[u].op \in {"confirm", "resolve", "propose"},
           NEW s \in {"confirmed", "linked", "dismissed"},
           candidate' = [candidate EXCEPT ![asked[u].row] = [Bump(@) EXCEPT !.status = s]]
    PROVE  /\ asked[u].row \in Candidates
           /\ candidate'[asked[u].row].status = s /\ candidate'[asked[u].row].version > 0
           /\ \A c \in Candidates \ {asked[u].row} : candidate'[c] = candidate[c]
<1>1. asked[u].row \in Candidates
  BY DEF WorkInv, RowsAreThere, Names
<1>2. candidate \in [Candidates -> Candidate]
  BY DEF WorkInv, WorkTypeOK, CandidateRows
<1>3. candidate[asked[u].row] \in Candidate
  BY <1>1, <1>2
<1>4. candidate'[asked[u].row] = [Bump(candidate[asked[u].row]) EXCEPT !.status = s]
  BY <1>1, <1>2
<1>5. candidate'[asked[u].row].status = s
      /\ candidate'[asked[u].row].version = candidate[asked[u].row].version + 1
  BY <1>3, <1>4 DEF Bump, Candidate
<1>6. candidate[asked[u].row].version \in Nat
  BY <1>3 DEF Candidate, Versions
<1> QED
  BY <1>1, <1>2, <1>5, <1>6

\* A confirmation gives the candidate a created matter and its request.
LEMMA ConfirmDecides ==
    ASSUME WorkInv, DecisionsAreSound, NEW u \in Users, ConfirmCreateMatter(u)
    PROVE  DecisionsAreSound'
<1>0. PICK a : a = asked[u].row
  OBVIOUS
<1> DEFINE l == [candidate |-> a, matter |-> Fresh(matter), relation |-> "created"]
           b == [candidate |-> a, matter |-> Fresh(matter), item |-> Fresh(item)]
<1>1. /\ asked[u].op = "confirm" /\ IsPending(candidate[a])
      /\ candidate' = [candidate EXCEPT ![a] = [Bump(@) EXCEPT !.status = "confirmed"]]
      /\ links' = links \cup {l} /\ butler' = butler \cup {b} /\ proposal' = proposal
  BY <1>0 DEF ConfirmCreateMatter, InTx, MayConfirm, MayCreateMatter
<1>2. /\ a \in Candidates /\ candidate'[a].status = "confirmed" /\ candidate'[a].version > 0
      /\ \A c \in Candidates \ {a} : candidate'[c] = candidate[c]
  BY <1>0, <1>1, DecidedRow
<1>3. LinksOf(a) = {} /\ ProposalsOf(a) = {} /\ RequestsOf(a) = {}
  BY <1>1, <1>2, WaitingHasNothing
<1>4. l.candidate = a /\ l.relation = "created" /\ b.candidate = a /\ b.matter = l.matter
  OBVIOUS
<1> HIDE DEF l, b
<1>5. WasDecided(a)'
  <2>1. LinksOf(a)' = {l} /\ ProposalsOf(a)' = {} /\ RequestsOf(a)' = {b}
    BY <1>1, <1>3, <1>4 DEF LinksOf, ProposalsOf, RequestsOf
  <2> QED
    BY <1>1, <1>2, <1>4, <2>1 DEF WasDecided
<1>6. ASSUME NEW c \in Candidates \ {a}
      PROVE  WasDecided(c)' /\ (~(candidate'[c].version > 0) => IsPending(candidate'[c]))
  <2>1. LinksOf(c)' = LinksOf(c) /\ ProposalsOf(c)' = ProposalsOf(c) /\ RequestsOf(c)' = RequestsOf(c)
    BY <1>1, <1>4 DEF LinksOf, ProposalsOf, RequestsOf
  <2> QED
    BY <1>2, <2>1, DecisionStays DEF DecisionsAreSound
<1> QED
  BY <1>2, <1>5, <1>6 DEF DecisionsAreSound

\* A resolution gives it the matter it is linked to, and its request, or nothing.
LEMMA ResolveDecides ==
    ASSUME WorkInv, DecisionsAreSound, NEW u \in Users, Resolve(u)
    PROVE  DecisionsAreSound'
<1>0. PICK a : a = asked[u].row
  OBVIOUS
<1> DEFINE l == [candidate |-> a, matter |-> asked[u].matter, relation |-> "linked"]
           b == [candidate |-> a, matter |-> asked[u].matter, item |-> External]
           s == IF asked[u].matter = External THEN "dismissed" ELSE "linked"
<1>1. /\ asked[u].op = "resolve" /\ IsPending(candidate[a])
      /\ candidate' = [candidate EXCEPT ![a] = [Bump(@) EXCEPT !.status = s]]
      /\ proposal' = proposal
      /\ IF s = "linked" THEN links' = links \cup {l} /\ butler' = butler \cup {b}
                         ELSE links' = links /\ butler' = butler
  BY <1>0 DEF Resolve, InTx, MayResolve
<1>2. s \in {"linked", "dismissed"}
  OBVIOUS
<1> HIDE DEF s
<1>3. /\ a \in Candidates /\ candidate'[a].status = s /\ candidate'[a].version > 0
      /\ \A c \in Candidates \ {a} : candidate'[c] = candidate[c]
  BY <1>0, <1>1, <1>2, DecidedRow
<1>4. LinksOf(a) = {} /\ ProposalsOf(a) = {} /\ RequestsOf(a) = {}
  BY <1>1, <1>3, WaitingHasNothing
<1>5. l.candidate = a /\ l.relation = "linked" /\ b.candidate = a /\ b.matter = l.matter
  OBVIOUS
<1> HIDE DEF l, b
<1>6. ASSUME s = "linked" PROVE WasDecided(a)'
  <2>1. LinksOf(a)' = {l} /\ ProposalsOf(a)' = {} /\ RequestsOf(a)' = {b}
    BY <1>1, <1>4, <1>5, <1>6 DEF LinksOf, ProposalsOf, RequestsOf
  <2> QED
    BY <1>1, <1>3, <1>5, <1>6, <2>1 DEF WasDecided
<1>7. ASSUME s = "dismissed" PROVE WasDecided(a)'
  <2>1. LinksOf(a)' = {} /\ ProposalsOf(a)' = {} /\ RequestsOf(a)' = {}
    BY <1>1, <1>4, <1>7 DEF LinksOf, ProposalsOf, RequestsOf
  <2> QED
    BY <1>3, <1>7, <2>1 DEF WasDecided
<1>8. ASSUME NEW c \in Candidates \ {a}
      PROVE  WasDecided(c)' /\ (~(candidate'[c].version > 0) => IsPending(candidate'[c]))
  <2>1. LinksOf(c)' = LinksOf(c) /\ ProposalsOf(c)' = ProposalsOf(c) /\ RequestsOf(c)' = RequestsOf(c)
    BY <1>1, <1>5 DEF LinksOf, ProposalsOf, RequestsOf
  <2> QED
    BY <1>3, <2>1, DecisionStays DEF DecisionsAreSound
<1>9. WasDecided(a)'
  <2>1. WasDecided(a)' \/ s \notin {"linked", "dismissed"}
    BY <1>6, <1>7
  <2> QED
    BY <1>2, <2>1
<1> QED
  BY <1>3, <1>8, <1>9 DEF DecisionsAreSound

\* A proposal gives it the matter it would change, and no request.
LEMMA ProposeDecides ==
    ASSUME WorkInv, DecisionsAreSound, NEW u \in Users, Propose(u)
    PROVE  DecisionsAreSound'
<1>0. PICK a : a = asked[u].row
  OBVIOUS
<1> DEFINE n == Fresh(proposal)
           l == [candidate |-> a, matter |-> asked[u].matter, relation |-> "updated"]
<1>1. /\ asked[u].op = "propose" /\ IsPending(candidate[a]) /\ HasFresh(proposal)
      /\ candidate' = [candidate EXCEPT ![a] = [Bump(@) EXCEPT !.status = "linked"]]
      /\ links' = links \cup {l} /\ butler' = butler
      /\ \E row : /\ row.version = 1 /\ row.candidate = a
                  /\ proposal' = [proposal EXCEPT ![n] = row]
  BY <1>0 DEF Propose, InTx, MayResolve
<1>2. /\ a \in Candidates /\ candidate'[a].status = "linked" /\ candidate'[a].version > 0
      /\ \A c \in Candidates \ {a} : candidate'[c] = candidate[c]
  BY <1>0, <1>1, DecidedRow
<1>3. LinksOf(a) = {} /\ ProposalsOf(a) = {} /\ RequestsOf(a) = {}
  BY <1>1, <1>2, WaitingHasNothing
<1>4. DOMAIN proposal = Proposals /\ DOMAIN proposal' = Proposals
  BY <1>1 DEF WorkInv, WorkTypeOK, ProposalRows
<1>5. n \in Proposals /\ ~(proposal[n].version > 0)
  BY <1>1, <1>4, FreshRow
<1>6. l.candidate = a /\ l.relation = "updated"
  OBVIOUS
<1>7. /\ proposal'[n].version = 1 /\ proposal'[n].candidate = a
      /\ \A p \in Proposals \ {n} : proposal'[p] = proposal[p]
  BY <1>1, <1>4, <1>5
<1> HIDE DEF l, n
<1>8. WasDecided(a)'
  <2>1. LinksOf(a)' = {l} /\ RequestsOf(a)' = {}
    BY <1>1, <1>3, <1>6 DEF LinksOf, RequestsOf
  <2>2. ProposalsOf(a)' = {n}
    BY <1>3, <1>4, <1>5, <1>7 DEF ProposalsOf, There
  <2> QED
    BY <1>1, <1>2, <1>5, <1>6, <2>1, <2>2 DEF WasDecided
<1>9. ASSUME NEW c \in Candidates \ {a}
      PROVE  WasDecided(c)' /\ (~(candidate'[c].version > 0) => IsPending(candidate'[c]))
  <2>1. LinksOf(c)' = LinksOf(c) /\ RequestsOf(c)' = RequestsOf(c)
    BY <1>1, <1>6 DEF LinksOf, RequestsOf
  <2>2. ProposalsOf(c)' = ProposalsOf(c)
    BY <1>4, <1>5, <1>7 DEF ProposalsOf, There
  <2> QED
    BY <1>2, <2>1, <2>2, DecisionStays DEF DecisionsAreSound
<1> QED
  BY <1>2, <1>8, <1>9 DEF DecisionsAreSound

\* A review changes the status of its proposal, not the candidate it is for.
LEMMA ReviewDecidesNothing ==
    ASSUME WorkInv, DecisionsAreSound, NEW u \in Users, Review(u)
    PROVE  DecisionsAreSound'
<1>0. PICK a : a = asked[u].row
  OBVIOUS
<1>1. /\ asked[u].op = "review"
      /\ proposal' = [proposal EXCEPT ![a] = [Bump(@) EXCEPT !.status = ReviewedStatus(asked[u])]]
      /\ candidate' = candidate /\ links' = links /\ butler' = butler
  BY <1>0 DEF Review, InTx
<1>2. a \in Proposals /\ proposal[a].version > 0
  BY <1>0, <1>1 DEF WorkInv, RowsAreThere, Names
<1>3. proposal \in [Proposals -> Proposal]
  BY DEF WorkInv, WorkTypeOK, ProposalRows
<1>4. /\ proposal'[a].version = proposal[a].version + 1
      /\ proposal'[a].candidate = proposal[a].candidate
      /\ proposal[a].version \in Nat
      /\ \A p \in Proposals \ {a} : proposal'[p] = proposal[p]
      /\ DOMAIN proposal' = Proposals /\ DOMAIN proposal = Proposals
  BY <1>1, <1>2, <1>3 DEF Bump, Proposal, Versions
<1>5. ASSUME NEW c \in Candidates
      PROVE  LinksOf(c)' = LinksOf(c) /\ ProposalsOf(c)' = ProposalsOf(c) /\ RequestsOf(c)' = RequestsOf(c)
  <2>1. ProposalsOf(c)' = ProposalsOf(c)
    BY <1>2, <1>4 DEF ProposalsOf, There
  <2> QED
    BY <1>1, <2>1 DEF LinksOf, RequestsOf
<1> QED
  BY <1>1, <1>5, DecisionStays DEF DecisionsAreSound

\* A new candidate, or a replaced analysis, still waits or is rejected.
LEMMA CandidatesDecideNothing ==
    ASSUME WorkInv, DecisionsAreSound,
           \/ \E u \in Users : CreateCandidate(u)
           \/ \E c \in Candidates : ReplaceAnalysis(c)
    PROVE  DecisionsAreSound'
<1>0. candidate \in [Candidates -> Candidate]
  BY DEF WorkInv, WorkTypeOK, CandidateRows
<1>1. /\ links' = links /\ butler' = butler /\ proposal' = proposal
      /\ \E a \in Candidates :
            /\ IsPending(candidate[a])
            /\ candidate'[a].status \in {"pending", "rejected"} /\ candidate'[a].version > 0
            /\ \A c \in Candidates \ {a} : candidate'[c] = candidate[c]
  <2>1. ASSUME NEW u \in Users, CreateCandidate(u)
        PROVE  \E a \in Candidates :
                  /\ IsPending(candidate[a])
                  /\ candidate'[a].status = "pending" /\ candidate'[a].version > 0
                  /\ \A c \in Candidates \ {a} : candidate'[c] = candidate[c]
    <3>1. Fresh(candidate) \in Candidates /\ ~(candidate[Fresh(candidate)].version > 0)
      BY <1>0, <2>1, FreshRow DEF CreateCandidate
    <3>2. IsPending(candidate[Fresh(candidate)])
      BY <3>1 DEF DecisionsAreSound
    <3> QED
      BY <1>0, <2>1, <3>1, <3>2 DEF CreateCandidate
  <2>2. ASSUME NEW a \in Candidates, ReplaceAnalysis(a)
        PROVE  /\ IsPending(candidate[a])
               /\ candidate'[a].status \in {"pending", "rejected"} /\ candidate'[a].version > 0
               /\ \A c \in Candidates \ {a} : candidate'[c] = candidate[c]
    <3>1. candidate[a] \in Candidate /\ IsPending(candidate[a])
      BY <1>0, <2>2 DEF ReplaceAnalysis
    <3>2. candidate[a].status = "pending" /\ candidate[a].version \in Nat
      BY <3>1 DEF Candidate, Versions, IsPending
    <3>3. \/ \E l \in BOOLEAN :
                candidate' = [candidate EXCEPT ![a] = [Bump(@) EXCEPT !.legal = l]]
          \/ candidate' = [candidate EXCEPT ![a] = [Bump(@) EXCEPT !.status = "rejected"]]
      BY <2>2 DEF ReplaceAnalysis
    <3>4. \A c \in Candidates \ {a} : candidate'[c] = candidate[c]
      BY <1>0, <3>3
    <3>5. \/ \E l \in BOOLEAN : candidate'[a] = [Bump(candidate[a]) EXCEPT !.legal = l]
          \/ candidate'[a] = [Bump(candidate[a]) EXCEPT !.status = "rejected"]
      BY <1>0, <3>3
    <3>6. /\ candidate'[a].status \in {"pending", "rejected"}
          /\ candidate'[a].version = candidate[a].version + 1
      BY <3>1, <3>2, <3>5 DEF Bump, Candidate
    <3>7. candidate'[a].version > 0
      BY <3>2, <3>6
    <3> QED
      BY <3>1, <3>4, <3>6, <3>7
  <2> QED
    BY <2>1, <2>2 DEF CreateCandidate, ReplaceAnalysis
<1>2. PICK a \in Candidates :
          /\ IsPending(candidate[a])
          /\ candidate'[a].status \in {"pending", "rejected"} /\ candidate'[a].version > 0
          /\ \A c \in Candidates \ {a} : candidate'[c] = candidate[c]
  BY <1>1
<1>3. ASSUME NEW c \in Candidates
      PROVE  LinksOf(c)' = LinksOf(c) /\ ProposalsOf(c)' = ProposalsOf(c) /\ RequestsOf(c)' = RequestsOf(c)
  BY <1>1 DEF LinksOf, ProposalsOf, RequestsOf
<1>4. WasDecided(a)'
  BY <1>2, <1>3, DecisionStays DEF IsPending
<1>5. \A c \in Candidates \ {a} : WasDecided(c)'
  BY <1>2, <1>3, DecisionStays
<1> QED
  BY <1>2, <1>4, <1>5 DEF DecisionsAreSound

\* The commands of items and matters, and all that is not a commit, leave the
\* candidates and what was decided on them.
LEMMA StepDecisions == ASSUME WorkInv, DecisionsAreSound, [WorkNext]_workVars PROVE DecisionsAreSound'
<1>1. CASE UNCHANGED <<candidate, proposal, links, butler>>
  BY <1>1 DEF DecisionsAreSound, WasDecided, LinksOf, ProposalsOf, RequestsOf, There
<1>2. ASSUME NEW u \in Users,
             \/ Ask(u) \/ Begin(u) \/ Replay(u) \/ RollBack(u) \/ GiveUp(u) \/ Refuse(u)
             \/ AddWorkItem(u) \/ CreateDeadline(u) \/ ApplyAction(u) \/ ConfirmPriority(u)
             \/ CreateDependency(u) \/ ResolveDependency(u)
      PROVE  UNCHANGED <<candidate, proposal, links, butler>>
  BY <1>2 DEF Ask, Begin, Replay, RollBack, GiveUp, Refuse, AddWorkItem, CreateDeadline,
              ApplyAction, ConfirmPriority, CreateDependency, ResolveDependency, rowVars
<1>3. CASE UNCHANGED workVars
  BY <1>1, <1>3 DEF workVars, rowVars
<1> QED
  BY <1>1, <1>2, <1>3, ConfirmDecides, ResolveDecides, ProposeDecides, ReviewDecidesNothing,
     CandidatesDecideNothing DEF WorkNext

\* A candidate is decided once, whatever two users and repeated requests do: it
\* has one link, and one proposal or one request to plan the work
\* (domain/candidates.py:101, :133; handlers.py:340, :509).
THEOREM CandidatesAreDecidedOnce == WorkSpec => []DecidedOnce
<1>1. WorkInit => WorkInv /\ DecisionsAreSound
  BY Initially, InitDecisions
<1>2. WorkInv /\ DecisionsAreSound /\ [WorkNext]_workVars => (WorkInv /\ DecisionsAreSound)'
  BY InvStep, StepDecisions
<1> QED
  BY <1>1, <1>2, DecisionsAreCounted, PTL DEF WorkSpec
=============================================================================
