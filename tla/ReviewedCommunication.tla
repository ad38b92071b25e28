------------------------ MODULE ReviewedCommunication ------------------------
(***************************************************************************)
(* The review gate (application/review_handlers.py, domain/reviews.py) in  *)
(* front of the outbox: a package is created, submitted and reviewed, and  *)
(* a communication with the approved content is queued, whose event        *)
(* OutboxDelivery then dispatches.                                         *)
(*                                                                         *)
(* A request quotes the version of the package it saw and an idempotency   *)
(* key.  One that quotes another version, or repeats a key, changes        *)
(* nothing and is no step here.  A content stands for its hash.            *)
(***************************************************************************)
EXTENDS OutboxDelivery

CONSTANTS
    Packages,      \* ids of review packages
    Contents,      \* message texts
    NoContent,     \* no text
    Matters,       \* ids of legal matters
    MatterOf,      \* the matter a package belongs to
    WorkStatuses   \* the MatterWorkStatus values a proposal may set

ReviewEvents ==
    {"ReviewPackageCreated", "ReviewPackageReviewed", "MatterUpdateProposalReviewed"}

ASSUME ReviewAssumption ==
    /\ NoContent \notin Contents
    /\ MatterOf \in [Packages -> Matters]
    /\ ReviewEvents \subseteq Types

VARIABLES
    package,    \* package[p]: the row p of review_packages
    approval,   \* approval[p]: the latest ReviewRecord that approves p
    mail,       \* mail[c]: what the communication c was created from
    workStatus  \* workStatus[m]: LegalMatter.work_status

reviewVars == <<package, approval, mail, workStatus>>

allVars == <<vars, reviewVars>>

-----------------------------------------------------------------------------
PackageStatus ==
    {"absent", "draft", "pending_review", "approved", "rejected",
     "needs_information"}

Text == Contents \cup {NoContent}

Package == [status : PackageStatus, proposed : Text, approvedHash : Text]

\* n counts the approving records of a package and so names the latest.
Approval == [n : Nat, content : Text]

NoPackage ==
    [status |-> "absent", proposed |-> NoContent, approvedHash |-> NoContent]

NoApproval == [n |-> 0, content |-> NoContent]

NoMail == <<>>

Mail == [package : Packages, n : Nat, content : Contents]

-----------------------------------------------------------------------------
ReviewInit ==
    /\ Init
    /\ package = [p \in Packages |-> NoPackage]
    /\ approval = [p \in Packages |-> NoApproval]
    /\ mail = [c \in Comms |-> NoMail]
    /\ workStatus = [m \in Matters |-> "ready"]

NewPackage(x, status) ==
    [status |-> status, proposed |-> x, approvedHash |-> NoContent]

\* CreateReviewPackageHandler, with submitForReview or without.
CreateReviewPackage(p, x, e) ==
    /\ package[p].status = "absent"
    /\ \E status \in {"draft", "pending_review"} :
          package' = [package EXCEPT ![p] = NewPackage(x, status)]
    /\ AddEvent(e, "ReviewPackageCreated")
    /\ UNCHANGED <<approval, mail, workStatus>>

\* The synthesis of a legal analysis creates its package submitted, with no event.
SynthesiseReviewPackage(p, x) ==
    /\ package[p].status = "absent"
    /\ package' = [package EXCEPT ![p] = NewPackage(x, "pending_review")]
    /\ UNCHANGED <<approval, mail, workStatus, vars>>

SubmitReviewPackage(p) ==
    /\ package[p].status = "draft"
    /\ package' = [package EXCEPT ![p].status = "pending_review"]
    /\ UNCHANGED <<approval, mail, workStatus, vars>>

\* Mutant: a package may be reviewed again after it was decided.
ReviewableMut(p) == package[p].status \in {"pending_review", "approved"}

Reviewable(p) == package[p].status = "pending_review"

\* Mutant: the reviewer's text is recorded as it came, empty when unchanged.
ApprovedContentMut(p, final) == final

\* The text of an approval: the reviewer's, or else the proposed one.
ApprovedContent(p, final) ==
    IF final = NoContent THEN package[p].proposed ELSE final

\* ReviewPackageHandler with an approving decision.
ApprovePackage(p, final, e) ==
    LET x == ApprovedContent(p, final)
    IN  /\ Reviewable(p)
        /\ package' = [package EXCEPT ![p].status = "approved",
                                      ![p].approvedHash = x]
        /\ approval' = [approval EXCEPT ![p] =
                          [n |-> approval[p].n + 1, content |-> x]]
        /\ AddEvent(e, "ReviewPackageReviewed")
        /\ UNCHANGED <<mail, workStatus>>

\* ReviewPackageHandler with another decision: the record approves nothing.
DeclinePackage(p, e) ==
    /\ Reviewable(p)
    /\ \E status \in {"rejected", "needs_information"} :
          package' = [package EXCEPT ![p].status = status]
    /\ AddEvent(e, "ReviewPackageReviewed")
    /\ UNCHANGED <<approval, mail, workStatus>>

\* Mutant: every request queues a communication.
AlreadyQueuedMut(p) == FALSE

\* A communication exists for the latest approval of p.
AlreadyQueued(p) ==
    \E c \in Comms : /\ comm[c] # "absent"
                     /\ mail[c].package = p /\ mail[c].n = approval[p].n

\* Mutant: the text is taken from the package.
QueuedContentMut(p) == package[p].proposed

\* create_from_approved_review: the text of the record, whose hash must be the
\* one the package was approved with.
QueuedContent(p) == approval[p].content

\* QueueCommunicationHandler; a second request for the same approval answers
\* with the communication that exists.
QueueApproved(p, c, e) ==
    /\ approval[p].n > 0
    /\ ~AlreadyQueued(p)
    /\ package[p].status = "approved"
    /\ package[p].approvedHash = approval[p].content
    /\ mail' = [mail EXCEPT ![c] =
                  [package |-> p, n |-> approval[p].n, content |-> QueuedContent(p)]]
    /\ QueueCommunication(c, e)
    /\ UNCHANGED <<package, approval, workStatus>>

\* ReviewMatterUpdateProposalHandler, as far as it reaches this state: an
\* approved proposal sets the status of the matter.
ReviewMatterUpdate(m, status, e) ==
    /\ workStatus' = [workStatus EXCEPT ![m] = status]
    /\ AddEvent(e, "MatterUpdateProposalReviewed")
    /\ UNCHANGED <<package, approval, mail>>

Review ==
    \/ \E p \in Packages, x \in Contents, e \in Events : CreateReviewPackage(p, x, e)
    \/ \E p \in Packages, x \in Contents : SynthesiseReviewPackage(p, x)
    \/ \E p \in Packages : SubmitReviewPackage(p)
    \/ \E p \in Packages, final \in Text, e \in Events : ApprovePackage(p, final, e)
    \/ \E p \in Packages, e \in Events : DeclinePackage(p, e)
    \/ \E p \in Packages, c \in Comms, e \in Events : QueueApproved(p, c, e)
    \/ \E m \in Matters, status \in WorkStatuses, e \in Events :
          ReviewMatterUpdate(m, status, e)

ReviewNext == Review \/ (Dispatch /\ UNCHANGED reviewVars)

ReviewSpec == ReviewInit /\ [][ReviewNext]_allVars

-----------------------------------------------------------------------------
\* The tables of the review gate have their types.
ReviewTypeOK ==
    /\ package \in [Packages -> Package]
    /\ approval \in [Packages -> Approval]
    /\ mail \in [Comms -> Mail \cup {NoMail}]
    /\ workStatus \in [Matters -> WorkStatuses \cup {"ready"}]

\* What Feishu has accepted, by package and content.
Delivered == {<<mail[c].package, mail[c].content>> : c \in accepted}

Promise == INSTANCE ApprovedDelivery
             WITH approved <- [p \in Packages |-> approval[p].content],
                  delivered <- Delivered

\* The review gate and the outbox behind it keep the promise: only the content a
\* person approved is delivered, through refusals, lost answers, stops and
\* requeued dead letters.
KeepsThePromise == Promise!Spec

\* An approved package is delivered by one communication, however often its
\* sending is asked for, retried or requeued.
OneDeliveryPerApproval ==
    \A c, d \in accepted : mail[c].package = mail[d].package => c = d
=============================================================================
