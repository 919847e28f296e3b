----------------------------- MODULE GitHubTasks -----------------------------
(***************************************************************************)
(* GitHub automation: from a webhook delivery to a pushed branch.           *)
(*   modules/github/service.py      handle_webhook, submission, publication  *)
(*   modules/github/repository.py   deliveries seen, claims of issues        *)
(*   modules/github/workspace.py    worktrees, pushes, backups, pruning      *)
(* Deliveries are about one issue and one pull request of a repository, the   *)
(* backend is local.  A delivery stands for its handler and for the background *)
(* task it becomes.                                                         *)
(*                                                                          *)
(* The files of a worktree are the number of the last write.  A commit is the *)
(* delivery it was made for, a branch the set of commits it holds; only the   *)
(* branch of the pull request is followed, since the branch of an issue task *)
(* has the delivery in its name, and a backup branch the task: no one else    *)
(* writes them.  The agent does not commit (github-automation-policy.md).    *)
(***************************************************************************)
EXTENDS Integers, FiniteSets

CONSTANTS
    Deliveries, \* X-GitHub-Delivery
    User,       \* the author of the pull request
    TaskTimeout, MaxRetries, \* DEFAULT_TASK_TIMEOUT in ticks, DEFAULT_MAX_RETRIES
    MaxWrites,  \* bound: writes of an agent
    MaxTroubles \* bound: failing calls, cancellations and restarts

Events == {"issues",                       \* opened, labeled: about the one issue
           "issue_comment",                \* the same issue, or another one
           "pull_request_review_comment"}  \* about the one pull request

ASSUME GitHubAssumption ==
    /\ {TaskTimeout, MaxRetries, MaxWrites, MaxTroubles} \subseteq Nat
    /\ User \notin Deliveries /\ "nobody" \notin Deliveries

TTLOfOneAttempt == TaskTimeout      \* mutant of ISSUE_TASK_CLAIM_TTL: forgets the retries
ISSUE_TASK_CLAIM_TTL == TaskTimeout * (MaxRetries + 1)

VARIABLES
    event,     \* event[d]: what the delivery is
    pc,        \* pc[d]: where the handler of a delivery, then its task, is
    seen,      \* github_webhook_deliveries
    claim,     \* github_issue_task_claims: whose it is, and its age
    attempt,   \* attempt[d]: the attempt the task is in, and the time it has run
    tree,      \* tree[d]: the worktree: whether it exists, and its files
    row,       \* row[d]: its ProjectWorkspace: registered, revision saved, status
    remote,    \* the commits of the pull request at GitHub
    tracking,  \* its remote-tracking branch in the clone all worktrees share
    base,      \* base[d]: the commits a worktree of the pull request was made from
    slow,      \* time has passed outside an agent's attempt
    spent      \* bound: troubles so far

files == <<tree, row>>
git   == <<remote, tracking, base>>
hooks == <<seen, claim>>
vars  == <<event, pc, hooks, attempt, files, git, slow, spent>>

Nobody   == "nobody"
Handling == {"seen", "accepted", "prepared", "undo", "raising"}
Running  == {"agent", "written"}
Hooks    == {"publish", "push", "cleanup", "discard"}
Active   == Handling \cup {"start"} \cup Running \cup Hooks

Fault == spent < MaxTroubles /\ spent' = spent + 1
Works == UNCHANGED spent

Issue(d)  == event[d] = "issues"
Review(d) == event[d] = "pull_request_review_comment"

Goto(d, place) == pc' = [pc EXCEPT ![d] = place]

Init ==
    /\ event \in [Deliveries -> Events]
    /\ pc = [d \in Deliveries |-> "none"]
    /\ seen = {} /\ claim = [of |-> Nobody, age |-> 0]
    /\ attempt = [d \in Deliveries |-> [number |-> 0, clock |-> 0]]
    /\ tree = [d \in Deliveries |-> [there |-> FALSE, files |-> 0]]
    /\ row = [d \in Deliveries |-> [bound |-> FALSE, saved |-> -1, status |-> "dirty"]]
    /\ remote = {} /\ tracking = {}
    /\ base = [d \in Deliveries |-> {}]
    /\ slow = FALSE /\ spent = 0

-----------------------------------------------------------------------------
(* handle_webhook() *)

(* mark_delivery_seen(): a redelivery stops here, whatever became of the first. *)
Deliver(d) ==
    /\ d \notin seen /\ pc[d] = "none"
    /\ seen' = seen \cup {d}
    /\ Goto(d, "seen")
    /\ UNCHANGED <<claim, attempt, files, git, slow, spent>>

(* try_claim_issue_task(): takes over a claim that is older than the TTL. *)
Claim(d) ==
    /\ pc[d] = "seen" /\ Issue(d)
    /\ IF claim.of = Nobody \/ claim.age > ISSUE_TASK_CLAIM_TTL
       THEN claim' = [of |-> d, age |-> 0] /\ Goto(d, "accepted")
       ELSE Goto(d, "over") /\ UNCHANGED claim
    /\ UNCHANGED <<seen, attempt, files, git, slow, spent>>

Accept(d) ==
    /\ pc[d] = "seen" /\ ~Issue(d)
    /\ Goto(d, "accepted")
    /\ UNCHANGED <<hooks, attempt, files, git, slow, spent>>

(* prepare(), prepare_existing_branch(): fetch and a detached worktree, under the lock. *)
Prepare(d) ==
    /\ pc[d] = "accepted"
    /\ \/ /\ Works /\ Goto(d, "prepared")
          /\ tracking' = remote
          /\ base' = [base EXCEPT ![d] = IF Review(d) THEN remote ELSE {}]
          /\ tree' = [tree EXCEPT ![d] = [there |-> TRUE, files |-> 0]]
       \/ /\ Fault /\ Goto(d, "raising")
          /\ tracking' \in {tracking, remote}
          /\ UNCHANGED <<base, tree>>
    /\ UNCHANGED <<hooks, attempt, row, remote, slow>>

Bound(d) == row' = [row EXCEPT ![d].bound = TRUE]

(* manager.submit(): registers the workspace (a failure of that is only logged). *)
Submit(d) ==
    /\ pc[d] = "prepared"
    /\ \/ Works /\ Bound(d) /\ Goto(d, "start")
       \/ Fault /\ UNCHANGED row /\ Goto(d, "start")
       \/ Fault /\ (Bound(d) \/ UNCHANGED row) /\ Goto(d, "undo")
    /\ UNCHANGED <<hooks, attempt, tree, git, slow>>

Removed(d) == tree' = [tree EXCEPT ![d].there = FALSE]

(* _discard_local_worktree() only logs that it failed. *)
Undo(d) ==
    /\ pc[d] = "undo"
    /\ Goto(d, "raising")
    /\ \/ Works /\ Removed(d)
       \/ Fault /\ UNCHANGED tree
    /\ UNCHANGED <<hooks, attempt, row, git, slow>>

(* release_issue_task_claim() *)
ReleaseClaim(d) ==
    /\ pc[d] = "raising"
    /\ \/ /\ Works /\ Goto(d, "over")
          /\ claim' = IF Issue(d) THEN [of |-> Nobody, age |-> 0] ELSE claim
       \/ Fault /\ Goto(d, "over") /\ UNCHANGED claim
    /\ UNCHANGED <<seen, attempt, files, git, slow>>

-----------------------------------------------------------------------------
(* The task: attempts of the agent, its tools, and what others save. *)

Saved(d)     == row' = [row EXCEPT ![d].saved = tree[d].files, ![d].status = "clean"]
SavingFails(d) == row' = [row EXCEPT ![d].status = "error"]

(* An attempt begins with an upsert, which registers the workspace if need be. *)
Start(d) ==
    /\ pc[d] = "start"
    /\ Goto(d, "agent")
    /\ \/ Works /\ Bound(d)
       \/ Fault /\ UNCHANGED row
    /\ UNCHANGED <<hooks, attempt, tree, git, slow>>

(* _checkpoint() of the run's ensure(), of the periodic save, of a user's request. *)
Save(d) ==
    /\ row[d].bound /\ tree[d].there /\ row[d].status # "clean"
    /\ \/ Works /\ Saved(d)
       \/ Fault /\ SavingFails(d)
    /\ UNCHANGED <<pc, hooks, attempt, tree, git, slow>>

(* mutation(): marks the workspace dirty before the tool writes. *)
Write(d) ==
    /\ pc[d] = "agent" /\ tree[d].files < MaxWrites
    /\ tree' = [tree EXCEPT ![d].files = @ + 1]
    /\ IF row[d].bound
       THEN /\ row[d].saved # -1 /\ row[d].status # "error"
            /\ row' = [row EXCEPT ![d].status = "dirty"]
            /\ Goto(d, "written")
       ELSE UNCHANGED <<row, pc>>
    /\ UNCHANGED <<hooks, attempt, git, slow, spent>>

Persist(d) ==
    /\ pc[d] = "written"
    /\ Goto(d, "agent")
    /\ \/ Works /\ Saved(d)
       \/ Fault /\ SavingFails(d)
    /\ UNCHANGED <<hooks, attempt, tree, git, slow>>

Ends(d, place) == Goto(d, place) /\ attempt' = [attempt EXCEPT ![d] = [number |-> 0, clock |-> 0]]

AgentReturns(d) ==
    /\ pc[d] = "agent"
    /\ Ends(d, "publish")
    /\ UNCHANGED <<hooks, files, git, slow, spent>>

(* An error or the timeout ends the attempt; the worktree is kept for the next. *)
AttemptFails(d) ==
    /\ pc[d] = "agent"
    /\ IF attempt[d].number < MaxRetries
       THEN /\ attempt' = [attempt EXCEPT ![d] = [number |-> @.number + 1, clock |-> 0]]
            /\ Goto(d, "start")
       ELSE Ends(d, "cleanup")
    /\ UNCHANGED <<hooks, files, git, slow, spent>>

-----------------------------------------------------------------------------
(* publish_task_result(), the completion hook: it never raises. *)

(* ensure(), the token, has_changes(). *)
Publish(d) ==
    /\ pc[d] = "publish"
    /\ \/ /\ IF row[d].bound /\ row[d].status = "dirty" THEN Saved(d) ELSE UNCHANGED row
          /\ Works /\ Goto(d, IF tree[d].files > 0 THEN "push" ELSE "cleanup")
       \/ /\ IF row[d].bound /\ row[d].status = "dirty"
             THEN SavingFails(d) \/ Saved(d) ELSE UNCHANGED row
          /\ Fault /\ Goto(d, "cleanup")
    /\ UNCHANGED <<hooks, attempt, tree, git, slow>>

(* What a push of HEAD leaves on the branch. *)
Pushed(d) == remote' = base[d] \cup {d}
Known(d)  == tracking' = base[d] \cup {d}

PushForced(d) ==                \* mutant of Push: --force
    /\ pc[d] = "push"
    /\ Goto(d, "cleanup") /\ Works
    /\ IF Review(d) THEN Pushed(d) /\ Known(d) ELSE UNCHANGED <<remote, tracking>>
    /\ UNCHANGED <<hooks, attempt, files, base, slow>>

(* commit_all(), push_branch(), and after a failure preserve_worktree_changes(). *)
(* --force-with-lease without a value compares with the tracking branch of the *)
(* clone, which any fetch or push of another task has moved.                   *)
Push(d) ==
    /\ pc[d] = "push"
    /\ Goto(d, "cleanup")
    /\ \/ /\ Review(d) /\ remote = tracking
          /\ Pushed(d)
          /\ (Works /\ Known(d)) \/ (Fault /\ UNCHANGED tracking)   \* the answer may be lost
       \/ Review(d) /\ remote # tracking /\ Works /\ UNCHANGED <<remote, tracking>>
       \/ ~Review(d) /\ Works /\ UNCHANGED <<remote, tracking>>
       \/ Fault /\ UNCHANGED <<remote, tracking>>
    /\ UNCHANGED <<hooks, attempt, files, base, slow>>

-----------------------------------------------------------------------------
(* The cleanup hook, after the last attempt. *)

CleanUp(d) ==
    /\ pc[d] = "cleanup"
    /\ \/ /\ Works /\ Goto(d, "discard")
          /\ IF row[d].bound THEN Saved(d) ELSE UNCHANGED row
       \/ /\ Fault /\ Goto(d, "over")                \* the worktree stays
          /\ (row[d].bound /\ SavingFails(d)) \/ UNCHANGED row
    /\ UNCHANGED <<hooks, attempt, tree, git, slow>>

Discard(d) ==
    /\ pc[d] = "discard"
    /\ Goto(d, "over")
    /\ \/ Works /\ Removed(d)
       \/ Fault /\ UNCHANGED tree
    /\ UNCHANGED <<hooks, attempt, row, git, slow>>

(* cancel(): the attempt is interrupted wherever it waits; the cleanup hook     *)
(* follows, unless the interruption hits the start of an attempt or that hook.  *)
Cancel(d) ==
    /\ Fault
    /\ \/ /\ pc[d] \in {"agent", "publish"}
          /\ UNCHANGED <<tree, row, remote>> /\ Ends(d, "cleanup")
       \/ /\ pc[d] = "push" /\ Ends(d, "cleanup")
          /\ (Review(d) /\ remote = tracking /\ Pushed(d)) \/ UNCHANGED remote
          /\ UNCHANGED <<tree, row>>
       \/ /\ pc[d] = "start" /\ Ends(d, "over")
          /\ UNCHANGED <<tree, row, remote>>
       \/ /\ pc[d] = "cleanup" /\ Ends(d, "over")
          /\ (row[d].bound /\ SavingFails(d)) \/ UNCHANGED row
          /\ UNCHANGED <<tree, remote>>
       \/ /\ pc[d] = "discard" /\ Ends(d, "over")
          /\ Removed(d) \/ UNCHANGED tree
          /\ UNCHANGED <<row, remote>>
    /\ UNCHANGED <<hooks, tracking, base, slow>>

-----------------------------------------------------------------------------
(* The rest of the world. *)

(* preserved_local_paths() *)
PreservedUnlessClean(d) ==      \* mutant of Preserved: forgets that a checkpoint may have failed
    row[d].bound /\ (row[d].saved = -1 \/ row[d].status = "dirty")

Preserved(d) == row[d].bound /\ (row[d].saved = -1 \/ row[d].status # "clean")

(* A restart: handlers and tasks are gone (restored tasks fail), and           *)
(* prune_orphaned_worktrees() removes what it can before anything is served.   *)
Restart ==
    /\ Fault
    /\ pc' = [d \in Deliveries |-> IF pc[d] \in Active THEN "over" ELSE pc[d]]
    /\ attempt' = [d \in Deliveries |-> [number |-> 0, clock |-> 0]]
    /\ \E left \in SUBSET {d \in Deliveries : tree[d].there} :
         /\ {d \in Deliveries : tree[d].there /\ Preserved(d)} \subseteq left
         /\ tree' = [d \in Deliveries |-> [tree[d] EXCEPT !.there = d \in left]]
    /\ UNCHANGED <<hooks, row, git, slow>>

(* The author of the pull request pushes to it. *)
UserPushes ==
    /\ User \notin remote
    /\ remote' = remote \cup {User}
    /\ UNCHANGED <<pc, hooks, attempt, files, tracking, base, slow, spent>>

(* Time, as far as claims see it: an attempt does not outlive its timeout.     *)
Working(d) == pc[d] \in Running
Overhead   == \E d \in Deliveries : Issue(d) /\ pc[d] \in Active \ ({"seen"} \cup Running)

Tick ==
    /\ claim.of # Nobody /\ claim.age <= ISSUE_TASK_CLAIM_TTL
    /\ \A d \in Deliveries : Issue(d) /\ Working(d) => attempt[d].clock < TaskTimeout
    /\ claim' = [claim EXCEPT !.age = @ + 1]
    /\ attempt' = [d \in Deliveries |-> IF Issue(d) /\ Working(d)
                                        THEN [attempt[d] EXCEPT !.clock = @ + 1] ELSE attempt[d]]
    /\ slow' = (slow \/ Overhead)
    /\ UNCHANGED <<pc, seen, files, git, spent>>

Handle(d) == \/ Deliver(d) \/ Claim(d) \/ Accept(d) \/ Prepare(d) \/ Submit(d) \/ Undo(d) \/ ReleaseClaim(d)
Run(d)    == \/ Start(d) \/ Save(d) \/ Write(d) \/ Persist(d) \/ AgentReturns(d) \/ AttemptFails(d)
             \/ Publish(d) \/ Push(d) \/ CleanUp(d) \/ Discard(d) \/ Cancel(d)

Next ==
    /\ \/ \E d \in Deliveries : Handle(d) \/ Run(d)
       \/ Restart \/ UserPushes \/ Tick
    /\ UNCHANGED event

Spec == Init /\ [][Next]_vars

-----------------------------------------------------------------------------
Trees    == [there : BOOLEAN, files : Nat]
Rows     == [bound : BOOLEAN, saved : Nat \cup {-1}, status : {"dirty", "clean", "error"}]
Attempts == [number : 0..MaxRetries, clock : Nat]
Places   == {"none", "over"} \cup Active

(* Every variable keeps its type. *)
TypeOK ==
    /\ event \in [Deliveries -> Events]
    /\ pc \in [Deliveries -> Places]
    /\ seen \subseteq Deliveries
    /\ claim \in [of : Deliveries \cup {Nobody}, age : Nat]
    /\ attempt \in [Deliveries -> Attempts]
    /\ tree \in [Deliveries -> Trees]
    /\ row \in [Deliveries -> Rows]
    /\ {remote, tracking} \subseteq SUBSET (Deliveries \cup {User})
    /\ base \in [Deliveries -> SUBSET (Deliveries \cup {User})]
    /\ slow \in BOOLEAN /\ spent \in Nat

(* What the files rest on: a clean workspace is saved, an unregistered one is   *)
(* not clean, and the worktree is there until the checkpoint of the cleanup.   *)
FilesInv ==
    \A d \in Deliveries :
        /\ row[d].bound /\ (row[d].status = "clean" \/ pc[d] = "discard" \/ ~tree[d].there)
              => row[d].saved = tree[d].files \/ tree[d].files = 0
        /\ ~row[d].bound => row[d].status = "dirty" /\ pc[d] # "written"
        /\ pc[d] \in {"none", "seen", "accepted", "prepared", "undo"} => tree[d].files = 0
        /\ pc[d] \in {"none", "seen", "accepted", "prepared"} => ~row[d].bound
        /\ pc[d] \in {"prepared", "start", "agent", "written"} => tree[d].there

(* What the claim rests on: the task under way holds it, and it is as old as    *)
(* the attempts so far.                                                        *)
ClaimInv ==
    /\ \A d \in Deliveries :
          /\ attempt[d].clock <= TaskTimeout
          /\ pc[d] \notin Running => attempt[d].clock = 0
          /\ pc[d] \notin Running \cup {"start"} => attempt[d].number = 0
    /\ ~slow => \A d \in Deliveries : Issue(d) =>
          /\ pc[d] \in Active \ {"seen"} => claim.of = d /\ claim.age <= ISSUE_TASK_CLAIM_TTL
          /\ pc[d] \in Handling \ {"seen"} => claim.age = 0
          /\ pc[d] \in Running \cup {"start"} =>
                claim.age <= attempt[d].number * TaskTimeout + attempt[d].clock

IInv == TypeOK /\ FilesInv /\ ClaimInv

(* What an agent wrote into a registered workspace is in its worktree, or in a *)
(* revision of the project: whatever failed, was cancelled or restarted, neither *)
(* the cleanup hook nor the pruning at startup takes the only copy.            *)
WorkIsKept ==
    \A d \in Deliveries : row[d].bound /\ tree[d].files > 0 /\ ~tree[d].there => row[d].saved = tree[d].files

(* "a re-trigger cannot start a second agent for a still-running issue"        *)
(* (service.py): the TTL covers the attempts with all their retries.  Time that *)
(* passes in preparation and publication is not covered, hence slow.           *)
ClaimOutlivesAgents ==
    ~slow => \A d, e \in Deliveries :
        Issue(d) /\ Issue(e) /\ {pc[d], pc[e]} \subseteq Active \ {"seen"} => d = e

(* The lease: a push drops somebody else's commit only if the clone has learned *)
(* of it since the worktree was made, from the fetch or push of another task.   *)
LeaseProtects ==
    [][remote \subseteq remote' \/ \E d \in Deliveries : pc[d] = "push" /\ Review(d) /\ base[d] # tracking]_vars
=============================================================================
