------------------------------ MODULE Dashboard ------------------------------
(***************************************************************************)
(* The dashboard (src/dashboard/src/App.jsx) over the HTTP API             *)
(* (src/src/rewind/api.py): one browser that watches a run and rewinds it, *)
(* while agents, tickers and other operators change the store.             *)
(*                                                                         *)
(* A poll is one GET of the tree.  The server answers it with one query    *)
(* per table and no transaction around them, the browser sends the next    *)
(* poll without waiting, so answers overlap, overtake each other and get   *)
(* lost.  Checkpoints are never changed: of those a tree needs the number. *)
(***************************************************************************)
EXTENDS RewindStore

CONSTANTS
    Polls,          \* polls that may be under way at once
    NoTree,         \* tree = null
    NoPlan          \* rewindPlan = null

VARIABLES
    polls,          \* polls[q]: [done, tree], the queries the server has run
    tree,           \* what the browser shows
    plan,           \* the open confirmation dialog: [target, branch, shown, counted]
    post            \* the POST of a rewind: [pc, branch, plan]

browserVars == <<polls, tree, plan, post>>
dashboardVars == <<storeVars, browserVars>>

Blank == [branches |-> <<>>, checkpoints |-> 0, effects |-> <<>>]
NoPost == [pc |-> "none", branch |-> NULL, plan |-> NoPlan]

Trees == [branches : Seq([run : 1 .. runs, status : {"active", "abandoned"},
                          head : CheckpointIds, fork : CheckpointIds \cup {NULL},
                          of : Nat]),
          checkpoints : 0 .. Len(checkpoints), effects : Seq(Effects)]
Plans == [target : CheckpointIds, branch : BranchIds,
          shown : SUBSET EffectIds, counted : SUBSET EffectIds]

DashboardTypeOK ==
    /\ TypeOK
    /\ polls \in [Polls -> [done : 0 .. 3, tree : Trees]]
    /\ tree \in Trees \cup {NoTree}
    /\ plan \in Plans \cup {NoPlan}
    /\ post \in [pc : {"none", "sent", "done"}, branch : BranchIds \cup {NULL},
                 plan : Plans \cup {NoPlan}]

-----------------------------------------------------------------------------
(* GET /api/runs/{run_id}/tree.                                            *)

(* Mutant: the checkpoints are listed before the branches.                 *)
Queries_CheckpointsFirst == <<"checkpoints", "branches", "effects">>

(* The order in which store.get_tree lists the rows of the run.            *)
Queries == <<"branches", "checkpoints", "effects">>

Table == [branches |-> branches, checkpoints |-> Len(checkpoints), effects |-> staged_effects]

Answered(q) == polls[q].done = Len(Queries)

(* The next query of a poll; the first one is as good as its start.        *)
get_tree(q) ==
    /\ runs > 0 /\ ~Answered(q)
    /\ LET what == Queries[polls[q].done + 1]
       IN  polls' = [polls EXCEPT ![q].done = @ + 1, ![q].tree[what] = Table[what]]
    /\ UNCHANGED <<storeVars, tree, plan, post>>

(* Mutant: the first answer is shown for good.                             *)
ShowTree_Once(q) ==
    /\ Answered(q)
    /\ tree' = IF tree = NoTree THEN polls[q].tree ELSE tree
    /\ polls' = [polls EXCEPT ![q] = [done |-> 0, tree |-> Blank]]
    /\ UNCHANGED <<storeVars, plan, post>>

(* setTree, with whichever answer comes.                                   *)
ShowTree(q) ==
    /\ Answered(q)
    /\ tree' = polls[q].tree
    /\ polls' = [polls EXCEPT ![q] = [done |-> 0, tree |-> Blank]]
    /\ UNCHANGED <<storeVars, plan, post>>

(* "transient poll failure"; the interval polls again.                     *)
PollFails(q) ==
    /\ Answered(q)
    /\ polls' = [polls EXCEPT ![q] = [done |-> 0, tree |-> Blank]]
    /\ UNCHANGED <<storeVars, tree, plan, post>>

-----------------------------------------------------------------------------
(* Rewinding from the browser.                                             *)

(* The first active branch of a tree; the server would take the last one.  *)
activeBranch(t) ==
    CHOOSE b \in DOMAIN t.branches :
        /\ t.branches[b].status = "active"
        /\ \A a \in 1 .. b - 1 : t.branches[a].status # "active"

(* The walk along parent_checkpoint_id through the rows of the tree.       *)
LineageIn(t, c) == IF c \in 1 .. t.checkpoints THEN lineage[c] ELSE {}

(* openRewind on a selected checkpoint other than the head.  shown is for  *)
(* the properties: the effects on the branch the dialog talks about.       *)
openRewind(c) ==
    /\ plan = NoPlan /\ tree # NoTree /\ c \in 1 .. tree.checkpoints
    /\ LET b == activeBranch(tree)
           shown == {e \in DOMAIN tree.effects :
                        tree.effects[e].checkpoint \in LineageIn(tree, tree.branches[b].head)}
       IN  /\ c # tree.branches[b].head
           /\ plan' = [target |-> c, branch |-> b, shown |-> shown,
                       counted |-> {e \in shown :
                           /\ tree.effects[e].status = "staged"
                           /\ tree.effects[e].checkpoint \notin LineageIn(tree, c)}]
    /\ UNCHANGED <<storeVars, polls, tree, post>>

(* The click on the backdrop works while a POST is under way, too.         *)
Cancel ==
    /\ plan # NoPlan
    /\ plan' = NoPlan
    /\ UNCHANGED <<storeVars, polls, tree, post>>

(* The branch is the active one of the tree shown by now, not of the plan. *)
confirmRewind ==
    /\ plan # NoPlan /\ post.pc = "none"
    /\ post' = [pc |-> "sent", branch |-> activeBranch(tree), plan |-> plan]
    /\ UNCHANGED <<storeVars, polls, tree, plan>>

(* POST /api/rewind on the server.                                         *)
ServerRewinds ==
    /\ post.pc = "sent"
    /\ rewind(post.branch, post.plan.target)
    /\ post' = [post EXCEPT !.pc = "done"]
    /\ UNCHANGED <<polls, tree, plan>>

ShowResult ==
    /\ post.pc = "done"
    /\ post' = NoPost /\ plan' = NoPlan
    /\ UNCHANGED <<storeVars, polls, tree>>

(* The request or its answer is lost: the dialog stays open, for a retry.  *)
(* A request the server still executes after that is one of the rewinds of *)
(* OthersAct.                                                              *)
PostFails ==
    /\ post.pc # "none"
    /\ post' = NoPost
    /\ UNCHANGED <<storeVars, polls, tree, plan>>

-----------------------------------------------------------------------------
(* The other clients of the API and of the store, in the watched run: the  *)
(* rows of other runs are in no answer, and no rewind of this one touches  *)
(* them.                                                                   *)

OthersAct ==
    /\ \/ runs = 0 /\ create_run
       \/ \E b \in BranchIds : create_checkpoint(b, NoRows(Keys), NoRows(Paths), NULL)
       \/ \E b \in BranchIds, c \in CheckpointIds : record_effect(b, c, "staged", NoKey, "staged")
       \/ \E e \in EffectIds : Flushed(e)
       \/ \E b \in BranchIds, c \in CheckpointIds : rewind(b, c)
    /\ UNCHANGED browserVars

DashboardInit ==
    /\ Init
    /\ polls = [q \in Polls |-> [done |-> 0, tree |-> Blank]]
    /\ tree = NoTree /\ plan = NoPlan /\ post = NoPost

DashboardNext ==
    \/ \E q \in Polls : get_tree(q) \/ ShowTree(q) \/ PollFails(q)
    \/ \E c \in CheckpointIds : openRewind(c)
    \/ Cancel
    \/ confirmRewind
    \/ ServerRewinds
    \/ ShowResult
    \/ PostFails
    \/ OthersAct

(* The server answers every poll, and not every answer gets lost.          *)
Fairness == \A q \in Polls : WF_dashboardVars(get_tree(q)) /\ SF_dashboardVars(ShowTree(q))

DashboardSpec == DashboardInit /\ [][DashboardNext]_dashboardVars /\ Fairness

-----------------------------------------------------------------------------
(* Properties.                                                             *)

(* The graph can be drawn: although its tables are read at different       *)
(* times, with commits and rewinds in between, each branch of a tree has   *)
(* its head and its fork point among the checkpoints of that tree.         *)
ViewIsClosed ==
    tree # NoTree =>
        \A b \in DOMAIN tree.branches :
            /\ tree.branches[b].head \in 1 .. tree.checkpoints
            /\ tree.branches[b].fork \in 0 .. tree.checkpoints

(* A confirmed rewind of the branch the dialog was about discards nothing  *)
(* the dialog showed there and did not count, however old its tree was.    *)
DiscardsAreExpected ==
    [][post.pc = "sent" /\ post'.pc = "done" /\ post.branch = post.plan.branch =>
          \A e \in post.plan.shown :
              staged_effects[e].status # staged_effects'[e].status =>
                  e \in post.plan.counted]_dashboardVars

(* The dashboard catches up: late answers may hide a change again for a    *)
(* while, but once the others are done, as the bounds make sure they are,  *)
(* the screen shows the run as it is, for good.                            *)
ViewCatchesUp == <>[](runs > 0 => tree = Table)

(* RewindModal.jsx:37, "staged side-effects will be permanently discarded":*)
(* when the screen is up to date and the branch is the one of the dialog,  *)
(* none of the effects it counted is still staged after the rewind.        *)
CountedAreDiscarded ==
    [][/\ post.pc = "sent" /\ post'.pc = "done"
       /\ tree = Table /\ post.branch = post.plan.branch
       => \A e \in post.plan.counted : staged_effects'[e].status # "staged"]_dashboardVars
=============================================================================
