---------------------------- MODULE GatewayCalls ----------------------------
(***************************************************************************)
(* The calls with which a run publishes a role's work, one GitHub request  *)
(* at a time: the client (orchestrator/github.py, _gateway_rpc and         *)
(* publish_work_item) sends a tool call through the gateway, waits for a   *)
(* bounded time and sends it again, and the GitHub MCP server              *)
(* (gateway_mcp/app/main.py) carries every attempt out, also the ones the  *)
(* client no longer waits for.                                             *)
(*                                                                         *)
(* Work items belong to different runs, so nothing orders their calls.  A  *)
(* commit is named by its round, the attempt that made it and its parent   *)
(* on the default branch; all attempts of a call carry the same patch.     *)
(***************************************************************************)
EXTENDS Integers, FiniteSets

CONSTANTS
    Items,      \* work items, each with a branch of its own
    Labels,     \* the labels of each item, some of them shared
    Attempts,   \* attempts one call may take (_RPC_ATTEMPTS)
    Rounds,     \* bound on the publications of one item
    Outlive,    \* TRUE: an attempt may still run when the next one begins
    MaxOutside  \* bound on the steps others take

ASSUME GatewayCallsAssumption ==
    /\ DOMAIN Labels = Items
    /\ Attempts \in Nat \ {0} /\ Rounds \in Nat
    /\ Outlive \in BOOLEAN /\ MaxOutside \in Nat

VARIABLES
    \* the client
    at,         \* the call publish_work_item makes for the item
    try,        \* the attempt it waits for
    round,      \* publications begun
    told,       \* item.head_sha
    known,      \* items with item.pr
    \* the GitHub MCP server
    req,        \* what each attempt of the item's call is doing
    \* GitHub
    base,       \* commits on the default branch
    head,       \* head of the item's branch
    pr,         \* state of its pull request
    labels,     \* labels the repository has
    labelled,   \* items whose pull request has its labels
    outside,    \* steps others have taken
    \* history
    overlap,    \* items with an attempt that began while another one ran
    shut        \* items whose pull request was closed since they were published

client == <<at, try, round, told, known>>
github == <<base, head, pr, labels, labelled>>
history == <<overlap, shut>>
vars == <<client, req, github, outside, history>>

None == [round |-> 0, attempt |-> 0, parent |-> 0]
Commits == [round : 0..Rounds, attempt : 0..Attempts, parent : 0..MaxOutside]
Tools == {"commit", "issue", "open", "label"}
Idle == [step |-> "none", tool |-> "none", expected |-> None, seen |-> None,
         made |-> None, missing |-> {}]
AllLabels == UNION {Labels[i] : i \in Items}

TypeOK ==
    /\ at \in [Items -> Tools \cup {"idle", "published", "failed"}]
    /\ try \in [Items -> 1..Attempts]
    /\ round \in [Items -> 0..Rounds]
    /\ told \in [Items -> Commits] /\ known \subseteq Items
    /\ req \in [Items -> [1..Attempts ->
         [step : {"none", "begun", "prepared", "checked", "looking",
                  "creating"},
          tool : Tools \cup {"none"}, expected : Commits, seen : Commits,
          made : Commits, missing : SUBSET AllLabels]]]
    /\ base \in 0..MaxOutside /\ head \in [Items -> Commits]
    /\ pr \in [Items -> {"none", "open", "closed"}]
    /\ labels \subseteq AllLabels /\ labelled \subseteq Items
    /\ outside \in 0..MaxOutside
    /\ overlap \subseteq Items /\ shut \subseteq Items

Init ==
    /\ at = [i \in Items |-> "idle"] /\ try = [i \in Items |-> 1]
    /\ round = [i \in Items |-> 0]
    /\ told = [i \in Items |-> None] /\ known = {}
    /\ req = [i \in Items |-> [k \in 1..Attempts |-> Idle]]
    /\ base = 0 /\ head = [i \in Items |-> None]
    /\ pr = [i \in Items |-> "none"] /\ labels = {} /\ labelled = {}
    /\ outside = 0
    /\ overlap = {} /\ shut = {}
-----------------------------------------------------------------------------
(* The client *)

(* A call begins with its first attempt; the requests of the call before it
   are gone or run on unheard. *)
Calls(i, tool) == at' = [at EXCEPT ![i] = tool] /\ try' = [try EXCEPT ![i] = 1]

Running(i, k) == req[i][k] # Idle

(* An item is published when its builder is done and again after a repair. *)
Publish(i) ==
    /\ at[i] \in {"idle", "published"} /\ round[i] < Rounds
    /\ \A k \in 1..Attempts : ~Running(i, k)
    /\ Calls(i, "commit")
    /\ round' = [round EXCEPT ![i] = @ + 1]
    /\ req' = [req EXCEPT ![i] = [k \in 1..Attempts |-> Idle]]
    /\ shut' = shut \ {i}
    /\ UNCHANGED <<told, known, github, outside, overlap>>

(* The gateway takes the attempt the client waits for to the server. *)
Begin(i) ==
    /\ at[i] \in Tools /\ ~Running(i, try[i])
    /\ Outlive \/ \A k \in 1..Attempts : ~Running(i, k)
    /\ req' = [req EXCEPT ![i][try[i]] =
                 [Idle EXCEPT !.step = "begun", !.tool = at[i],
                              !.expected = told[i]]]
    /\ overlap' = IF \E k \in 1..Attempts : Running(i, k)
                  THEN overlap \cup {i} ELSE overlap
    /\ UNCHANGED <<client, github, outside, shut>>

(* Mutant: the attempts are not counted. *)
RetryUncounted(i) ==
    /\ at[i] \in Tools
    /\ try' = [try EXCEPT ![i] = @ + 1]
    /\ UNCHANGED <<at, round, told, known, req, github, outside, history>>

(* Mutant: the last attempt is waited for without a bound. *)
RetryWaits(i) ==
    /\ at[i] \in Tools /\ try[i] < Attempts
    /\ try' = [try EXCEPT ![i] = @ + 1]
    /\ UNCHANGED <<at, round, told, known, req, github, outside, history>>

(* The attempt times out, or the transport fails before or after the server
   has acted: the client waits and tries again, or gives up. *)
Retry(i) ==
    /\ at[i] \in Tools
    /\ IF try[i] < Attempts
       THEN try' = [try EXCEPT ![i] = @ + 1] /\ UNCHANGED at
       ELSE at' = [at EXCEPT ![i] = "failed"] /\ UNCHANGED try
    /\ UNCHANGED <<round, told, known, req, github, outside,
                   history>>

(* Mutant: the pull request the item had is taken to be open. *)
NextCallKnown(i, tool) ==
    CASE tool = "commit" -> IF i \in known THEN "label" ELSE "open"
      [] tool = "issue" -> "label"
      [] tool = "open" -> "label"
      [] tool = "label" -> "published"

(* The call that follows a call that succeeded. *)
NextCall(i, tool) ==
    CASE tool = "commit" -> IF i \in known THEN "issue" ELSE "open"
      [] tool = "issue" -> IF pr[i] = "open" THEN "label" ELSE "open"
      [] tool = "open" -> "label"
      [] tool = "label" -> "published"

(* Mutant: the head of a refreshed branch is not recorded. *)
HeadOnce(i, commit) == IF told[i] = None THEN commit ELSE told[i]

(* item.head_sha after a commit was reported. *)
HeadSha(i, commit) == commit

(* What the client does with the answer to its present attempt: an error of the
   tool is text the client recognizes, and ends the publication. *)
Hears(i, tool, commit, ok) ==
    /\ UNCHANGED round
    /\ IF ok THEN Calls(i, NextCall(i, tool))
       ELSE at' = [at EXCEPT ![i] = "failed"] /\ UNCHANGED try
    /\ told' = IF ok /\ tool = "commit" THEN [told EXCEPT ![i] = HeadSha(i, commit)] ELSE told
    /\ known' = CASE ok /\ tool = "open" -> known \cup {i}
                  [] ok /\ tool = "issue" /\ pr[i] # "open" -> known \ {i}
                  [] OTHER -> known

(* The attempt ends.  Its client hears it only while it still waits for it. *)
Ends(i, k, ok) ==
    LET tool == req[i][k].tool
        heard == at[i] = tool /\ try[i] = k
    IN  /\ req' = [req EXCEPT ![i][k] = Idle]
        /\ IF heard
           THEN Hears(i, tool, req[i][k].made, ok)
           ELSE UNCHANGED client
-----------------------------------------------------------------------------
(* The GitHub MCP server *)

IsAt(i, k, tool, step) == req[i][k].tool = tool /\ req[i][k].step = step

Advances(i, k, r) == req' = [req EXCEPT ![i][k] = r]

Unmoved == UNCHANGED <<outside, history>>

(* The commit an attempt makes on the current head of the default branch. *)
Commit(i, k) == [round |-> round[i], attempt |-> k, parent |-> base]

(* Mutant: the caller's expectation is not compared. *)
PrepareAnyway(i, k) ==
    /\ IsAt(i, k, "commit", "begun")
    /\ Advances(i, k, [req[i][k] EXCEPT !.step = "prepared", !.seen = head[i],
                                       !.made = Commit(i, k)])
    /\ UNCHANGED client
    /\ Unmoved /\ UNCHANGED github

(* commit_changes compares the target's head with the caller's expectation and
   makes the commit, to which no branch points yet.  Nothing the commit depends
   on but the default branch is read in between. *)
Prepare(i, k) ==
    /\ IsAt(i, k, "commit", "begun")
    /\ LET r == req[i][k]
       IN  IF r.expected # None /\ head[i] # r.expected
           THEN Ends(i, k, FALSE)
           ELSE /\ Advances(i, k, [r EXCEPT !.step = "prepared", !.seen = head[i],
                                           !.made = Commit(i, k)])
                /\ UNCHANGED client
    /\ Unmoved /\ UNCHANGED github

(* commit_changes: an existing branch is read once more before it is moved. *)
Check(i, k) ==
    /\ IsAt(i, k, "commit", "prepared")
    /\ LET r == req[i][k]
       IN  IF r.seen # None /\ head[i] # r.seen
           THEN Ends(i, k, FALSE)
           ELSE /\ Advances(i, k, [r EXCEPT !.step = "checked"])
                /\ UNCHANGED client
    /\ Unmoved /\ UNCHANGED github

(* commit_changes: a new branch is created, which GitHub refuses when it is
   there by now; an existing one is moved by force. *)
Move(i, k) ==
    /\ IsAt(i, k, "commit", "checked")
    /\ LET r == req[i][k]
           ok == r.seen = None => head[i] = None
       IN  /\ head' = IF ok THEN [head EXCEPT ![i] = r.made] ELSE head
           /\ Ends(i, k, ok)
    /\ Unmoved /\ UNCHANGED <<base, pr, labels, labelled>>

(* get_issue: does the pull request still stand? *)
Issue(i, k) ==
    /\ IsAt(i, k, "issue", "begun")
    /\ Ends(i, k, TRUE)
    /\ Unmoved /\ UNCHANGED github

(* create_pull_request: GitHub has one open pull request per branch. *)
Open(i, k) ==
    /\ IsAt(i, k, "open", "begun")
    /\ pr' = [pr EXCEPT ![i] = "open"]
    /\ labelled' = IF pr[i] = "open" THEN labelled ELSE labelled \ {i}
    /\ Ends(i, k, pr[i] # "open")
    /\ Unmoved /\ UNCHANGED <<base, head, labels>>

(* ensure_labels: one label is looked up at a time, and created when the lookup
   found none; GitHub refuses a name that is there by now. *)
Look(i, k) ==
    /\ req[i][k].step \in {"begun", "looking"}
    /\ IsAt(i, k, "label", req[i][k].step)
    /\ LET r == req[i][k]
           looked == IF r.step = "begun" THEN {} ELSE r.missing
       IN  \E l \in Labels[i] \ looked :
             Advances(i, k, [r EXCEPT !.missing = looked \cup {l},
                               !.step = IF l \in labels THEN "looking" ELSE "creating"])
    /\ UNCHANGED client
    /\ Unmoved /\ UNCHANGED github

Create(i, k) ==
    /\ IsAt(i, k, "label", "creating")
    /\ \/ /\ req[i][k].missing \ labels # {}
          /\ labels' = labels \cup req[i][k].missing
          /\ Advances(i, k, [req[i][k] EXCEPT !.step = "looking"])
          /\ UNCHANGED client
       \/ /\ req[i][k].missing \subseteq labels
          /\ Ends(i, k, FALSE)
          /\ UNCHANGED labels
    /\ Unmoved /\ UNCHANGED <<base, head, pr, labelled>>

(* ensure_labels: all of them are put on the pull request. *)
AddLabels(i, k) ==
    /\ IsAt(i, k, "label", "looking") /\ req[i][k].missing = Labels[i]
    /\ labelled' = labelled \cup {i}
    /\ Ends(i, k, TRUE)
    /\ Unmoved /\ UNCHANGED <<base, head, pr, labels>>

(* Any request to GitHub may fail. *)
Raises(i, k) ==
    /\ Running(i, k)
    /\ Ends(i, k, FALSE)
    /\ Unmoved /\ UNCHANGED github

Request(i, k) ==
    \/ Prepare(i, k) \/ Check(i, k) \/ Move(i, k)
    \/ Issue(i, k) \/ Open(i, k)
    \/ Look(i, k) \/ Create(i, k) \/ AddLabels(i, k)
    \/ Raises(i, k)
-----------------------------------------------------------------------------
(* Others: the default branch moves, a person closes a pull request, a run
   outside Items creates a label they share. *)
Outside ==
    /\ outside < MaxOutside /\ outside' = outside + 1
    /\ \/ base' = base + 1 /\ UNCHANGED <<pr, shut, labels>>
       \/ /\ \E i \in Items :
               /\ pr[i] = "open" /\ pr' = [pr EXCEPT ![i] = "closed"]
               /\ shut' = shut \cup {i}
          /\ UNCHANGED <<base, labels>>
       \/ /\ \E l \in AllLabels \ labels : labels' = labels \cup {l}
          /\ UNCHANGED <<base, pr, shut>>
    /\ UNCHANGED <<client, req, head, labelled, overlap>>

Next ==
    \/ \E i \in Items :
         \/ Publish(i) \/ Begin(i) \/ Retry(i)
         \/ \E k \in 1..Attempts : Request(i, k)
    \/ Outside

Spec == Init /\ [][Next]_vars
-----------------------------------------------------------------------------
(* Properties *)

(* What the expected-parent compare is for: a publication replaces only the
   commit the client was last told of, or, before it was told of any, one that
   an attempt of its own left; attempts that ran beside each other may replace
   one another's. *)
NoBlindWrite ==
    [][\A i \in Items : head'[i] # head[i] =>
         head[i] \in {None, told[i]} \/ told[i] = None \/ i \in overlap]_vars

(* Once the commit is reported, the branch is at the reported head, which is the
   head the merge will pin, unless an attempt outlived its client and moved the
   branch after the attempt that was heard. *)
HeadKnown ==
    \A i \in Items : at[i] \in {"issue", "open", "label", "published"} =>
        head[i] = told[i] \/ i \in overlap

(* A publication that reports success leaves its commit on an open, labelled
   pull request, also when a person closed the one it had before. *)
ReportIsComplete ==
    \A i \in Items : at[i] = "published" =>
        /\ head[i] # None /\ head[i].round = round[i]
        /\ pr[i] = "open" \/ i \in shut
        /\ i \in labelled \/ i \in shut
        /\ Labels[i] \subseteq labels

(* What the run is told of its publication is so, while it acts on it. *)
ReportIsTrue == HeadKnown /\ ReportIsComplete

(* Every publication ends: an attempt is given up after its time-out, and the
   attempts are bounded. *)
PublicationsEnd ==
    \A i \in Items : at[i] \in Tools ~> at[i] \in {"published", "failed"}

FairSpec == Spec /\ \A i \in Items : WF_vars(Retry(i))
=============================================================================
