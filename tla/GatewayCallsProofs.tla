------------------------- MODULE GatewayCallsProofs -------------------------
(***************************************************************************)
(* Theorems about GatewayCalls, for any set of items, any labels, any      *)
(* number of attempts and publications, and whether or not an attempt may  *)
(* outlive the one before it.                                              *)
(***************************************************************************)
EXTENDS GatewayCalls, TLAPS

Steps == {"none", "begun", "prepared", "checked", "looking", "creating"}
Reqs == [step : Steps, tool : Tools \cup {"none"}, expected : Commits,
         seen : Commits, made : Commits, missing : SUBSET AllLabels]

(* Every variable has its type, and the default branch moves only by others. *)
Typed == TypeOK /\ base <= outside

LEMMA CommitsNone == None \in Commits /\ Idle \in Reqs
BY GatewayCallsAssumption DEF None, Commits, Idle, Reqs, Steps, Tools

LEMMA ReqsType == TypeOK => req \in [Items -> [1..Attempts -> Reqs]]
BY DEF TypeOK, Reqs, Steps

(* What an attempt's end leaves of the types. *)
LEMMA EndsTyped ==
    ASSUME Typed, NEW i \in Items, NEW k \in 1..Attempts, NEW ok \in BOOLEAN,
           Ends(i, k, ok)
    PROVE  /\ at' \in [Items -> Tools \cup {"idle", "published", "failed"}]
           /\ try' \in [Items -> 1..Attempts]
           /\ round' = round
           /\ told' \in [Items -> Commits] /\ known' \subseteq Items
           /\ req' \in [Items -> [1..Attempts -> Reqs]]
<1> USE GatewayCallsAssumption DEF Typed, TypeOK
<1> req \in [Items -> [1..Attempts -> Reqs]]
  BY ReqsType
<1> DEFINE tool == req[i][k].tool
<1> req[i][k] \in Reqs /\ tool \in Tools \cup {"none"} /\ req[i][k].made \in Commits
  BY DEF Reqs
<1>1. req' \in [Items -> [1..Attempts -> Reqs]]
  BY CommitsNone DEF Ends
<1>2. CASE at[i] = tool /\ try[i] = k
  <2> tool \in Tools
    BY <1>2 DEF Tools
  <2> Hears(i, tool, req[i][k].made, ok)
    BY <1>2 DEF Ends
  <2> NextCall(i, tool) \in Tools \cup {"published"}
    BY DEF NextCall, Tools
  <2>1. at' \in [Items -> Tools \cup {"idle", "published", "failed"}]
          /\ try' \in [Items -> 1..Attempts] /\ round' = round
    <3> /\ round' = round
        /\ IF ok THEN Calls(i, NextCall(i, tool))
           ELSE at' = [at EXCEPT ![i] = "failed"] /\ UNCHANGED try
      BY DEF Hears
    <3> /\ at' = [at EXCEPT ![i] = NextCall(i, tool)] \/ at' = [at EXCEPT ![i] = "failed"]
        /\ try' = [try EXCEPT ![i] = 1] \/ try' = try
      BY DEF Calls
    <3>1. at' \in [Items -> Tools \cup {"idle", "published", "failed"}]
      OBVIOUS
    <3>2. try' \in [Items -> 1..Attempts]
      <4> 1 \in 1..Attempts /\ try \in [Items -> 1..Attempts]
        OBVIOUS
      <4> HIDE DEF Typed, TypeOK
      <4> QED
        OBVIOUS
    <3> QED
      BY <3>1, <3>2
  <2>2. told' \in [Items -> Commits]
    BY DEF Hears, HeadSha
  <2>3. known' \in {known \cup {i}, known \ {i}, known}
    BY DEF Hears
  <2> QED
    BY <1>1, <2>1, <2>2, <2>3
<1>3. CASE ~(at[i] = tool /\ try[i] = k)
  BY <1>1, <1>3 DEF Ends, client
<1> QED
  BY <1>2, <1>3

(* A request goes on, ends heard or ends unheard, whatever its tool. *)
LEMMA AdvancesTyped ==
    ASSUME Typed, NEW i \in Items, NEW k \in 1..Attempts, NEW r \in Reqs,
           Advances(i, k, r)
    PROVE  req' \in [Items -> [1..Attempts -> Reqs]]
BY ReqsType DEF Typed, Advances

(* Every step keeps the types. *)
LEMMA TypedStep ==
    ASSUME Typed, [Next]_vars
    PROVE  Typed'
<1> USE GatewayCallsAssumption
<1> req \in [Items -> [1..Attempts -> Reqs]]
  BY ReqsType DEF Typed
<1>1. ASSUME NEW i \in Items, Publish(i)
      PROVE  Typed'
  <2> req' \in [Items -> [1..Attempts -> Reqs]]
    BY <1>1, CommitsNone DEF Publish
  <2> 1 \in 1..Attempts
    OBVIOUS
  <2>1. at' \in [Items -> Tools \cup {"idle", "published", "failed"}]
          /\ try' \in [Items -> 1..Attempts]
    BY <1>1 DEF Publish, Calls, Typed, TypeOK, Tools
  <2>2. round' \in [Items -> 0..Rounds] /\ shut' \subseteq Items
    BY <1>1 DEF Publish, Typed, TypeOK
  <2> QED
    BY <1>1, <2>1, <2>2 DEF Publish, Typed, TypeOK, Reqs, Steps, github
<1>2. ASSUME NEW i \in Items, Begin(i)
      PROVE  Typed'
  <2> /\ try[i] \in 1..Attempts /\ at[i] \in Tools /\ told[i] \in Commits
    BY <1>2 DEF Begin, Typed, TypeOK
  <2> [Idle EXCEPT !.step = "begun", !.tool = at[i], !.expected = told[i]] \in Reqs
    BY CommitsNone DEF Reqs, Steps
  <2> req' \in [Items -> [1..Attempts -> Reqs]]
    BY <1>2 DEF Begin
  <2> QED
    BY <1>2 DEF Begin, Typed, TypeOK, Reqs, Steps, client, github
<1>3. ASSUME NEW i \in Items, Retry(i)
      PROVE  Typed'
  <2>1. at' \in [Items -> Tools \cup {"idle", "published", "failed"}]
    BY <1>3 DEF Retry, Typed, TypeOK
  <2>2. try' \in [Items -> 1..Attempts]
    <3> try \in [Items -> 1..Attempts]
      BY DEF Typed, TypeOK
    <3> \/ UNCHANGED try
        \/ try[i] < Attempts /\ try' = [try EXCEPT ![i] = @ + 1]
      BY <1>3 DEF Retry
    <3> QED
      OBVIOUS
  <2> QED
    BY <1>3, <2>1, <2>2 DEF Retry, Typed, TypeOK, github, history
<1>4. ASSUME NEW i \in Items, NEW k \in 1..Attempts, Request(i, k)
      PROVE  Typed'
  <2> DEFINE r == req[i][k]
  <2> /\ r \in Reqs /\ base \in Nat /\ k \in Nat
    BY DEF Typed, TypeOK
  <2> head \in [Items -> Commits] /\ r.made \in Commits
    BY DEF Typed, TypeOK, Reqs
  <2> Commit(i, k) \in Commits
    BY DEF Typed, TypeOK, Commit, Commits
  <2> SUFFICES /\ at' \in [Items -> Tools \cup {"idle", "published", "failed"}]
               /\ try' \in [Items -> 1..Attempts] /\ round' \in [Items -> 0..Rounds]
               /\ told' \in [Items -> Commits] /\ known' \subseteq Items
               /\ req' \in [Items -> [1..Attempts -> Reqs]]
               /\ UNCHANGED <<base, outside, history>>
               /\ head' \in [Items -> Commits]
               /\ pr' \in [Items -> {"none", "open", "closed"}]
               /\ labels' \subseteq AllLabels /\ labelled' \subseteq Items
    BY DEF Typed, TypeOK, Reqs, Steps, history
  <2>1. ASSUME NEW ok \in BOOLEAN, Ends(i, k, ok)
        PROVE  /\ at' \in [Items -> Tools \cup {"idle", "published", "failed"}]
               /\ try' \in [Items -> 1..Attempts] /\ round' \in [Items -> 0..Rounds]
               /\ told' \in [Items -> Commits] /\ known' \subseteq Items
               /\ req' \in [Items -> [1..Attempts -> Reqs]]
    BY <2>1, EndsTyped DEF Typed, TypeOK
  <2>2. ASSUME NEW q \in Reqs, Advances(i, k, q), UNCHANGED client
        PROVE  /\ at' \in [Items -> Tools \cup {"idle", "published", "failed"}]
               /\ try' \in [Items -> 1..Attempts] /\ round' \in [Items -> 0..Rounds]
               /\ told' \in [Items -> Commits] /\ known' \subseteq Items
               /\ req' \in [Items -> [1..Attempts -> Reqs]]
    BY <2>2, AdvancesTyped DEF Typed, TypeOK, client
  <2>3. UNCHANGED github => /\ head' \in [Items -> Commits] /\ UNCHANGED base
                            /\ pr' \in [Items -> {"none", "open", "closed"}]
                            /\ labels' \subseteq AllLabels /\ labelled' \subseteq Items
    BY DEF Typed, TypeOK, github
  <2>4. CASE Prepare(i, k)
    <3> [r EXCEPT !.step = "prepared", !.seen = head[i], !.made = Commit(i, k)] \in Reqs
      BY DEF Reqs, Steps
    <3> QED
      BY <2>1, <2>2, <2>3, <2>4 DEF Prepare, Unmoved
  <2>5. CASE Check(i, k)
    <3> [r EXCEPT !.step = "checked"] \in Reqs
      BY DEF Reqs, Steps
    <3> QED
      BY <2>1, <2>2, <2>3, <2>5 DEF Check, Unmoved
  <2>6. CASE Move(i, k)
    <3> PICK ok \in BOOLEAN : /\ Ends(i, k, ok)
                              /\ head' = IF ok THEN [head EXCEPT ![i] = r.made] ELSE head
      BY <2>6 DEF Move
    <3> QED
      BY <2>1, <2>6 DEF Move, Unmoved, Typed, TypeOK
  <2>7. CASE Issue(i, k)
    BY <2>1, <2>3, <2>7 DEF Issue, Unmoved
  <2>8. CASE Open(i, k)
    <3> pr' \in [Items -> {"none", "open", "closed"}] /\ labelled' \subseteq Items
      BY <2>8 DEF Open, Typed, TypeOK
    <3> QED
      BY <2>1, <2>8 DEF Open, Unmoved, Typed, TypeOK
  <2>9. CASE Look(i, k)
    <3> PICK l \in Labels[i] :
          LET looked == IF r.step = "begun" THEN {} ELSE r.missing
          IN  Advances(i, k, [r EXCEPT !.missing = looked \cup {l},
                                !.step = IF l \in labels THEN "looking" ELSE "creating"])
      BY <2>9 DEF Look
    <3> \A m, s : m \in SUBSET AllLabels /\ s \in Steps =>
          [r EXCEPT !.missing = m, !.step = s] \in Reqs
      BY DEF Reqs
    <3> l \in AllLabels
      BY DEF AllLabels
    <3> r.missing \subseteq AllLabels
      BY DEF Reqs
    <3> QED
      BY <2>2, <2>3, <2>9 DEF Look, Unmoved, Steps
  <2>10. CASE Create(i, k)
    <3> [r EXCEPT !.step = "looking"] \in Reqs /\ r.missing \subseteq AllLabels
      BY DEF Reqs, Steps
    <3> labels' \subseteq AllLabels
      BY <2>10 DEF Create, Typed, TypeOK
    <3> QED
      BY <2>1, <2>2, <2>10 DEF Create, Unmoved, Typed, TypeOK
  <2>11. CASE AddLabels(i, k)
    BY <2>1, <2>11 DEF AddLabels, Unmoved, Typed, TypeOK
  <2>12. CASE Raises(i, k)
    BY <2>1, <2>3, <2>12 DEF Raises, Unmoved
  <2> QED
    BY <1>4, <2>4, <2>5, <2>6, <2>7, <2>8, <2>9, <2>10, <2>11, <2>12 DEF Request
<1>5. CASE Outside
  <2>1. base' \in 0..MaxOutside /\ outside' \in 0..MaxOutside /\ base' <= outside'
    BY <1>5 DEF Outside, Typed, TypeOK
  <2>2. pr' \in [Items -> {"none", "open", "closed"}] /\ shut' \subseteq Items
    BY <1>5 DEF Outside, Typed, TypeOK
  <2>3. labels' \subseteq AllLabels
    BY <1>5 DEF Outside, Typed, TypeOK
  <2> QED
    BY <1>5, <2>1, <2>2, <2>3 DEF Outside, Typed, TypeOK, client
<1>6. CASE UNCHANGED vars
  BY <1>6 DEF vars, client, github, history, Typed, TypeOK
<1> QED
  BY <1>1, <1>2, <1>3, <1>4, <1>5, <1>6 DEF Next

(* The calls that follow a commit that was reported. *)
Told == {"issue", "open", "label", "published"}

(* Of an item whose attempts never overlapped one runs at a time, for the call
   that is waited for or was given up, and nothing moves the branch beside it. *)
OneAtATime(i) ==
    i \notin overlap =>
        /\ \A k, l \in 1..Attempts : Running(i, k) /\ Running(i, l) => k = l
        /\ \A k \in 1..Attempts : Running(i, k) =>
              /\ at[i] \in {req[i][k].tool, "failed"}
              /\ req[i][k].tool = "commit" =>
                    /\ req[i][k].expected = told[i]
                    /\ req[i][k].step \in {"prepared", "checked"} =>
                          req[i][k].expected \in {None, head[i]}
        /\ at[i] \in Told => head[i] = told[i]

(* What the calls of a publication leave behind, the late attempts included: the
   commits of its round, then the pull request, then the labels. *)
Leaves(i) ==
    /\ \A k \in 1..Attempts :
          /\ req[i][k].step \in {"prepared", "checked"} =>
                req[i][k].made # None /\ req[i][k].made.round = round[i]
          /\ req[i][k].step = "looking" => req[i][k].missing \subseteq labels
    /\ at[i] \in Told => head[i] # None /\ head[i].round = round[i]
    /\ at[i] \in {"label", "published"} => pr[i] = "open" \/ i \in shut
    /\ at[i] = "published" =>
          (i \in labelled \/ i \in shut) /\ Labels[i] \subseteq labels

Inductive == Typed /\ \A i \in Items : OneAtATime(i) /\ Leaves(i)

(* The requests after the present one of an item ends, and what its client does. *)
LEMMA EndsFacts ==
    ASSUME Typed, NEW i \in Items, NEW k \in 1..Attempts, NEW ok \in BOOLEAN,
           Ends(i, k, ok)
    PROVE  /\ req' = [req EXCEPT ![i][k] = Idle]
           /\ \A j \in Items \ {i} : at'[j] = at[j] /\ told'[j] = told[j]
           /\ round' = round
           /\ \/ at'[i] = at[i] /\ told'[i] = told[i]
              \/ /\ ~ok /\ at'[i] = "failed" /\ told'[i] = told[i]
              \/ /\ ok /\ at[i] = req[i][k].tool
                 /\ at'[i] = NextCall(i, req[i][k].tool)
                 /\ told'[i] = IF req[i][k].tool = "commit" THEN req[i][k].made ELSE told[i]
<1> DEFINE tool == req[i][k].tool
<1>1. at \in [Items -> Tools \cup {"idle", "published", "failed"}] /\ told \in [Items -> Commits]
  BY DEF Typed, TypeOK
<1>2. req' = [req EXCEPT ![i][k] = Idle]
  BY DEF Ends
<1>3. CASE at[i] = tool /\ try[i] = k
  <2> Hears(i, tool, req[i][k].made, ok)
    BY <1>3 DEF Ends
  <2>1. /\ round' = round
        /\ IF ok THEN Calls(i, NextCall(i, tool))
           ELSE at' = [at EXCEPT ![i] = "failed"] /\ UNCHANGED try
        /\ told' = IF ok /\ tool = "commit"
                   THEN [told EXCEPT ![i] = HeadSha(i, req[i][k].made)] ELSE told
    BY DEF Hears
  <2> QED
    BY <1>1, <1>2, <1>3, <2>1 DEF Calls, HeadSha
<1>4. CASE ~(at[i] = tool /\ try[i] = k)
  BY <1>2, <1>4 DEF Ends, client
<1> QED
  BY <1>3, <1>4

(* An item no step touches keeps what holds of it, also when labels are created. *)
LEMMA Untouched ==
    ASSUME NEW j \in Items, OneAtATime(j), Leaves(j),
           at'[j] = at[j], told'[j] = told[j], round'[j] = round[j], req'[j] = req[j],
           head'[j] = head[j], pr'[j] = pr[j], labels \subseteq labels',
           j \in overlap' <=> j \in overlap, j \in shut' <=> j \in shut,
           j \in labelled' <=> j \in labelled
    PROVE  OneAtATime(j)' /\ Leaves(j)'
<1>1. OneAtATime(j)'
  BY DEF OneAtATime, Running, Told
<1>2. Leaves(j)'
  BY DEF Leaves
<1> QED
  BY <1>1, <1>2

(* A request that ends, on a branch it did not move. *)
LEMMA EndsStep ==
    ASSUME Typed, NEW i \in Items, OneAtATime(i), Leaves(i), NEW k \in 1..Attempts,
           NEW ok \in BOOLEAN, Ends(i, k, ok), Running(i, k), ok => req[i][k].tool # "commit",
           ok /\ req[i][k].tool = "issue" /\ NextCall(i, "issue") = "label" =>
              pr'[i] = "open",
           ok /\ req[i][k].tool = "open" => pr'[i] = "open",
           ok /\ req[i][k].tool = "label" => i \in labelled' /\ Labels[i] \subseteq labels,
           head' = head, pr'[i] = pr[i] \/ pr'[i] = "open", labels \subseteq labels',
           i \in overlap' <=> i \in overlap, i \in shut' <=> i \in shut,
           (i \in labelled => i \in labelled') \/ (pr[i] # "open")
    PROVE  OneAtATime(i)' /\ Leaves(i)'
<1> DEFINE tool == req[i][k].tool
<1> USE GatewayCallsAssumption
<1> /\ req \in [Items -> [1..Attempts -> Reqs]]
    /\ at \in [Items -> Tools \cup {"idle", "published", "failed"}]
    /\ told \in [Items -> Commits]
  BY ReqsType DEF Typed, TypeOK
<1>1. /\ req'[i][k] = Idle
      /\ \A l \in 1..Attempts \ {k} : req'[i][l] = req[i][l]
      /\ round' = round
      /\ told'[i] = told[i]
      /\ \/ at'[i] = at[i]
         \/ ~ok /\ at'[i] = "failed"
         \/ ok /\ at[i] = tool /\ at'[i] = NextCall(i, tool)
  BY EndsFacts
<1>2. ok /\ at[i] = tool => /\ tool \in {"issue", "open", "label"}
                            /\ tool = "issue" => at'[i] \in {at[i], "failed", "open", "label"}
                            /\ tool = "open" => at'[i] \in {at[i], "failed", "label"}
                            /\ tool = "label" => at'[i] \in {at[i], "failed", "published"}
  <2> /\ NextCall(i, "issue") \in {"open", "label"} /\ NextCall(i, "open") = "label"
      /\ NextCall(i, "label") = "published"
    BY DEF NextCall
  <2> req[i][k] \in Reqs
    OBVIOUS
  <2> at[i] = tool => tool \in Tools
    BY DEF Reqs, Tools
  <2> QED
    BY <1>1 DEF Tools
<1>3. OneAtATime(i)'
  <2> SUFFICES ASSUME i \notin overlap'
               PROVE  OneAtATime(i)'
    BY DEF OneAtATime
  <2> \A l \in 1..Attempts \ {k} : req'[i][l] = Idle
    BY <1>1 DEF OneAtATime, Running
  <2> at'[i] \in Told => at[i] \in Told
    BY <1>1, <1>2 DEF Told, Tools
  <2> QED
    BY <1>1 DEF OneAtATime, Running
<1>4. Leaves(i)'
  <2>1. ASSUME NEW l \in 1..Attempts
        PROVE  /\ req'[i][l].step \in {"prepared", "checked"} =>
                     req'[i][l].made # None /\ req'[i][l].made.round = round'[i]
               /\ req'[i][l].step = "looking" => req'[i][l].missing \subseteq labels'
    <3>1. CASE l = k
      BY <1>1, <3>1 DEF Idle
    <3>2. CASE l # k
      BY <1>1, <3>2 DEF Leaves
    <3> QED
      BY <3>1, <3>2
  <2>2. at'[i] \in Told => head'[i] # None /\ head'[i].round = round'[i]
    BY <1>1, <1>2 DEF Leaves, Told
  <2>3. at'[i] \in {"label", "published"} => pr'[i] = "open" \/ i \in shut'
    BY <1>1, <1>2 DEF Leaves, NextCall
  <2>4. at'[i] = "published" =>
          (i \in labelled' \/ i \in shut') /\ Labels[i] \subseteq labels'
    BY <1>1, <1>2 DEF Leaves
  <2> QED
    BY <2>1, <2>2, <2>3, <2>4 DEF Leaves
<1> QED
  BY <1>3, <1>4

(* A request that goes on. *)
LEMMA AdvancesStep ==
    ASSUME Typed, NEW i \in Items, OneAtATime(i), Leaves(i), NEW k \in 1..Attempts,
           NEW q \in Reqs, Running(i, k), Advances(i, k, q), UNCHANGED client,
           q.tool = req[i][k].tool, q.expected = req[i][k].expected,
           i \notin overlap /\ q.tool = "commit" /\ q.step \in {"prepared", "checked"} =>
              q.expected \in {None, head[i]},
           q.step \in {"prepared", "checked"} => q.made # None /\ q.made.round = round[i],
           q.step = "looking" => q.missing \subseteq labels',
           UNCHANGED <<head, pr, labelled, overlap, shut>>, labels \subseteq labels'
    PROVE  OneAtATime(i)' /\ Leaves(i)'
<1> req \in [Items -> [1..Attempts -> Reqs]]
  BY ReqsType DEF Typed
<1> /\ req'[i][k] = q
    /\ \A l \in 1..Attempts \ {k} : req'[i][l] = req[i][l]
  BY DEF Advances
<1> UNCHANGED <<at, told, round>>
  BY DEF client
<1>1. OneAtATime(i)'
  BY DEF OneAtATime, Running, Told
<1>2. Leaves(i)'
  BY DEF Leaves, Told
<1> QED
  BY <1>1, <1>2

(* The branch is moved: the one attempt that may is the one that runs. *)
LEMMA MoveStep ==
    ASSUME Inductive, Typed', NEW i \in Items, NEW k \in 1..Attempts, Move(i, k)
    PROVE  OneAtATime(i)' /\ Leaves(i)'
<1> DEFINE r == req[i][k]
<1> USE GatewayCallsAssumption
<1> Typed /\ OneAtATime(i) /\ Leaves(i)
  BY DEF Inductive
<1> /\ req \in [Items -> [1..Attempts -> Reqs]] /\ r \in Reqs
    /\ head \in [Items -> Commits] /\ told \in [Items -> Commits]
    /\ at \in [Items -> Tools \cup {"idle", "published", "failed"}]
  BY ReqsType DEF Typed, TypeOK
<1> /\ UNCHANGED <<pr, labels, labelled, overlap, shut>>
    /\ r.tool = "commit" /\ r.step = "checked" /\ Running(i, k)
  BY DEF Move, Unmoved, history, IsAt, Running, Idle
<1> PICK ok \in BOOLEAN : Ends(i, k, ok) /\ head'[i] = IF ok THEN r.made ELSE head[i]
  BY DEF Move
<1>1. /\ req'[i][k] = Idle
      /\ \A l \in 1..Attempts \ {k} : req'[i][l] = req[i][l]
      /\ round' = round
      /\ \/ at'[i] = at[i] /\ told'[i] = told[i]
         \/ ~ok /\ at'[i] = "failed" /\ told'[i] = told[i]
         \/ /\ ok /\ at[i] = "commit" /\ at'[i] \in {"issue", "open"} /\ told'[i] = r.made
  BY EndsFacts DEF NextCall
<1>2. r.made # None /\ r.made.round = round[i]
  BY DEF Leaves
<1>3. OneAtATime(i)'
  <2> SUFFICES ASSUME i \notin overlap'
               PROVE  OneAtATime(i)'
    BY DEF OneAtATime
  <2> \A l \in 1..Attempts : req'[i][l] = Idle
    BY <1>1 DEF OneAtATime, Running
  <2> at[i] \in {"commit", "failed"}
    BY DEF OneAtATime
  <2> at'[i] \in Told => head'[i] = told'[i]
    BY <1>1 DEF Told
  <2> QED
    BY DEF OneAtATime, Running
<1>4. Leaves(i)'
  <2>1. ASSUME NEW l \in 1..Attempts
        PROVE  /\ req'[i][l].step \in {"prepared", "checked"} =>
                     req'[i][l].made # None /\ req'[i][l].made.round = round'[i]
               /\ req'[i][l].step = "looking" => req'[i][l].missing \subseteq labels'
    <3>1. CASE l = k
      BY <1>1, <3>1 DEF Idle
    <3>2. CASE l # k
      BY <1>1, <3>2 DEF Leaves
    <3> QED
      BY <3>1, <3>2
  <2>2. at'[i] \in Told => head'[i] # None /\ head'[i].round = round'[i]
    BY <1>1, <1>2 DEF Leaves, Told
  <2>3. at'[i] \in {"label", "published"} => at'[i] = at[i]
    BY <1>1
  <2> QED
    BY <2>1, <2>2, <2>3 DEF Leaves
<1> QED
  BY <1>3, <1>4

(* A request of one item leaves what holds of every item. *)
LEMMA RequestStep ==
    ASSUME Inductive, Typed', NEW i \in Items, NEW k \in 1..Attempts, Request(i, k),
           NEW j \in Items
    PROVE  OneAtATime(j)' /\ Leaves(j)'
<1> DEFINE r == req[i][k]
<1> USE GatewayCallsAssumption
<1> Typed /\ OneAtATime(i) /\ Leaves(i) /\ OneAtATime(j) /\ Leaves(j)
  BY DEF Inductive
<1> req \in [Items -> [1..Attempts -> Reqs]] /\ r \in Reqs
  BY ReqsType DEF Typed
<1> /\ head \in [Items -> Commits] /\ pr \in [Items -> {"none", "open", "closed"}]
    /\ round \in [Items -> 0..Rounds]
  BY DEF Typed, TypeOK
<1> r.tool # "none" => Running(i, k)
  BY DEF Running, Idle
<1> UNCHANGED <<outside, overlap, shut>> /\ labels \subseteq labels'
  BY DEF Request, Prepare, Check, Move, Issue, Open, Look, Create, AddLabels, Raises,
         Unmoved, github, history
<1>1. CASE j # i
  <2>1. \A ok \in BOOLEAN : Ends(i, k, ok) =>
          /\ at'[j] = at[j] /\ told'[j] = told[j] /\ round'[j] = round[j] /\ req'[j] = req[j]
    BY <1>1, EndsFacts
  <2>2. \A q : Advances(i, k, q) /\ UNCHANGED client =>
          /\ at'[j] = at[j] /\ told'[j] = told[j] /\ round'[j] = round[j] /\ req'[j] = req[j]
    BY <1>1 DEF Advances, client
  <2> /\ head'[j] = head[j] /\ pr'[j] = pr[j] /\ (j \in labelled' <=> j \in labelled)
    BY <1>1 DEF Request, Prepare, Check, Move, Issue, Open, Look, Create, AddLabels, Raises,
                github
  <2> /\ at'[j] = at[j] /\ told'[j] = told[j] /\ round'[j] = round[j] /\ req'[j] = req[j]
    BY <2>1, <2>2 DEF Request, Prepare, Check, Move, Issue, Open, Look, Create, AddLabels,
                      Raises
  <2> QED
    BY Untouched
<1>2. CASE j = i
  <2>1. CASE Prepare(i, k)
    <3> UNCHANGED github /\ r.tool = "commit" /\ Running(i, k)
      BY <2>1 DEF Prepare, IsAt
    <3>1. CASE r.expected # None /\ head[i] # r.expected
      BY <1>2, <2>1, <3>1, EndsStep DEF Prepare, github
    <3>2. CASE ~(r.expected # None /\ head[i] # r.expected)
      <4> DEFINE q == [r EXCEPT !.step = "prepared", !.seen = head[i], !.made = Commit(i, k)]
      <4> Advances(i, k, q) /\ UNCHANGED client
        BY <2>1, <3>2 DEF Prepare
      <4> Commit(i, k) \in Commits
        BY DEF Typed, TypeOK, Commit, Commits
      <4> Commit(i, k) # None /\ Commit(i, k).round = round[i]
        BY DEF Commit, None
      <4> q \in Reqs /\ q.tool = r.tool /\ q.expected = r.expected /\ q.step = "prepared"
            /\ q.made = Commit(i, k)
        BY DEF Reqs, Steps
      <4> HIDE DEF q
      <4> QED
        BY <1>2, <3>2, AdvancesStep DEF github
    <3> QED
      BY <3>1, <3>2
  <2>2. CASE Check(i, k)
    <3> UNCHANGED github /\ r.tool = "commit" /\ r.step = "prepared" /\ Running(i, k)
      BY <2>2 DEF Check, IsAt
    <3>1. CASE r.seen # None /\ head[i] # r.seen
      BY <1>2, <2>2, <3>1, EndsStep DEF Check, github
    <3>2. CASE ~(r.seen # None /\ head[i] # r.seen)
      <4> DEFINE q == [r EXCEPT !.step = "checked"]
      <4> Advances(i, k, q) /\ UNCHANGED client
        BY <2>2, <3>2 DEF Check
      <4> q \in Reqs /\ q.tool = r.tool /\ q.expected = r.expected /\ q.step = "checked"
            /\ q.made = r.made
        BY DEF Reqs, Steps
      <4> i \notin overlap => r.expected \in {None, head[i]}
        BY DEF OneAtATime
      <4> r.made # None /\ r.made.round = round[i]
        BY DEF Leaves
      <4> HIDE DEF q
      <4> QED
        BY <1>2, <3>2, AdvancesStep DEF github
    <3> QED
      BY <3>1, <3>2
  <2>3. CASE Move(i, k)
    BY <1>2, <2>3, MoveStep
  <2>4. CASE Issue(i, k)
    <3> Ends(i, k, TRUE) /\ UNCHANGED github /\ r.tool = "issue" /\ Running(i, k)
      BY <2>4 DEF Issue, IsAt
    <3> NextCall(i, "issue") = "label" => pr[i] = "open"
      BY DEF NextCall
    <3> QED
      BY <1>2, EndsStep DEF github
  <2>5. CASE Open(i, k)
    <3> /\ Ends(i, k, pr[i] # "open") /\ UNCHANGED <<base, head, labels>> /\ r.tool = "open"
        /\ Running(i, k) /\ pr'[i] = "open" /\ (pr[i] = "open" => labelled' = labelled)
      BY <2>5 DEF Open, IsAt
    <3> QED
      BY <1>2, EndsStep
  <2>6. CASE Look(i, k)
    <3> UNCHANGED github /\ r.tool = "label" /\ Running(i, k) /\ UNCHANGED client
      BY <2>6 DEF Look, IsAt
    <3> DEFINE looked == IF r.step = "begun" THEN {} ELSE r.missing
               q(l) == [r EXCEPT !.missing = looked \cup {l},
                          !.step = IF l \in labels THEN "looking" ELSE "creating"]
    <3> PICK l \in Labels[i] : Advances(i, k, q(l))
      BY <2>6 DEF Look
    <3> l \in AllLabels /\ looked \subseteq labels
      BY <2>6 DEF AllLabels, Look, Leaves
    <3> looked \cup {l} \subseteq AllLabels
      BY DEF Typed, TypeOK
    <3> /\ q(l) \in Reqs /\ q(l).tool = r.tool /\ q(l).expected = r.expected
        /\ q(l).missing = looked \cup {l}
        /\ q(l).step = IF l \in labels THEN "looking" ELSE "creating"
      BY DEF Reqs, Steps
    <3> HIDE DEF q
    <3> QED
      BY <1>2, AdvancesStep DEF github
  <2>7. CASE Create(i, k)
    <3> /\ UNCHANGED <<base, head, pr, labelled>> /\ r.tool = "label" /\ Running(i, k)
      BY <2>7 DEF Create, IsAt
    <3>1. CASE Ends(i, k, FALSE)
      BY <1>2, <3>1, EndsStep
    <3>2. CASE ~Ends(i, k, FALSE)
      <4> DEFINE q == [r EXCEPT !.step = "looking"]
      <4> Advances(i, k, q) /\ UNCHANGED client /\ labels' = labels \cup r.missing
        BY <2>7, <3>2 DEF Create
      <4> q \in Reqs /\ q.tool = r.tool /\ q.expected = r.expected /\ q.step = "looking"
            /\ q.missing = r.missing
        BY DEF Reqs, Steps
      <4> HIDE DEF q
      <4> QED
        BY <1>2, AdvancesStep
    <3> QED
      BY <3>1, <3>2
  <2>8. CASE AddLabels(i, k)
    <3> /\ Ends(i, k, TRUE) /\ UNCHANGED <<base, head, pr, labels>> /\ r.tool = "label"
        /\ r.step = "looking" /\ r.missing = Labels[i] /\ labelled' = labelled \cup {i}
        /\ Running(i, k)
      BY <2>8 DEF AddLabels, IsAt
    <3> Labels[i] \subseteq labels
      BY DEF Leaves
    <3> QED
      BY <1>2, EndsStep
  <2>9. CASE Raises(i, k)
    BY <1>2, <2>9, EndsStep DEF Raises, github
  <2> QED
    BY <2>1, <2>2, <2>3, <2>4, <2>5, <2>6, <2>7, <2>8, <2>9 DEF Request
<1> QED
  BY <1>1, <1>2

(* Every step keeps the invariant. *)
LEMMA InductiveStep ==
    ASSUME Inductive, [Next]_vars
    PROVE  Inductive'
<1> USE GatewayCallsAssumption
<1> Typed /\ Typed' /\ TypeOK /\ TypeOK'
  BY TypedStep DEF Inductive, Typed
<1> /\ req \in [Items -> [1..Attempts -> Reqs]] /\ req' \in [Items -> [1..Attempts -> Reqs]]
    /\ at \in [Items -> Tools \cup {"idle", "published", "failed"}]
    /\ told \in [Items -> Commits] /\ head \in [Items -> Commits]
    /\ round \in [Items -> 0..Rounds] /\ pr \in [Items -> {"none", "open", "closed"}]
  BY ReqsType DEF TypeOK, Reqs, Steps
<1> SUFFICES ASSUME NEW j \in Items
             PROVE  OneAtATime(j)' /\ Leaves(j)'
  BY DEF Inductive
<1> OneAtATime(j) /\ Leaves(j)
  BY DEF Inductive
<1>1. ASSUME NEW i \in Items, Publish(i)
      PROVE  OneAtATime(j)' /\ Leaves(j)'
  <2>1. CASE i = j
    <3> /\ \A k \in 1..Attempts : req'[j][k] = Idle
        /\ at'[j] = "commit" /\ overlap' = overlap
      BY <1>1, <2>1 DEF Publish, Calls
    <3>1. OneAtATime(j)'
      BY DEF OneAtATime, Running, Told
    <3>2. Leaves(j)'
      BY DEF Leaves, Idle, Told
    <3> QED
      BY <3>1, <3>2
  <2>2. CASE i # j
    BY <1>1, <2>2, Untouched DEF Publish, Calls, github
  <2> QED
    BY <2>1, <2>2
<1>2. ASSUME NEW i \in Items, Begin(i)
      PROVE  OneAtATime(j)' /\ Leaves(j)'
  <2>1. CASE i = j
    <3> DEFINE k == try[i]
    <3> k \in 1..Attempts /\ at[i] \in Tools
      BY <1>2 DEF Begin, TypeOK
    <3> /\ req' = [req EXCEPT ![i][k] = [Idle EXCEPT !.step = "begun", !.tool = at[i],
                                                    !.expected = told[i]]]
        /\ UNCHANGED <<at, told, round, head, pr, labels, labelled, shut>>
      BY <1>2 DEF Begin, client, github
    <3> /\ req'[i][k].step = "begun" /\ req'[i][k].tool = at[i] /\ req'[i][k].expected = told[i]
        /\ \A l \in 1..Attempts \ {k} : req'[i][l] = req[i][l]
      BY DEF Idle
    <3>1. OneAtATime(j)'
      <4> SUFFICES ASSUME i \notin overlap'
                   PROVE  OneAtATime(j)'
        BY <2>1 DEF OneAtATime
      <4> i \notin overlap /\ \A l \in 1..Attempts : ~Running(i, l)
        BY <1>2 DEF Begin
      <4> \A l \in 1..Attempts \ {k} : req'[i][l] = Idle
        BY DEF Running
      <4> QED
        BY <2>1 DEF OneAtATime, Running, Told, Tools
    <3>2. Leaves(j)'
      BY <2>1 DEF Leaves, Told
    <3> QED
      BY <3>1, <3>2
  <2>2. CASE i # j
    BY <1>2, <2>2, Untouched DEF Begin, client, github
  <2> QED
    BY <2>1, <2>2
<1>3. ASSUME NEW i \in Items, Retry(i)
      PROVE  OneAtATime(j)' /\ Leaves(j)'
  <2>1. CASE at'[j] = at[j]
    BY <1>3, <2>1, Untouched DEF Retry, github, history
  <2>2. CASE at'[j] # at[j]
    <3> at'[j] = "failed"
      BY <1>3, <2>2 DEF Retry
    <3> QED
      BY <1>3 DEF Retry, github, history, OneAtATime, Leaves, Running, Told
  <2> QED
    BY <2>1, <2>2
<1>4. ASSUME NEW i \in Items, NEW k \in 1..Attempts, Request(i, k)
      PROVE  OneAtATime(j)' /\ Leaves(j)'
  BY <1>4, RequestStep DEF Inductive
<1>5. CASE Outside
  <2> /\ UNCHANGED <<at, told, round, req, head, labelled, overlap>> /\ labels \subseteq labels'
      /\ (pr'[j] = pr[j] /\ (j \in shut' <=> j \in shut)) \/ j \in shut'
    BY <1>5 DEF Outside, client
  <2>1. OneAtATime(j)'
    BY DEF OneAtATime, Running, Told
  <2>2. Leaves(j)'
    BY DEF Leaves, Told
  <2> QED
    BY <2>1, <2>2
<1>6. CASE UNCHANGED vars
  BY <1>6, Untouched DEF vars, client, github, history
<1> QED
  BY <1>1, <1>2, <1>3, <1>4, <1>5, <1>6 DEF Next

(* Nothing has been published yet. *)
LEMMA InductiveInit == Init => Inductive
<1> SUFFICES ASSUME Init
             PROVE  Inductive
  OBVIOUS
<1> USE GatewayCallsAssumption
<1> 1 \in 1..Attempts
  OBVIOUS
<1>1. Typed
  <2> req \in [Items -> [1..Attempts -> Reqs]]
    BY CommitsNone DEF Init
  <2> QED
    BY CommitsNone DEF Init, Typed, TypeOK, Reqs, Steps
<1>2. ASSUME NEW i \in Items
      PROVE  OneAtATime(i) /\ Leaves(i)
  <2> \A k \in 1..Attempts : req[i][k] = Idle
    BY DEF Init
  <2> at[i] = "idle"
    BY DEF Init
  <2> QED
    BY DEF OneAtATime, Leaves, Running, Idle, Told
<1> QED
  BY <1>1, <1>2 DEF Inductive

LEMMA Invariant == Spec => []Inductive
BY InductiveInit, InductiveStep, PTL DEF Spec

(* Every variable keeps its type: no call takes more attempts, and no item more
   publications, than it may (_gateway_rpc). *)
THEOREM TypeCorrect == Spec => []TypeOK
<1>1. Inductive => TypeOK
  BY DEF Inductive, Typed
<1> QED
  BY <1>1, Invariant, PTL

(* What the run is told of its publication is so: its branch is at the reported
   head unless attempts overlapped, and a publication that reports success has its
   commit on an open, labelled pull request, late attempts or not, unless a person
   has closed it since (publish_work_item, commit_changes, ensure_labels). *)
THEOREM ReportTrue == Spec => []ReportIsTrue
<1>1. Inductive => HeadKnown
  BY DEF Inductive, OneAtATime, Told, HeadKnown
<1>2. Inductive => ReportIsComplete
  BY DEF Inductive, Leaves, Told, ReportIsComplete
<1> QED
  BY <1>1, <1>2, Invariant, PTL DEF ReportIsTrue

(* A publication replaces no commit but the one its client was last told of, or
   one its own attempts left (commit_changes, expected_head). *)
THEOREM WritesSeeing == Spec => NoBlindWrite
<1>1. ASSUME Inductive, [Next]_vars, NEW j \in Items, head'[j] # head[j], told[j] # None,
             j \notin overlap
      PROVE  head[j] \in {None, told[j]}
  <2> /\ head \in [Items -> Commits] /\ req \in [Items -> [1..Attempts -> Reqs]]
    BY <1>1, ReqsType DEF Inductive, Typed, TypeOK
  <2> PICK i \in Items, k \in 1..Attempts : Move(i, k)
    <3>1. head' # head
      BY <1>1
    <3>2. \A i \in Items : ~Publish(i) /\ ~Begin(i) /\ ~Retry(i)
      BY <3>1 DEF Publish, Begin, Retry, github
    <3>3. ~Outside /\ ~UNCHANGED vars
      BY <3>1 DEF Outside, vars, github
    <3>4. ASSUME NEW i \in Items, NEW k \in 1..Attempts, Request(i, k)
          PROVE  Move(i, k)
      <4>1. ~Prepare(i, k) /\ ~Check(i, k) /\ ~Issue(i, k) /\ ~Look(i, k) /\ ~Raises(i, k)
        BY <3>1 DEF Prepare, Check, Issue, Look, Raises, github
      <4>2. ~Open(i, k) /\ ~Create(i, k) /\ ~AddLabels(i, k)
        BY <3>1 DEF Open, Create, AddLabels
      <4> QED
        BY <3>4, <4>1, <4>2 DEF Request
    <3> QED
      BY <1>1, <3>2, <3>3, <3>4 DEF Next
  <2> i = j /\ req[j][k].tool = "commit" /\ req[j][k].step = "checked"
    BY <1>1 DEF Move, IsAt
  <2> Running(j, k)
    BY DEF Running, Idle
  <2> OneAtATime(j)
    BY <1>1 DEF Inductive
  <2> QED
    BY <1>1 DEF OneAtATime
<1>2. Inductive /\ [Next]_vars =>
         [\A i \in Items : head'[i] # head[i] =>
            head[i] \in {None, told[i]} \/ told[i] = None \/ i \in overlap]_vars
  BY <1>1
<1> QED
  BY <1>2, Invariant, PTL DEF Spec, NoBlindWrite
=============================================================================
