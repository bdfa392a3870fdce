--------------------------------- MODULE Chat ---------------------------------
(***************************************************************************)
(* The chat with the orchestrator (orchestrator/chat.py, connection_api.py *)
(* and runtime_config's wiring as the tools read it).  A turn has a worker *)
(* thread that drives the model and fills a queue, and a consumer that     *)
(* streams the queue to the browser and keeps the conversation's history.  *)
(* What is said is not modelled, nor are the rows of tools: an exchange is *)
(* its turn, a run its number within the turn.  Bounds: MaxCalls tool      *)
(* calls a turn, MaxRewired changes of the wiring, turns that begin in the *)
(* order of their numbers.                                                 *)
(***************************************************************************)
EXTENDS Naturals, Sequences, SequencesExt, FiniteSets, Lists

CONSTANTS
    Conversations, ChatTurns,
    ChatMakers, ChatCheckers,  \* the roles of the roster
    MaxRemembered,     \* exchanges kept of a conversation (_MAX_TURNS)
    MaxCalls, MaxRewired

ChatRoles == ChatMakers \cup ChatCheckers
Build == "run_build"
Coordinator == "orchestrator"

ASSUME ChatAssumption ==
    /\ MaxRemembered \in Nat \ {0} /\ ChatTurns \subseteq Nat
    /\ ChatMakers \cap ChatCheckers = {} /\ {Build, Coordinator} \cap ChatRoles = {}

VARIABLES
    wiredRoles,  \* the roles with a wired runtime
    rewired,     \* how often the wiring was changed
    remembered,  \* the history of each conversation
    turn,        \* the turns
    ended        \* history: the turns whose exchange was written, in order

chatVars == <<wiredRoles, rewired, remembered, turn, ended>>

NoTurn == [at |-> "none", of |-> CHOOSE c \in Conversations : TRUE, history |-> <<>>,
           tools |-> {}, worker |-> "none", tool |-> Build, runs |-> <<>>,
           queue |-> <<>>, shown |-> {}, plain |-> TRUE]

ChatInit ==
    /\ wiredRoles = ChatRoles \cup {Coordinator}
    /\ rewired = 0
    /\ remembered = [c \in Conversations |-> <<>>]
    /\ turn = [t \in ChatTurns |-> NoTurn]
    /\ ended = <<>>

ChatTypeOK ==
    /\ wiredRoles \subseteq ChatRoles \cup {Coordinator}
    /\ \A c \in Conversations : remembered[c] \in Seq(ChatTurns) /\ Len(remembered[c]) <= MaxRemembered
    /\ \A t \in ChatTurns :
         /\ turn[t].at \in {"none", "streams", "over", "left"}
         /\ turn[t].worker \in {"none", "thinks", "calls", "submitted", "failed", "done"}
         /\ turn[t].tools \subseteq ChatRoles \cup {Build}
         /\ \A i \in DOMAIN turn[t].runs :
              /\ turn[t].runs[i] \subseteq ChatRoles
              /\ ChatCheckers # {} => turn[t].runs[i] \cap ChatCheckers # {}

-----------------------------------------------------------------------------
\* The turn and its tools

Streams(c) == {t \in ChatTurns : turn[t].at = "streams" /\ turn[t].of = c}

\* The roster's wired roles, and a build when there is one; every turn anew.
Tools == LET served == wiredRoles \cap ChatRoles
         IN  served \cup (IF served = {} THEN {} ELSE {Build})

\* Two turns of one conversation at a time both start from the history there is.
TurnBegins(t, c) ==
    /\ turn[t].at = "none" /\ \A u \in ChatTurns : u < t => turn[u].at # "none"
    /\ Coordinator \in wiredRoles
    /\ turn' = [u \in ChatTurns |->
         IF u = t THEN [NoTurn EXCEPT !.at = "streams", !.of = c, !.history = remembered[c],
                                      !.tools = Tools, !.worker = "thinks",
                                      !.plain = Streams(c) = {}]
         ELSE IF u \in Streams(c) THEN [turn[u] EXCEPT !.plain = FALSE] ELSE turn[u]]
    /\ UNCHANGED <<wiredRoles, rewired, remembered, ended>>

\* Mutant: the tools of single roles are not in the list, as it was once written.
RunToolsBuild == {Build}
\* The tools whose result starts a run.
RunTools == ChatRoles \cup {Build}

\* Whom a tool's run is for: a maker goes with the checkers, a checker alone,
\* and a build with the makers that the model routes it to.
Teams(tool) ==
    IF tool \in ChatCheckers THEN {{tool}}
    ELSE IF tool \in ChatMakers THEN {{tool} \cup ChatCheckers}
    ELSE {makers \cup ChatCheckers : makers \in SUBSET ChatMakers \ {{}}}

Event(kind) == [kind |-> kind, run |-> 0]
Started(n) == [kind |-> "run_started", run |-> n]
Tells(t, event) == Append(turn[t].queue, event)

Calls(t, tool) ==
    /\ turn[t].worker = "thinks" /\ Len(turn[t].runs) < MaxCalls
    /\ tool \in turn[t].tools
    /\ turn' = [turn EXCEPT ![t].worker = "calls", ![t].tool = tool]
    /\ UNCHANGED <<wiredRoles, rewired, remembered, ended>>

\* The run is submitted and goes on by itself, accepted or rejected.
Kick(t, agents) ==
    /\ turn[t].worker = "calls"
    /\ agents \in Teams(turn[t].tool)
    /\ turn' = [turn EXCEPT ![t].worker = "submitted", ![t].runs = Append(@, agents)]
    /\ UNCHANGED <<wiredRoles, rewired, remembered, ended>>

\* After the tool: the run that its result names.
AfterTool(t) ==
    /\ turn[t].worker = "submitted"
    /\ turn' = [turn EXCEPT ![t].worker = "thinks",
         ![t].queue = IF turn[t].tool \in RunTools
                      THEN Tells(t, Started(Len(turn[t].runs))) ELSE @]
    /\ UNCHANGED <<wiredRoles, rewired, remembered, ended>>

ModelFails(t) ==
    /\ turn[t].worker = "thinks"
    /\ turn' = [turn EXCEPT ![t].worker = "failed", ![t].plain = FALSE, ![t].queue = Tells(t, Event("error"))]
    /\ UNCHANGED <<wiredRoles, rewired, remembered, ended>>

WorkerEnds(t) ==
    /\ turn[t].worker \in {"thinks", "failed"}
    /\ turn' = [turn EXCEPT ![t].worker = "done", ![t].queue = Tells(t, Event("done"))]
    /\ UNCHANGED <<wiredRoles, rewired, remembered, ended>>

-----------------------------------------------------------------------------
\* The stream to the browser

TurnYields(t) ==
    /\ turn[t].at = "streams" /\ turn[t].queue # <<>> /\ Head(turn[t].queue) # Event("done")
    /\ turn' = [turn EXCEPT ![t].queue = Tail(@), ![t].shown = @ \cup {Head(turn[t].queue)}]
    /\ UNCHANGED <<wiredRoles, rewired, remembered, ended>>

\* Mutant: the oldest exchanges are kept.
RememberedFirst(exchanges) == SubSeq(exchanges, 1, MaxRemembered)
Remembered(exchanges) ==
    SubSeq(exchanges, Len(exchanges) - MaxRemembered + 1, Len(exchanges))

\* The history is written over; a turn that failed may have kept nothing.
TurnEnds(t) ==
    /\ turn[t].at = "streams" /\ turn[t].queue # <<>> /\ Head(turn[t].queue) = Event("done")
    /\ turn' = [turn EXCEPT ![t].at = "over", ![t].queue = <<>>]
    /\ \E spoke \in IF Event("error") \in turn[t].shown THEN {<<>>, <<t>>} ELSE {<<t>>} :
         LET all == turn[t].history \o spoke IN
         remembered' = [remembered EXCEPT ![turn[t].of] =
                          IF Len(all) <= MaxRemembered THEN all ELSE Remembered(all)]
    /\ ended' = Append(ended, t)
    /\ UNCHANGED <<wiredRoles, rewired>>

\* The browser is gone: its worker goes on, and nothing of the turn is kept.
BrowserLeaves(t) ==
    /\ turn[t].at = "streams"
    /\ turn' = [turn EXCEPT ![t].at = "left"]
    /\ UNCHANGED <<wiredRoles, rewired, remembered, ended>>

Rewired(r) ==
    /\ rewired < MaxRewired /\ rewired' = rewired + 1
    /\ wiredRoles' = IF r \in wiredRoles THEN wiredRoles \ {r} ELSE wiredRoles \cup {r}
    /\ UNCHANGED <<remembered, turn, ended>>

ChatNext ==
    \/ \E t \in ChatTurns :
         \/ \E c \in Conversations : TurnBegins(t, c)
         \/ \E tool \in ChatRoles \cup {Build} : Calls(t, tool)
         \/ \E agents \in SUBSET ChatRoles : Kick(t, agents)
         \/ AfterTool(t) \/ ModelFails(t) \/ WorkerEnds(t)
         \/ TurnYields(t) \/ TurnEnds(t) \/ BrowserLeaves(t)
    \/ \E r \in ChatRoles \cup {Coordinator} : Rewired(r)

ChatSpec == ChatInit /\ [][ChatNext]_chatVars

-----------------------------------------------------------------------------
(***************************************************************************)
(* A turn that ended has told the browser of every run its tools started,  *)
(* whatever role they were for, and whether or not the model failed later: *)
(* no run goes on that the console does not show.                          *)
(***************************************************************************)
RunsAreAnnounced ==
    \A t \in ChatTurns : turn[t].at = "over" =>
      {Started(n) : n \in DOMAIN turn[t].runs} \subseteq turn[t].shown

\* The turns of a conversation that had it for themselves and did not fail.
PlainTurns(c) == {t \in ChatTurns : turn[t].plain /\ turn[t].of = c}

(***************************************************************************)
(* A conversation remembers its latest exchanges, in order: of the turns   *)
(* that ended well and had the conversation for themselves none is         *)
(* forgotten before it is MaxRemembered exchanges old.                     *)
(***************************************************************************)
ExchangesKept ==
    \A c \in Conversations :
      LET owed == Only(ended, PlainTurns(c))
          kept == Only(remembered[c], PlainTurns(c))
      IN  /\ IsSuffix(kept, owed)
          /\ Len(remembered[c]) < MaxRemembered => kept = owed
==============================================================================
