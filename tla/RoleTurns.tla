------------------------------ MODULE RoleTurns ------------------------------
(***************************************************************************)
(* One role's turns in one run, over its exchange archive                  *)
(* (orchestrator/runtime_exec.py, runtime_stage.py and the callers in      *)
(* engine.py).  The coordinator stages a tree as an object of the exchange *)
(* bucket and dispatches a command into the role's runtime.  The command   *)
(* downloads the object, runs the role's CLI on a local copy, uploads the  *)
(* copy to the same object and exits; the coordinator reads the object.    *)
(* It gives up on a command that is silent for too long and dispatches it  *)
(* once more, which does not stop the first one.                           *)
(*                                                                         *)
(* Two kinds of role share the code.  A builder is staged once, and its    *)
(* repair goes on from what its first turn uploaded.  The checker is       *)
(* staged with one pull request's tree per turn and must leave a file of   *)
(* a given name, the check.                                                *)
(***************************************************************************)
EXTENDS Integers, FiniteSets

CONSTANTS
    Items,    \* pull requests the checker authors a check for
    Repairs,  \* repair rounds of the run
    Modes,    \* how a turn may be dispatched: "headless", "live" or both
    Survivors \* bound on the commands that outlive the shell they were sent over

ASSUME RoleTurnsAssumption ==
    /\ Items \in Nat \ {0}
    /\ Repairs \in Nat
    /\ Modes \subseteq {"headless", "live"} /\ Modes # {}
    /\ Survivors \in Nat

Turns == 1..(Items + Repairs)
Attempts == 1..2
Cmds == Turns \X Attempts

(* What an archive or a work tree holds: the turn it was staged for and the
   commands that wrote into it since. *)
Contents == [seed : Turns, by : SUBSET Cmds]
Nothing == [seed |-> 0, by |-> {}]

VARIABLES
    kind,     \* "builder" or "checker"
    at,       \* where the role's thread stands
    turn,     \* the turn it takes
    attempt,  \* its dispatch of that turn (_runtime_cli)
    spent,    \* the transcript it took of the terminal shows a spent quota
    archive,  \* the object, Nothing while there is none
    cmd,      \* the commands in the role's runtimes
    work,     \* run.roledir(agent_id), what was read back last
    outcome,  \* how each turn ended
    result,   \* what it was judged on
    orphans   \* history: commands given up on that could still upload

thread == <<kind, at, turn, attempt, spent>>
vars == <<thread, archive, cmd, work, outcome, result, orphans>>

NotSent == [pc |-> "none", live |-> FALSE, tree |-> Nothing, rc |-> "none"]

\* What is known of an end: the status, or that the transcript shows that the
\* daily quota is gone.
Ends == {"ok", "failed", "quota"}

Commands == [pc : {"none", "seeding", "working", "packing", "ended"}, live : BOOLEAN,
             tree : Contents \cup {Nothing}, rc : Ends \cup {"none"}]

TypeOK ==
    /\ kind \in {"builder", "checker"}
    /\ at \in {"staging", "dispatching", "waiting", "sealing", "reading",
               "between", "over"}
    /\ turn \in Turns /\ attempt \in Attempts /\ spent \in BOOLEAN
    /\ archive \in Contents \cup {Nothing}
    /\ cmd \in [Cmds -> Commands]
    /\ work \in Contents \cup {Nothing}
    /\ outcome \in [Turns -> {"none", "done", "error"}]
    /\ result \in [Turns -> Contents \cup {Nothing}]
    /\ orphans \subseteq Cmds

Init ==
    /\ kind \in {"builder", "checker"}
    /\ at = "staging" /\ turn = 1 /\ attempt = 1 /\ spent = FALSE
    /\ archive = Nothing
    /\ cmd = [c \in Cmds |-> NotSent]
    /\ work = Nothing
    /\ outcome = [t \in Turns |-> "none"]
    /\ result = [t \in Turns |-> Nothing]
    /\ orphans = {}
-----------------------------------------------------------------------------
(* The thread of the role in the engine. *)

Mine == <<turn, attempt>>

TurnEnds(how) ==
    /\ outcome' = [outcome EXCEPT ![turn] = how]
    /\ at' = "between"
    /\ UNCHANGED <<kind, spent, turn, attempt>>

(* RoleExecutionError: one more dispatch on a fresh shell, then the turn fails. *)
Again ==
    IF attempt = 1
    THEN /\ attempt' = 2 /\ at' = "dispatching"
         /\ UNCHANGED <<kind, spent, turn, outcome>>
    ELSE TurnEnds("error")

AwaitsShell == at = "sealing" \/ (at = "waiting" /\ ~cmd[Mine].live)

Over(rc) == [NotSent EXCEPT !.pc = "ended", !.rc = rc]

(* A command that is given up on is told nothing: it goes on, or is lost with its
   shell.  A terminal goes on too, but nothing packs what is done in it. *)
GiveUp ==
    \/ /\ cmd[Mine].pc = "ended"
       /\ UNCHANGED <<cmd, orphans>>
    \/ /\ cmd[Mine].pc # "ended"
       /\ cmd' = [cmd EXCEPT ![Mine] = Over("failed")]
       /\ UNCHANGED orphans
    \/ /\ cmd[Mine].pc # "ended" /\ AwaitsShell
       /\ Cardinality(orphans) < Survivors
       /\ orphans' = orphans \cup {Mine}
       /\ UNCHANGED cmd

\* Mutant: the checker keeps the tree it was given first.
RestagesOnce == turn = 1

(* The checker gets every pull request's tree before its check is authored; a
   builder gets the base before its first turn and nothing before a repair. *)
Restages == kind = "checker" \/ turn = 1

Stage ==
    /\ at = "staging"
    /\ archive' = IF Restages THEN [seed |-> turn, by |-> {}] ELSE archive
    /\ at' = "dispatching"
    /\ UNCHANGED <<kind, spent, turn, attempt, cmd, work, outcome, result, orphans>>

StageFails ==
    /\ at = "staging" /\ Restages
    /\ TurnEnds("error")
    /\ UNCHANGED <<archive, cmd, work, result, orphans>>

(* Headless: the command is one line sent over a shell.  Live: the console hosts
   the process, so that a terminal is opened which people share. *)
Dispatch(mode) ==
    /\ at = "dispatching"
    /\ cmd' = [cmd EXCEPT ![Mine] =
          [NotSent EXCEPT !.pc = "seeding", !.live = (mode = "live")]]
    /\ at' = "waiting" /\ spent' = FALSE
    /\ UNCHANGED <<kind, turn, attempt, archive, work, outcome, result, orphans>>

Quiet(c) == c.live /\ c.pc \in {"seeding", "working"}

(* No shell opens, for the command or for the second one of TurnIdle: not a
   RoleExecutionError, so not dispatched again. *)
ShellRefused ==
    /\ \/ at = "dispatching" /\ "headless" \in Modes
       \/ at = "waiting" /\ Quiet(cmd[Mine])
    /\ TurnEnds("error")
    /\ IF at = "waiting" THEN GiveUp ELSE UNCHANGED <<cmd, orphans>>
    /\ UNCHANGED <<archive, work, result>>

(* The terminal has been quiet, if only because the download is slow: the turn is
   taken for finished, and a second shell packs the work tree as it is.  What the
   terminal still does before the packing is as if done before this step. *)
TurnIdle ==
    /\ at = "waiting" /\ Quiet(cmd[Mine])
    /\ cmd' = [cmd EXCEPT ![Mine].pc = "packing", ![Mine].rc = "none"]
    /\ at' = "sealing" /\ spent' = (cmd[Mine].rc = "quota")
    /\ UNCHANGED <<kind, turn, attempt, archive, work, outcome, result, orphans>>

(* The status arrives; of a terminal it says that nothing was packed.  A daily
   quota that the transcript shows is final. *)
Exits ==
    /\ at \in {"waiting", "sealing"} /\ cmd[Mine].pc = "ended"
    /\ \/ /\ cmd[Mine].rc = "quota"
          /\ TurnEnds("error")
       \/ /\ cmd[Mine].rc = "failed"
          /\ Again
       \/ /\ cmd[Mine].rc = "ok"
          /\ at' = "reading"
          /\ UNCHANGED <<kind, spent, turn, attempt, outcome>>
    /\ UNCHANGED <<archive, cmd, work, result, orphans>>

(* The shell closes before a status arrives, which counts as exit 0, or its
   connection breaks, which is not a RoleExecutionError. *)
LosesShell ==
    /\ AwaitsShell
    /\ \/ /\ at' = "reading"
          /\ UNCHANGED <<kind, spent, turn, attempt, outcome>>
       \/ TurnEnds("error")
    /\ GiveUp
    /\ UNCHANGED <<archive, work, result>>

\* Mutant: the deadline is looked at only when something arrives.
TimesOutHeard ==
    /\ at \in {"waiting", "sealing"} /\ cmd[Mine].pc = "ended"
    /\ Again
    /\ GiveUp
    /\ UNCHANGED <<archive, work, result>>

(* The deadline passes: the shell has said nothing of an end, or the terminal
   never came up or never fell quiet. *)
TimesOut ==
    /\ at \in {"waiting", "sealing"}
    /\ Again
    /\ GiveUp
    /\ UNCHANGED <<archive, work, result>>

(* The checker's file is read from the archive; it must be there. *)
ReadCheck ==
    /\ at = "reading" /\ kind = "checker"
    /\ \/ /\ archive.by = {}
          /\ Again
          /\ UNCHANGED <<work, result>>
       \/ /\ archive.by # {} /\ spent
          /\ TurnEnds("error")
          /\ UNCHANGED <<work, result>>
       \/ /\ archive.by # {} /\ ~spent
          /\ work' = archive
          /\ result' = [result EXCEPT ![turn] = archive]
          /\ TurnEnds("done")
    /\ UNCHANGED <<archive, cmd, orphans>>

CheckReadFails ==
    /\ at = "reading" /\ kind = "checker"
    /\ TurnEnds("error")
    /\ UNCHANGED <<archive, cmd, work, result, orphans>>

(* A builder's whole tree is read back; a transfer that fails leaves the former
   one in place.  What counts is that it differs from the base. *)
ReadTree ==
    /\ at = "reading" /\ kind = "builder"
    /\ IF spent
       THEN TurnEnds("error") /\ UNCHANGED <<work, result>>
       ELSE \E read \in {archive, work} :
               /\ work' = read
               /\ IF read.by = {}
                  THEN TurnEnds("error") /\ UNCHANGED result
                  ELSE /\ TurnEnds("done")
                       /\ result' = [result EXCEPT ![turn] = read]
    /\ UNCHANGED <<archive, cmd, orphans>>

(* A turn of the first round that fails ends the run; a repair that fails blocks
   its pull request only. *)
FirstRound == IF kind = "builder" THEN 1 ELSE Items

\* Mutant: one repair too many.
NextTurnMore ==
    /\ at = "between" /\ turn <= FirstRound + Repairs
    /\ (outcome[turn] = "done" \/ turn > FirstRound)
    /\ turn' = turn + 1 /\ attempt' = 1 /\ at' = "staging"
    /\ UNCHANGED <<kind, spent, archive, cmd, work, outcome, result, orphans>>

NextTurn ==
    /\ at = "between" /\ turn < FirstRound + Repairs
    /\ (outcome[turn] = "done" \/ turn > FirstRound)
    /\ turn' = turn + 1 /\ attempt' = 1 /\ at' = "staging"
    /\ UNCHANGED <<kind, spent, archive, cmd, work, outcome, result, orphans>>

(* The run ends, and the exchange is cleared at the best. *)
RunEnds ==
    /\ at = "between"
    /\ at' = "over"
    /\ archive' \in {archive, Nothing}
    /\ UNCHANGED <<kind, spent, turn, attempt, cmd, work, outcome, result, orphans>>
-----------------------------------------------------------------------------
(* The commands in the runtimes; nobody waits for an orphan, and none of them
   knows. *)

Becomes(c, new) ==
    /\ cmd' = [cmd EXCEPT ![c] = new]
    /\ UNCHANGED <<thread, work, outcome, result, orphans>>

Seeds(c) ==
    /\ cmd[c].pc = "seeding" /\ archive # Nothing
    /\ Becomes(c, [cmd[c] EXCEPT !.pc = "working", !.tree = archive])
    /\ UNCHANGED archive

SeedFails(c) ==
    /\ cmd[c].pc = "seeding"
    /\ Becomes(c, Over("failed"))
    /\ UNCHANGED archive

(* What the CLI may do to its tree: write into it, or leave it as it is. *)
Written(c) == {cmd[c].tree, [cmd[c].tree EXCEPT !.by = @ \cup {c}]}

(* The CLI exits; its tree is packed whatever the status. *)
CliExits(c) ==
    /\ cmd[c].pc = "working" /\ ~cmd[c].live
    /\ \E t \in Written(c), rc \in Ends :
          Becomes(c, [cmd[c] EXCEPT !.pc = "packing", !.tree = t, !.rc = rc])
    /\ UNCHANGED archive

(* The agent in the terminal writes, or shows that the quota is spent. *)
TuiWorks(c) ==
    /\ cmd[c].pc = "working" /\ cmd[c].live
    /\ \E t \in Written(c), rc \in {cmd[c].rc, "quota"} :
          Becomes(c, [cmd[c] EXCEPT !.tree = t, !.rc = rc])
    /\ UNCHANGED archive

(* Somebody closes the terminal, or its process ends. *)
TerminalEnds(c) ==
    /\ cmd[c].pc = "working" /\ cmd[c].live
    /\ Becomes(c, Over("failed"))
    /\ UNCHANGED archive

Uploads(c) ==
    /\ cmd[c].pc = "packing" /\ cmd[c].tree # Nothing
    /\ archive' = cmd[c].tree
    /\ Becomes(c, Over(IF cmd[c].rc = "none" THEN "ok" ELSE cmd[c].rc))

(* The transcript outranks this failure. *)
UploadFails(c) ==
    /\ cmd[c].pc = "packing"
    /\ Becomes(c, Over(IF cmd[c].rc = "quota" THEN "quota" ELSE "failed"))
    /\ UNCHANGED archive
-----------------------------------------------------------------------------
(* What the thread does by itself, and what its shell tells it. *)
Own ==
    \/ Stage \/ StageFails
    \/ \E m \in Modes : Dispatch(m)
    \/ Exits \/ TimesOut
    \/ ReadCheck \/ CheckReadFails \/ ReadTree
    \/ NextTurn \/ RunEnds

Told == ShellRefused \/ TurnIdle \/ LosesShell

Runtime ==
    \E c \in Cmds :
        \/ Seeds(c) \/ SeedFails(c) \/ CliExits(c) \/ TuiWorks(c)
        \/ TerminalEnds(c) \/ Uploads(c) \/ UploadFails(c)

Next == Own \/ Told \/ Runtime

Spec == Init /\ [][Next]_vars

(* The thread is scheduled and its deadlines pass; shells and runtimes owe
   nothing. *)
FairSpec == Spec /\ WF_vars(Own)
-----------------------------------------------------------------------------
(* Properties. *)

Stale(t) == \E c \in orphans : c[1] < t

(* "Nothing from the previous pull request's check can leak into the next one":
   the check of a pull request was authored in that pull request's tree and by
   this turn (_prepare_checker_checkout), and a builder's repair has what its
   earlier turns did (_require_item_change) - unless a command of an earlier turn
   was given up on while it could still upload. *)
OwnEvidence ==
    \A t \in Turns : outcome[t] = "done" =>
        \/ Stale(t)
        \/ /\ kind = "checker"
           /\ result[t].seed = t
           /\ result[t].by # {} /\ result[t].by \subseteq {t} \X Attempts
        \/ /\ kind = "builder"
           /\ \A s \in Turns :
                 s < t /\ outcome[s] = "done" => result[s].by \subseteq result[t].by

(* The same of the checker with no exception: no part of a check comes from
   another pull request's tree (_prepare_checker_checkout's docstring). *)
NoLeak ==
    \A t \in Turns :
        kind = "checker" /\ outcome[t] = "done" => result[t].seed = t

(* A dispatch is always answered, with work or with an error, whatever the runtime
   does: the wall clock decides, not the peer (_drive_shell). *)
EveryTurnIsAnswered == at = "dispatching" ~> at \in {"between", "over"}
=============================================================================
