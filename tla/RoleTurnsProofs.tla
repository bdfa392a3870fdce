--------------------------- MODULE RoleTurnsProofs ---------------------------
(***************************************************************************)
(* Theorems about RoleTurns for any number of pull requests, repairs and   *)
(* surviving commands: what a turn is judged on is its own, unless a       *)
(* command of an earlier turn survived; and nothing leaks where no command *)
(* survives its shell.                                                     *)
(***************************************************************************)
EXTENDS RoleTurns, FiniteSetTheorems, TLAPS

InTurn == at \in {"dispatching", "waiting", "sealing", "reading"}

\* The turn whose evidence is at stake next.
Coming == IF at \in {"between", "over"} THEN turn + 1 ELSE turn

Clean == \A c \in orphans : c[1] >= Coming

\* The command may still write the archive.
Running(c) == cmd[c].pc \in {"seeding", "working", "packing"}

(* A tree this turn may go on from: the checker's was staged for it; a builder's
   has all that was read back before. *)
Fits(x) ==
    /\ kind = "checker" => x.seed = turn /\ x.by \subseteq {turn} \X Attempts
    /\ kind = "builder" => work.by \subseteq x.by

Staged ==
    InTurn \/ (kind = "builder" /\ (at = "between" \/ (at = "staging" /\ turn > 1)))

(* Whoever runs is awaited or was given up on, in this turn or before. *)
Accounted ==
    /\ \A c \in Cmds : Running(c) =>
           c \in orphans \/ (c = Mine /\ at \in {"waiting", "sealing"})
    /\ \A c \in Cmds : cmd[c].pc = "working" => cmd[c].tree # Nothing
    /\ \A c \in orphans : c[1] <= turn /\ (at = "staging" => c[1] < turn)

(* As long as no earlier turn's command survives, the archive and every tree that
   may be written to it fit the turn. *)
Fitting ==
    /\ kind = "builder" /\ turn = 1 /\ at = "staging" => work.by = {}
    /\ Clean /\ Staged => Fits(archive)
    /\ Clean /\ at # "over" =>
           \A c \in Cmds : Running(c) /\ cmd[c].tree # Nothing => Fits(cmd[c].tree)

(* No turn to come is judged, and a builder's work has what its turns were judged
   on. *)
Judged ==
    /\ \A t \in Turns : t > turn => outcome[t] = "none"
    /\ Clean /\ kind = "builder" =>
           \A t \in Turns : outcome[t] = "done" => result[t].by \subseteq work.by
    /\ at \notin {"between", "over"} => outcome[turn] = "none"

\* The steps of one command (Runtime).
Runtime1(c) ==
    \/ Seeds(c) \/ SeedFails(c) \/ CliExits(c) \/ TuiWorks(c)
    \/ TerminalEnds(c) \/ Uploads(c) \/ UploadFails(c)

Inv == TypeOK /\ Accounted /\ Fitting /\ Judged /\ OwnEvidence

(* A turn that gives up on its command: it is tried again, read or failed, and the
   command has stopped or is known to go on. *)
Dropped ==
    /\ at \in {"dispatching", "waiting", "sealing"}
    /\ at' \in {"dispatching", "reading", "between"}
    /\ UNCHANGED <<kind, turn, spent, archive, work, result>>
    /\ attempt' \in Attempts
    /\ outcome' \in [Turns -> {"none", "done", "error"}]
    /\ \A t \in Turns : t # turn => outcome'[t] = outcome[t]
    /\ outcome'[turn] # "done"
    /\ at' # "between" => outcome' = outcome
    /\ cmd' \in [Cmds -> Commands]
    /\ \A c \in Cmds : cmd'[c] = cmd[c] \/ cmd'[c].pc = "ended"
    /\ \A c \in Cmds : Running(c)' => c \in orphans'
    /\ orphans' \in {orphans, orphans \cup {Mine}}

(* GiveUp leaves every command as it was, ended, or known to survive. *)
LEMMA GiveUpEffect ==
    ASSUME TypeOK, Accounted, GiveUp
    PROVE  /\ cmd' \in [Cmds -> Commands]
           /\ \A c \in Cmds : cmd'[c] = cmd[c] \/ cmd'[c].pc = "ended"
           /\ \A c \in Cmds : Running(c)' => c \in orphans'
           /\ orphans' \in {orphans, orphans \cup {Mine}}
<1> DEFINE gone == Over("failed")
<1>1. Mine \in Cmds
  BY DEF TypeOK, Mine, Cmds
<1>2. gone \in Commands /\ gone.pc = "ended"
  BY DEF Over, NotSent, Commands, Ends
<1>3. CASE cmd[Mine].pc = "ended" /\ UNCHANGED <<cmd, orphans>>
  BY <1>3 DEF TypeOK, Accounted, Running
<1>4. CASE cmd' = [cmd EXCEPT ![Mine] = gone] /\ UNCHANGED orphans
  <2> HIDE DEF gone
  <2> QED
    BY <1>1, <1>2, <1>4 DEF TypeOK, Accounted, Running
<1>5. CASE orphans' = orphans \cup {Mine} /\ UNCHANGED cmd
  BY <1>5 DEF TypeOK, Accounted, Running
<1> QED
  BY <1>3, <1>4, <1>5 DEF GiveUp

(* Three actions of the thread drop a command. *)
LEMMA DroppedEffect ==
    ASSUME TypeOK, Accounted, Judged, ShellRefused \/ LosesShell \/ TimesOut
    PROVE  Dropped
<1> USE DEF TypeOK, Judged, Attempts
<1>1. CASE ShellRefused /\ at = "waiting"
  BY <1>1, GiveUpEffect DEF ShellRefused, Dropped, TurnEnds
<1>2. CASE ShellRefused /\ at # "waiting"
  BY <1>2 DEF ShellRefused, Dropped, TurnEnds, Accounted, Running
<1>3. CASE LosesShell
  BY <1>3, GiveUpEffect DEF LosesShell, Dropped, TurnEnds, AwaitsShell
<1>4. CASE TimesOut
  BY <1>4, GiveUpEffect DEF TimesOut, Dropped, Again, TurnEnds
<1> QED
  BY <1>1, <1>2, <1>3, <1>4

(* A step of one command: its tree is lost, is downloaded, or grows by what it
   writes, and the archive becomes that tree or stays. *)
Worked(c) ==
    /\ Running(c)
    /\ UNCHANGED <<kind, at, turn, attempt, spent, work, outcome, result, orphans>>
    /\ cmd' \in [Cmds -> Commands]
    /\ \A d \in Cmds \ {c} : cmd'[d] = cmd[d]
    /\ cmd'[c].pc = "working" => cmd'[c].tree # Nothing
    /\ \/ cmd'[c].tree = Nothing
       \/ archive # Nothing /\ cmd'[c].tree = archive
       \/ /\ cmd[c].tree # Nothing
          /\ cmd'[c].tree.seed = cmd[c].tree.seed
          /\ cmd'[c].tree.by \in {cmd[c].tree.by, cmd[c].tree.by \cup {c}}
    /\ archive' = archive \/ (cmd[c].tree # Nothing /\ archive' = cmd[c].tree)

LEMMA WorkedEffect ==
    ASSUME TypeOK, Accounted, NEW c \in Cmds, Runtime1(c)
    PROVE  Worked(c)
<1> USE DEF TypeOK, Running, Worked, Becomes, thread
<1>1. cmd[c] \in Commands
  OBVIOUS
<1>2. Over("failed") \in Commands /\ Over("failed").pc = "ended" /\ Over("failed").tree = Nothing
  BY DEF Over, NotSent, Commands, Ends
<1>3. ASSUME NEW new \in Commands, Becomes(c, new)
      PROVE  /\ cmd' \in [Cmds -> Commands] /\ cmd'[c] = new
             /\ \A d \in Cmds \ {c} : cmd'[d] = cmd[d]
             /\ UNCHANGED <<kind, at, turn, attempt, spent, work, outcome, result, orphans>>
  BY <1>3
<1>4. ASSUME cmd[c].pc = "working", NEW t \in Written(c)
      PROVE  /\ t \in Contents /\ t # Nothing /\ cmd[c].tree # Nothing
             /\ t.seed = cmd[c].tree.seed
             /\ t.by \in {cmd[c].tree.by, cmd[c].tree.by \cup {c}}
  <2>1. cmd[c].tree \in Contents
    BY <1>1, <1>4 DEF Accounted, Commands
  <2>2. \A by \in SUBSET Cmds : [cmd[c].tree EXCEPT !.by = by] \in Contents
    BY <2>1 DEF Contents
  <2>3. \A x \in Contents : x # Nothing
    BY RoleTurnsAssumption DEF Contents, Nothing, Turns
  <2>4. CASE t = cmd[c].tree
    BY <2>1, <2>3, <2>4
  <2>5. CASE t = [cmd[c].tree EXCEPT !.by = @ \cup {c}]
    <3>1. cmd[c].tree.by \cup {c} \in SUBSET Cmds
      BY <2>1 DEF Contents
    <3>2. t \in Contents
      BY <2>2, <2>5, <3>1
    <3> QED
      BY <2>1, <2>3, <2>5, <3>2 DEF Contents
  <2> QED
    BY <2>4, <2>5 DEF Written
<1> HIDE DEF Becomes
<1>5. CASE Seeds(c)
  <2> DEFINE new == [cmd[c] EXCEPT !.pc = "working", !.tree = archive]
  <2>1. new \in Commands /\ new.pc = "working" /\ new.tree = archive
    BY <1>1 DEF Commands
  <2>2. Becomes(c, new) /\ archive # Nothing /\ UNCHANGED archive /\ cmd[c].pc = "seeding"
    BY <1>5 DEF Seeds
  <2> HIDE DEF new
  <2> QED
    BY <1>3, <2>1, <2>2
<1>6. CASE SeedFails(c)
  BY <1>2, <1>3, <1>6 DEF SeedFails
<1>7. CASE CliExits(c)
  <2>1. PICK t \in Written(c), rc \in Ends :
            Becomes(c, [cmd[c] EXCEPT !.pc = "packing", !.tree = t, !.rc = rc])
    BY <1>7 DEF CliExits
  <2> DEFINE new == [cmd[c] EXCEPT !.pc = "packing", !.tree = t, !.rc = rc]
  <2>2. cmd[c].pc = "working" /\ UNCHANGED archive
    BY <1>7 DEF CliExits
  <2>3. new \in Commands /\ new.pc = "packing" /\ new.tree = t
    BY <1>1, <1>4, <2>2 DEF Commands
  <2> HIDE DEF new
  <2>4. Becomes(c, new)
    BY <2>1 DEF new
  <2> QED
    BY <1>3, <1>4, <2>2, <2>3, <2>4
<1>8. CASE TuiWorks(c)
  <2>1. PICK t \in Written(c), rc \in {cmd[c].rc, "quota"} :
            Becomes(c, [cmd[c] EXCEPT !.tree = t, !.rc = rc])
    BY <1>8 DEF TuiWorks
  <2> DEFINE new == [cmd[c] EXCEPT !.tree = t, !.rc = rc]
  <2>2. cmd[c].pc = "working" /\ UNCHANGED archive
    BY <1>8 DEF TuiWorks
  <2>3. new \in Commands /\ new.pc = "working" /\ new.tree = t
    BY <1>1, <1>4, <2>2 DEF Commands, Ends
  <2> HIDE DEF new
  <2>4. Becomes(c, new)
    BY <2>1 DEF new
  <2> QED
    BY <1>3, <1>4, <2>2, <2>3, <2>4
<1>9. CASE TerminalEnds(c)
  BY <1>2, <1>3, <1>9 DEF TerminalEnds
<1>10. CASE Uploads(c) \/ UploadFails(c)
  <2>1. PICK rc \in Ends : Becomes(c, Over(rc))
    BY <1>1, <1>10 DEF Uploads, UploadFails, Commands, Ends
  <2>2. Over(rc) \in Commands /\ Over(rc).pc = "ended" /\ Over(rc).tree = Nothing
    BY DEF Over, NotSent, Commands, Ends
  <2>3. /\ cmd[c].pc = "packing"
        /\ archive' = archive \/ (cmd[c].tree # Nothing /\ archive' = cmd[c].tree)
    BY <1>10 DEF Uploads, UploadFails
  <2> QED
    BY <1>3, <2>1, <2>2, <2>3
<1> QED
  BY <1>5, <1>6, <1>7, <1>8, <1>9, <1>10 DEF Runtime1

(* What reading a builder's tree back does. *)
ReadBack ==
    /\ at = "reading" /\ at' = "between" /\ kind = "builder"
    /\ UNCHANGED <<kind, spent, turn, attempt, archive, cmd, orphans>>
    /\ work' \in {archive, work}
    /\ \/ /\ outcome' = [outcome EXCEPT ![turn] = "error"]
          /\ result' = result
          /\ work' = work \/ work'.by = {}
       \/ /\ outcome' = [outcome EXCEPT ![turn] = "done"]
          /\ result' = [result EXCEPT ![turn] = work']

LEMMA ReadBackEffect ==
    ASSUME ReadTree
    PROVE  ReadBack
<1>1. CASE spent
  BY <1>1 DEF ReadTree, ReadBack, TurnEnds
<1>2. CASE ~spent
  <2>1. PICK read \in {archive, work} :
           /\ work' = read
           /\ IF read.by = {}
              THEN TurnEnds("error") /\ UNCHANGED result
              ELSE /\ TurnEnds("done")
                   /\ result' = [result EXCEPT ![turn] = read]
    BY <1>2 DEF ReadTree
  <2>2. CASE read.by = {}
    BY <2>1, <2>2 DEF ReadTree, ReadBack, TurnEnds
  <2>3. CASE read.by # {}
    BY <2>1, <2>3 DEF ReadTree, ReadBack, TurnEnds
  <2> QED
    BY <2>2, <2>3
<1> QED
  BY <1>1, <1>2

(* It judges the turn by what it read, and no other turn. *)
LEMMA ReadBackJudges ==
    ASSUME TypeOK, ReadBack
    PROVE  /\ \A t \in Turns : t # turn => outcome'[t] = outcome[t] /\ result'[t] = result[t]
           /\ outcome'[turn] = "done" => result'[turn] = work'
<1>1. /\ turn \in Turns
      /\ outcome \in [Turns -> {"none", "done", "error"}]
      /\ result \in [Turns -> Contents \cup {Nothing}]
  BY DEF TypeOK
<1> QED
  BY <1>1 DEF ReadBack

(* Another dispatch, or an error. *)
LEMMA AgainEffect ==
    ASSUME TypeOK, Again
    PROVE  /\ UNCHANGED <<kind, spent, turn>>
           /\ attempt' \in Attempts /\ at' \in {"dispatching", "between"}
           /\ outcome' \in [Turns -> {"none", "done", "error"}]
BY DEF TypeOK, Again, TurnEnds, Attempts

(* Type correctness is kept. *)
LEMMA TypeOKStep ==
    ASSUME Inv, [Next]_vars
    PROVE  TypeOK'
<1> USE RoleTurnsAssumption DEF Inv, TypeOK
<1>1. ASSUME Own \/ Told
      PROVE  TypeOK'
  <2> USE DEF Turns, Attempts
  <2>1. CASE Stage
    <3>1. [seed |-> turn, by |-> {}] \in Contents
      BY DEF Contents
    <3> QED
      BY <2>1, <3>1 DEF Stage
  <2>2. CASE StageFails
    BY <2>2 DEF StageFails, TurnEnds
  <2>3. ASSUME NEW m \in Modes, Dispatch(m)
        PROVE  TypeOK'
    <3> DEFINE new == [NotSent EXCEPT !.pc = "seeding", !.live = (m = "live")]
    <3>1. new \in Commands
      BY DEF NotSent, Commands
    <3>2. cmd' = [cmd EXCEPT ![Mine] = new]
      BY <2>3 DEF Dispatch
    <3> HIDE DEF new
    <3>3. cmd' \in [Cmds -> Commands]
      BY <3>1, <3>2
    <3>4. /\ at' = "waiting" /\ spent' = FALSE
          /\ UNCHANGED <<kind, turn, attempt, archive, work, outcome, result, orphans>>
      BY <2>3 DEF Dispatch
    <3> QED
      BY <3>3, <3>4
  <2>4. CASE Dropped
    <3>1. orphans' \subseteq Cmds
      BY <2>4 DEF Dropped, Mine, Cmds
    <3> QED
      BY <2>4, <3>1 DEF Dropped
  <2>5. CASE TurnIdle
    <3> DEFINE new == [cmd[Mine] EXCEPT !.pc = "packing", !.rc = "none"]
    <3>1. Mine \in Cmds
      BY DEF Mine, Cmds
    <3>2. new \in Commands
      BY <3>1 DEF Commands
    <3>3. cmd' = [cmd EXCEPT ![Mine] = new]
      BY <2>5, <3>1 DEF TurnIdle
    <3> HIDE DEF new
    <3> QED
      BY <2>5, <3>2, <3>3 DEF TurnIdle
  <2>6. CASE Exits
    BY <2>6 DEF Exits, TurnEnds, Again
  <2>7. CASE ReadCheck
    <3>1. CASE Again /\ UNCHANGED <<work, result>>
      BY <2>7, <3>1, AgainEffect DEF ReadCheck
    <3>2. CASE TurnEnds("error") /\ UNCHANGED <<work, result>>
      BY <2>7, <3>2 DEF ReadCheck, TurnEnds
    <3>3. CASE /\ TurnEnds("done") /\ work' = archive
               /\ result' = [result EXCEPT ![turn] = archive]
      BY <2>7, <3>3 DEF ReadCheck, TurnEnds
    <3> QED
      BY <2>7, <3>1, <3>2, <3>3 DEF ReadCheck
  <2>8. CASE CheckReadFails
    BY <2>8 DEF CheckReadFails, TurnEnds
  <2>9. CASE ReadTree
    <3>1. ReadBack
      BY <2>9, ReadBackEffect
    <3> QED
      BY <3>1 DEF ReadBack
  <2>10. CASE NextTurn
    BY <2>10 DEF NextTurn, FirstRound
  <2>11. CASE RunEnds
    BY <2>11 DEF RunEnds
  <2> QED
    BY <1>1, DroppedEffect, <2>1, <2>2, <2>3, <2>4, <2>5, <2>6, <2>7, <2>8, <2>9,
       <2>10, <2>11 DEF Own, Told
<1>2. ASSUME NEW c \in Cmds, Worked(c)
      PROVE  TypeOK'
  BY <1>2 DEF Worked, Commands
<1>3. CASE UNCHANGED vars
  BY <1>3 DEF vars, thread
<1> QED
  BY <1>1, <1>2, <1>3, WorkedEffect DEF Next, Runtime, Runtime1

(* Running commands stay accounted for. *)
LEMMA AccountedStep ==
    ASSUME Inv, [Next]_vars
    PROVE  Accounted'
<1> USE RoleTurnsAssumption DEF Inv, TypeOK, Accounted, Running, Cmds, Turns, Attempts, Mine, NotSent
<1>1. ASSUME Own \/ Told
      PROVE  Accounted'
  <2>1. CASE Stage
    BY <2>1 DEF Stage, Restages
  <2>2. CASE StageFails
    BY <2>2 DEF StageFails, TurnEnds, Restages
  <2>3. CASE \E m \in Modes : Dispatch(m)
    BY <2>3 DEF Dispatch
  <2>4. CASE Dropped
    BY <2>4 DEF Dropped
  <2>5. CASE TurnIdle
    BY <2>5 DEF TurnIdle, Quiet
  <2>6. CASE Exits
    BY <2>6 DEF Exits, TurnEnds, Again
  <2>7. CASE ReadCheck
    BY <2>7 DEF ReadCheck, Again, TurnEnds
  <2>8. CASE CheckReadFails
    BY <2>8 DEF CheckReadFails, TurnEnds
  <2>9. CASE ReadTree
    BY <2>9 DEF ReadTree, TurnEnds
  <2>10. CASE NextTurn
    BY <2>10 DEF NextTurn, FirstRound
  <2>11. CASE RunEnds
    BY <2>11 DEF RunEnds
  <2> QED
    BY <1>1, DroppedEffect, <2>1, <2>2, <2>3, <2>4, <2>5, <2>6, <2>7, <2>8, <2>9, <2>10, <2>11 DEF Own, Told
<1>2. ASSUME NEW c \in Cmds, Worked(c)
      PROVE  Accounted'
  BY <1>2 DEF Worked
<1>3. CASE UNCHANGED vars
  BY <1>3 DEF vars, thread
<1> QED
  BY <1>1, <1>2, <1>3, WorkedEffect DEF Next, Runtime, Runtime1

(* Within a turn, and to its end, Fitting only depends on the trees of the commands
   that run. *)
LEMMA FittingKept ==
    ASSUME TypeOK, Fitting,
           at \in {"dispatching", "waiting", "sealing", "reading"},
           at' \in {"dispatching", "waiting", "sealing", "reading", "between"},
           UNCHANGED <<kind, turn, archive>>, orphans \subseteq orphans',
           kind = "builder" => work' = work,
           \A c \in Cmds : Running(c)' /\ cmd'[c].tree # Nothing =>
               Running(c) /\ cmd'[c].tree = cmd[c].tree
    PROVE  Fitting'
<1>1. ASSUME Clean'
      PROVE  Clean
  <2>1. turn \in Int /\ \A c \in orphans : c[1] \in Int
    BY RoleTurnsAssumption DEF TypeOK, Cmds, Turns
  <2>2. Coming = turn /\ Coming' \in {turn, turn + 1}
    BY DEF Coming
  <2> QED
    BY <1>1, <2>1, <2>2 DEF Clean
<1>2. ASSUME NEW x, Fits(x)
      PROVE  Fits(x)'
  BY <1>2 DEF Fits
<1>3. Staged
  BY DEF Staged, InTurn
<1>4. turn \in Int
  BY RoleTurnsAssumption DEF TypeOK, Turns
<1>5. Clean' => Fits(archive)'
  BY <1>1, <1>2, <1>3, <1>4 DEF Fitting, Fits
<1>6. ASSUME Clean', NEW c \in Cmds, Running(c)', cmd'[c].tree # Nothing
      PROVE  Fits(cmd[c].tree)'
  <2>1. Fits(cmd[c].tree) /\ cmd'[c].tree = cmd[c].tree
    BY <1>1, <1>4, <1>6 DEF Fitting
  <2> QED
    BY <2>1 DEF Fits
<1> QED
  BY <1>5, <1>6 DEF Fitting

(* Trees keep fitting the turn. *)
LEMMA FittingStep ==
    ASSUME Inv, [Next]_vars
    PROVE  Fitting'
<1> USE RoleTurnsAssumption DEF Inv, TypeOK, Accounted, Fitting, Fits, Staged, InTurn, Clean, Coming, Running, Cmds, Turns, Attempts, Mine, NotSent, Nothing, Contents
<1>1. ASSUME Own \/ Told
      PROVE  Fitting'
  <2>1. CASE Stage
    BY <2>1 DEF Stage, Restages
  <2>2. CASE StageFails
    BY <2>2 DEF StageFails, TurnEnds, Restages
  <2>3. CASE \E m \in Modes : Dispatch(m)
    <3>1. \A c \in Cmds : cmd'[c] = cmd[c] \/ cmd'[c].tree = Nothing
      BY <2>3 DEF Dispatch
    <3> QED
      BY <2>3, <3>1, FittingKept DEF Dispatch
  <2>4. CASE Dropped
    BY <2>4, FittingKept DEF Dropped
  <2>5. CASE TurnIdle
    <3>1. Mine \in Cmds /\ Running(Mine) /\ cmd'[Mine].tree = cmd[Mine].tree
      BY <2>5 DEF TurnIdle, Quiet
    <3>2. \A c \in Cmds : c # Mine => cmd'[c] = cmd[c]
      BY <2>5 DEF TurnIdle
    <3>3. ASSUME NEW c \in Cmds, Running(c)'
          PROVE  Running(c) /\ cmd'[c].tree = cmd[c].tree
      BY <3>1, <3>2, <3>3
    <3> QED
      BY <2>5, <3>3, FittingKept DEF TurnIdle
  <2>6. CASE Exits
    <3>1. at' \in {"dispatching", "reading", "between"} /\ UNCHANGED <<kind, turn>>
      BY <2>6, AgainEffect DEF Exits, TurnEnds
    <3> QED
      BY <2>6, <3>1, FittingKept DEF Exits
  <2>7. CASE ReadCheck
    <3>1. at' \in {"dispatching", "between"} /\ UNCHANGED <<kind, turn>>
      BY <2>7, AgainEffect DEF ReadCheck, TurnEnds
    <3> QED
      BY <2>7, <3>1, FittingKept DEF ReadCheck
  <2>8. CASE CheckReadFails
    BY <2>8, FittingKept DEF CheckReadFails, TurnEnds
  <2>9. CASE ReadTree
    BY <2>9 DEF ReadTree, TurnEnds
  <2>10. CASE NextTurn
    BY <2>10 DEF NextTurn, FirstRound
  <2>11. CASE RunEnds
    BY <2>11 DEF RunEnds
  <2> QED
    BY <1>1, DroppedEffect, <2>1, <2>2, <2>3, <2>4, <2>5, <2>6, <2>7, <2>8, <2>9, <2>10, <2>11 DEF Own, Told
<1>2. ASSUME NEW c \in Cmds, Worked(c)
      PROVE  Fitting'
  <2>1. UNCHANGED <<kind, at, turn, work, orphans>>
    BY <1>2 DEF Worked
  <2>2. Clean /\ at # "over" => Staged /\ Fits(archive) /\ c[1] = turn
    BY <1>2 DEF Worked
  <2>3. Clean /\ at # "over" /\ cmd[c].tree # Nothing => Fits(cmd[c].tree)
    BY <1>2 DEF Worked
  <2>4. Clean /\ at # "over" => Fits(archive')
    BY <1>2, <2>2, <2>3 DEF Worked
  <2>5. Clean /\ at # "over" /\ cmd'[c].tree # Nothing => Fits(cmd'[c].tree)
    BY <1>2, <2>2, <2>3 DEF Worked
  <2>6. \A d \in Cmds : d # c => cmd'[d] = cmd[d]
    BY <1>2 DEF Worked
  <2>7. ASSUME Clean', at # "over", NEW d \in Cmds, Running(d)', cmd'[d].tree # Nothing
        PROVE  Fits(cmd[d].tree)'
    BY <2>1, <2>5, <2>6, <2>7
  <2>8. Clean' /\ Staged' => Fits(archive)'
    BY <2>1, <2>4
  <2> QED
    BY <2>1, <2>7, <2>8
<1>3. CASE UNCHANGED vars
  BY <1>3 DEF vars, thread
<1> QED
  BY <1>1, <1>2, <1>3, WorkedEffect DEF Next, Runtime, Runtime1

(* Judged is kept. *)
LEMMA JudgedStep ==
    ASSUME Inv, [Next]_vars
    PROVE  Judged'
<1> USE RoleTurnsAssumption DEF Inv, TypeOK, Accounted, Judged, Fitting, Fits, Staged, InTurn, Clean, Coming, Turns, Attempts, Cmds
<1>1. ASSUME Own \/ Told
      PROVE  Judged'
  <2>1. CASE Stage
    BY <2>1 DEF Stage, Restages
  <2>2. CASE StageFails
    BY <2>2 DEF StageFails, TurnEnds, Restages
  <2>3. CASE \E m \in Modes : Dispatch(m)
    BY <2>3 DEF Dispatch
  <2>4. CASE Dropped
    BY <2>4 DEF Dropped
  <2>5. CASE TurnIdle
    BY <2>5 DEF TurnIdle, Quiet
  <2>6. CASE Exits
    <3>1. CASE TurnEnds("error")
      BY <2>6, <3>1 DEF Exits, TurnEnds
    <3>2. CASE at' # "between" /\ UNCHANGED <<kind, turn, outcome>>
      BY <2>6, <3>2 DEF Exits
    <3> QED
      BY <2>6, <3>1, <3>2 DEF Exits, Again
  <2>7. CASE ReadCheck
    BY <2>7 DEF ReadCheck, Again, TurnEnds
  <2>8. CASE CheckReadFails
    BY <2>8 DEF CheckReadFails, TurnEnds
  <2>9. CASE ReadTree
    <3>1. ReadBack
      BY <2>9, ReadBackEffect
    <3>2. /\ at = "reading" /\ at' = "between" /\ kind = "builder"
          /\ UNCHANGED <<kind, turn, orphans>>
      BY <3>1 DEF ReadBack
    <3>3. Clean => work.by \subseteq work'.by
      BY <3>1, <3>2 DEF ReadBack
    <3>4. /\ \A t \in Turns : t # turn => outcome'[t] = outcome[t] /\ result'[t] = result[t]
          /\ outcome'[turn] = "done" => result'[turn] = work'
      BY <3>1, ReadBackJudges
    <3>5. Clean' => Clean
      BY <3>2
    <3> QED
      BY <3>2, <3>3, <3>4, <3>5
  <2>10. CASE NextTurn
    BY <2>10 DEF NextTurn, FirstRound
  <2>11. CASE RunEnds
    BY <2>11 DEF RunEnds
  <2> QED
    BY <1>1, DroppedEffect, <2>1, <2>2, <2>3, <2>4, <2>5, <2>6, <2>7, <2>8, <2>9, <2>10, <2>11 DEF Own, Told
<1>2. ASSUME NEW c \in Cmds, Worked(c)
      PROVE  Judged'
  BY <1>2 DEF Worked
<1>3. CASE UNCHANGED vars
  BY <1>3 DEF vars, thread
<1> QED
  BY <1>1, <1>2, <1>3, WorkedEffect DEF Next, Runtime, Runtime1

(* The property itself is kept. *)
LEMMA OwnEvidenceStep ==
    ASSUME Inv, [Next]_vars
    PROVE  OwnEvidence'
<1> USE RoleTurnsAssumption DEF Inv, TypeOK, Accounted, Fitting, Fits, Staged, InTurn, Clean, Coming, Judged, OwnEvidence, Stale, Turns, Attempts, Cmds
<1>1. ASSUME Own \/ Told
      PROVE  OwnEvidence'
  <2>1. CASE Stage
    BY <2>1 DEF Stage, Restages
  <2>2. CASE StageFails
    BY <2>2 DEF StageFails, TurnEnds, Restages
  <2>3. CASE \E m \in Modes : Dispatch(m)
    BY <2>3 DEF Dispatch
  <2>4. CASE Dropped
    BY <2>4 DEF Dropped
  <2>5. CASE TurnIdle
    BY <2>5 DEF TurnIdle, Quiet
  <2>6. CASE Exits
    <3>1. CASE TurnEnds("error")
      BY <2>6, <3>1 DEF Exits, TurnEnds
    <3>2. CASE at' # "between" /\ UNCHANGED <<kind, turn, outcome>>
      BY <2>6, <3>2 DEF Exits
    <3> QED
      BY <2>6, <3>1, <3>2 DEF Exits, Again
  <2>7. CASE ReadCheck
    <3>1. CASE TurnEnds("error") /\ UNCHANGED result
      BY <2>7, <3>1 DEF ReadCheck, TurnEnds
    <3>2. CASE UNCHANGED <<kind, turn, outcome, result>>
      BY <2>7, <3>2 DEF ReadCheck
    <3>3. CASE /\ archive.by # {} /\ TurnEnds("done")
               /\ result' = [result EXCEPT ![turn] = archive]
      BY <2>7, <3>3 DEF ReadCheck, TurnEnds
    <3> QED
      BY <2>7, <3>1, <3>2, <3>3 DEF ReadCheck, Again
  <2>8. CASE CheckReadFails
    BY <2>8 DEF CheckReadFails, TurnEnds
  <2>9. CASE ReadTree
    <3>1. ReadBack
      BY <2>9, ReadBackEffect
    <3>2. /\ at = "reading" /\ at' = "between" /\ kind = "builder"
          /\ UNCHANGED <<kind, turn, orphans>>
      BY <3>1 DEF ReadBack
    <3>3. Clean => work.by \subseteq work'.by
      BY <3>1, <3>2 DEF ReadBack
    <3>4. /\ \A t \in Turns : t # turn => outcome'[t] = outcome[t] /\ result'[t] = result[t]
          /\ outcome'[turn] = "done" => result'[turn] = work'
      BY <3>1, ReadBackJudges
    <3>5. Clean <=> ~Stale(turn)
      BY <3>2
    <3>6. \A t \in Turns : Stale(t)' <=> Stale(t)
      BY <3>2
    <3>7. ASSUME NEW t \in Turns, outcome'[t] = "done", ~Stale(t)',
                 NEW u \in Turns, u < t, outcome'[u] = "done"
          PROVE  result'[u].by \subseteq result'[t].by
      <4>1. t <= turn /\ u # turn
        BY <3>4, <3>7
      <4>2. CASE t = turn
        BY <3>2, <3>3, <3>4, <3>5, <3>6, <3>7, <4>1, <4>2
      <4>3. CASE t # turn
        BY <3>2, <3>4, <3>6, <3>7, <4>1, <4>3
      <4> QED
        BY <4>2, <4>3
    <3> QED
      BY <3>2, <3>7
  <2>10. CASE NextTurn
    BY <2>10 DEF NextTurn, FirstRound
  <2>11. CASE RunEnds
    BY <2>11 DEF RunEnds
  <2> QED
    BY <1>1, DroppedEffect, <2>1, <2>2, <2>3, <2>4, <2>5, <2>6, <2>7, <2>8, <2>9, <2>10, <2>11 DEF Own, Told
<1>2. ASSUME NEW c \in Cmds, Worked(c)
      PROVE  OwnEvidence'
  BY <1>2 DEF Worked
<1>3. CASE UNCHANGED vars
  BY <1>3 DEF vars, thread
<1> QED
  BY <1>1, <1>2, <1>3, WorkedEffect DEF Next, Runtime, Runtime1

(* The invariant holds. *)
THEOREM InvHolds ==
    Spec => []Inv
<1>1. ASSUME Init
      PROVE  Inv
  <2> USE <1>1, RoleTurnsAssumption DEF Init, Turns
  <2>1. NotSent \in Commands /\ NotSent.pc = "none"
    BY DEF NotSent, Commands
  <2>2. TypeOK
    <3>1. 1 \in Turns /\ 1 \in Attempts
      BY DEF Attempts
    <3>2. cmd \in [Cmds -> Commands]
      BY <2>1
    <3> QED
      BY <3>1, <3>2 DEF TypeOK
  <2>3. Accounted
    BY <2>1 DEF Accounted, Running
  <2>4. Fitting
    BY <2>1 DEF Fitting, Running, Staged, InTurn, Nothing
  <2> QED
    BY <2>2, <2>3, <2>4 DEF Inv, Judged, OwnEvidence
<1>2. Inv /\ [Next]_vars => Inv'
  BY TypeOKStep, AccountedStep, FittingStep, JudgedStep, OwnEvidenceStep DEF Inv
<1> QED
  BY <1>1, <1>2, PTL DEF Spec

(* Every variable has its type. *)
THEOREM TypeCorrect ==
    Spec => []TypeOK
BY InvHolds, PTL DEF Inv

(* What a turn is judged on is its own, in every history where no command of an
   earlier turn survived being given up on. *)
THEOREM EvidenceIsTheTurns ==
    Spec => []OwnEvidence
BY InvHolds, PTL DEF Inv

(* Where no command survives its shell, nothing of one pull request's tree gets
   into another's check. *)
THEOREM NothingLeaks ==
    ASSUME Survivors = 0
    PROVE  Spec => []NoLeak
<1> DEFINE None == orphans = {}
<1>1. Init => None
  BY DEF Init
<1>2. None /\ [Next]_vars => None'
  <2> SUFFICES ASSUME None, [Next]_vars
               PROVE  None'
    OBVIOUS
  <2>1. ~(Cardinality(orphans) < Survivors)
    BY FS_EmptySet
  <2>2. GiveUp => None'
    BY <2>1 DEF GiveUp
  <2>3. CASE Own \/ Told
    BY <2>2, <2>3
    DEF Own, Told, Stage, StageFails, Dispatch, ShellRefused, TurnIdle, Exits, LosesShell,
        TimesOut, ReadCheck, CheckReadFails, ReadTree, NextTurn, RunEnds
  <2>4. CASE Runtime
    BY <2>4
    DEF Runtime, Seeds, SeedFails, CliExits, TuiWorks, TerminalEnds, Uploads, UploadFails,
        Becomes
  <2>5. CASE UNCHANGED vars
    BY <2>5 DEF vars
  <2> QED
    BY <2>3, <2>4, <2>5 DEF Next
<1>3. None /\ OwnEvidence => NoLeak
  BY DEF OwnEvidence, NoLeak, Stale
<1> QED
  BY <1>1, <1>2, <1>3, EvidenceIsTheTurns, PTL DEF Spec
=============================================================================
