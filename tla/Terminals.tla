------------------------------ MODULE Terminals ------------------------------
(***************************************************************************)
(* The console's local terminals (interactive-api/interactive_api.py).     *)
(* Requests hold one lock for a whole action; the reader thread of a shell *)
(* and the streams that follow it do not.  A shell's output is counted in  *)
(* chunks: its n-th chunk is <<shell, n>>, and a character that a read cut *)
(* in two is named by the chunk it begins in.  Bounds: MaxShells shells,   *)
(* MaxChunks chunks of one or of two, a buffer of Cap chunks.              *)
(***************************************************************************)
EXTENDS Integers, Lists, SequencesExt, FiniteSetsExt

CONSTANTS
    DevSessions,    \* Development sessions, on folders of the box
    RoleSessions,   \* sessions on a scratch workspace of their own
    Recreating,     \* role sessions whose CLI config is staged in a subdirectory
    DevFolders,     \* the folders a Development session can open
    Start,          \* the one it starts at
    Within,         \* <<f, g>>: the path of f starts with the path of g
    Torn,           \* the chunks that end inside a character
    Viewers, MaxShells, MaxChunks, Cap, KeepWorkspaces

Sessions == DevSessions \cup RoleSessions
Shells == 1..MaxShells
NoFolder == ""

ASSUME TerminalsAssumption ==
    /\ Start \in DevFolders /\ NoFolder \notin DevFolders \cup Sessions
    /\ DevSessions \cap RoleSessions = {} /\ Recreating \subseteq RoleSessions
    /\ \A f \in DevFolders \cup Sessions \cup {NoFolder} : <<f, f>> \in Within
    /\ Cap \in Nat \ {0} /\ {KeepWorkspaces, MaxChunks} \cup Torn \subseteq Nat

VARIABLES
    session,  \* the session table
    dirs,     \* the folders that exist; a role session's is named after it
    made,     \* the role workspaces, oldest first
    shell,    \* the processes, in the order they were spawned
    opening,  \* the session whose shell is being opened, under the lock
    stream    \* what each viewer follows and has been shown

terminalVars == <<session, dirs, made, shell, opening, stream>>

NoSession == [status |-> "none", root |-> NoFolder, cwd |-> NoFolder, pty |-> 0]
NoStream == [at |-> "off", of |-> CHOOSE s \in Sessions : TRUE, shell |-> 0, sent |-> 0,
             first |-> 0, shown |-> <<>>, cut |-> {}]

TerminalsInit ==
    /\ session = [s \in Sessions |-> NoSession]
    /\ dirs = DevFolders
    /\ made = <<>>
    /\ shell = <<>>
    /\ opening = NoFolder
    /\ stream = [v \in Viewers |-> NoStream]

TerminalsTypeOK ==
    /\ session \in [Sessions -> [status : {"none", "open", "closed"},
                                 root : DevFolders \cup Sessions \cup {NoFolder},
                                 cwd : DevFolders \cup Sessions \cup {NoFolder},
                                 pty : 0..Len(shell)]]
    /\ dirs \subseteq DevFolders \cup RoleSessions
    /\ made \in Seq(RoleSessions)
    /\ opening \in Sessions \cup {NoFolder}
    /\ \A g \in DOMAIN shell :
         shell[g] \in [of : Sessions, root : DevFolders \cup Sessions,
                       live : BOOLEAN, open : BOOLEAN, out : 0..MaxChunks, read : 0..MaxChunks]
    /\ \A v \in Viewers : stream[v].at \in {"off", "reads", "polls"}

-----------------------------------------------------------------------------
\* Sessions

Free == opening = NoFolder
Opened(s) == session[s].status = "open"

\* The workspaces that a new session prunes.
Pruned == ToSet(SubSeq(made, 1, Len(made) - KeepWorkspaces))

NewSession(s) ==
    /\ Free /\ session[s].status = "none"
    /\ LET root == IF s \in DevSessions THEN Start ELSE s IN
       /\ session' = [session EXCEPT ![s] = [status |-> "open", root |-> root, cwd |-> root, pty |-> 0]]
       /\ dirs' = (dirs \ Pruned) \cup {root}
       /\ made' = Only(made, RoleSessions \ Pruned)
                    \o (IF s \in RoleSessions THEN <<s>> ELSE <<>>)
    /\ UNCHANGED <<shell, opening, stream>>

\* Killing the shell and closing the PTY end its reader, with what was unread.
KilledShell(s) ==
    IF session[s].pty = 0 THEN shell
    ELSE [shell EXCEPT ![session[s].pty].live = FALSE, ![session[s].pty].open = FALSE]

\* Mutant: the session is closed, its shell is left.
CloseSessionOnly(s) ==
    /\ Free /\ session[s].status # "none"
    /\ session' = [session EXCEPT ![s].status = "closed"]
    /\ UNCHANGED <<dirs, made, shell, opening, stream>>
CloseSession(s) ==
    /\ Free /\ session[s].status # "none"
    /\ shell' = KilledShell(s)
    /\ session' = [session EXCEPT ![s].pty = 0, ![s].status = "closed"]
    /\ UNCHANGED <<dirs, made, opening, stream>>

OpenFolder(s, f) ==
    /\ Free /\ Opened(s) /\ s \in DevSessions
    /\ f = NoFolder \/ f \in dirs \cap DevFolders
    /\ shell' = KilledShell(s)
    /\ session' = [session EXCEPT ![s].pty = 0, ![s].root = f, ![s].cwd = f]
    /\ UNCHANGED <<dirs, made, opening, stream>>

\* One scripted command: where it ends is kept only inside the session's folder.
RunCommand(s, f) ==
    /\ Free /\ Opened(s)
    /\ session[s].cwd \in dirs
    /\ session' = [session EXCEPT ![s].cwd = IF <<f, session[s].root>> \in Within THEN f ELSE @]
    /\ UNCHANGED <<dirs, made, shell, opening, stream>>

-----------------------------------------------------------------------------
\* Shells

OpenBegins(s) ==
    /\ Free /\ Opened(s) /\ Len(shell) < MaxShells
    /\ shell' = KilledShell(s)
    /\ session' = [session EXCEPT ![s].pty = 0]
    /\ opening' = s
    /\ UNCHANGED <<dirs, made, stream>>

\* Staging the CLI's configuration makes the workspace again for some roles.
Staged(s) == IF s \in Recreating THEN dirs \cup {session[s].root} ELSE dirs

OpenSpawns(s) ==
    /\ opening = s
    /\ dirs' = Staged(s)
    /\ IF session[s].root \in dirs'
       THEN /\ shell' = Append(shell, [of |-> s, root |-> session[s].root, live |-> TRUE,
                                       open |-> TRUE, out |-> 0, read |-> 0])
            /\ session' = [session EXCEPT ![s].pty = Len(shell) + 1]
       ELSE UNCHANGED <<shell, session>>
    /\ opening' = NoFolder
    /\ UNCHANGED <<made, stream>>

ShellWrites(g) ==
    /\ shell[g].live /\ shell[g].out < MaxChunks
    /\ \A h \in DOMAIN shell \ {g} : shell[g].out + shell[h].out < MaxChunks
    /\ shell' = [shell EXCEPT ![g].out = @ + 1]
    /\ UNCHANGED <<session, dirs, made, opening, stream>>

ShellExits(g) ==
    /\ shell[g].live
    /\ shell' = [shell EXCEPT ![g].live = FALSE]
    /\ UNCHANGED <<session, dirs, made, opening, stream>>

ReaderReads(g) ==
    /\ shell[g].open /\ shell[g].read < shell[g].out
    /\ shell' = [shell EXCEPT ![g].read = @ + 1]
    /\ UNCHANGED <<session, dirs, made, opening, stream>>

-----------------------------------------------------------------------------
\* Streams

\* The buffer keeps the newest Cap chunks.
Buffer(g) ==
    LET n == Min({shell[g].read, Cap})
    IN  [i \in 1..n |-> <<g, shell[g].read - n + i>>]

\* Mutant: the chunks from the offset on, the one at the offset included.
FromOffset(g, sent) == SubSeq(Buffer(g), Max({sent, 1}), Len(Buffer(g)))
\* What is new since an offset: both are positions in the buffer itself.
Since(g, sent) == SubSeq(Buffer(g), sent + 1, Len(Buffer(g)))

\* Each frame is decoded by itself: of a character that is only partly in it, the
\* part becomes a mark, and so does the rest in the next.
CutSince(g, sent) ==
    LET frame == Since(g, sent)
        Cuts(n) == frame # <<>> /\ (Last(frame) = <<g, n>> \/ Head(frame) = <<g, n + 1>>)
    IN  {<<g, n>> : n \in {m \in Torn : Cuts(m)}}

\* A viewer starts over with an empty screen, or resumes at its last offset.
Follow(v, s, resumes) ==
    /\ stream[v].at = "off" /\ session[s].status # "none"
    /\ resumes => stream[v].of = s
    /\ stream' = [stream EXCEPT ![v] =
         IF resumes THEN [@ EXCEPT !.at = "reads"]
         ELSE [at |-> "reads", of |-> s, shell |-> 0, sent |-> 0,
               first |-> session[s].pty, shown |-> <<>>, cut |-> {}]]
    /\ UNCHANGED <<session, dirs, made, shell, opening>>

Ends(v) == stream' = [stream EXCEPT ![v].at = "off", ![v].shell = 0]

TickReads(v) ==
    LET g == session[stream[v].of].pty IN
    /\ stream[v].at = "reads"
    /\ IF g = 0 THEN Ends(v)
       ELSE stream' = [stream EXCEPT ![v].at = "polls", ![v].shell = g,
                         ![v].sent = Max({@, Len(Buffer(g))}),
                         ![v].shown = @ \o Since(g, stream[v].sent),
                         ![v].cut = @ \cup CutSince(g, stream[v].sent)]
    /\ UNCHANGED <<session, dirs, made, shell, opening>>

TickPolls(v) ==
    /\ stream[v].at = "polls"
    /\ IF shell[stream[v].shell].live
       THEN stream' = [stream EXCEPT ![v].at = "reads", ![v].shell = 0]
       ELSE Ends(v)
    /\ UNCHANGED <<session, dirs, made, shell, opening>>

Disconnect(v) ==
    /\ stream[v].at = "reads"
    /\ Ends(v)
    /\ UNCHANGED <<session, dirs, made, shell, opening>>

\* A round trip of the polling client, under the lock.
PollIo(v, s) ==
    LET g == session[s].pty IN
    /\ Free /\ Opened(s) /\ g # 0
    /\ stream[v].at = "off" /\ stream[v].of = s
    /\ stream' = [stream EXCEPT ![v].sent = Len(Buffer(g)),
                    ![v].first = IF stream[v].shown = <<>> THEN g ELSE @,
                    ![v].shown = @ \o Since(g, stream[v].sent),
                    ![v].cut = @ \cup CutSince(g, stream[v].sent)]
    /\ UNCHANGED <<session, dirs, made, shell, opening>>

TerminalsNext ==
    \/ \E s \in Sessions :
         \/ NewSession(s) \/ CloseSession(s) \/ OpenBegins(s) \/ OpenSpawns(s)
         \/ \E f \in DevFolders \cup {NoFolder} : OpenFolder(s, f)
         \/ \E f \in DevFolders \cup Sessions : RunCommand(s, f)
         \/ \E v \in Viewers : PollIo(v, s) \/ \E resumes \in BOOLEAN : Follow(v, s, resumes)
    \/ \E g \in DOMAIN shell : ShellWrites(g) \/ ShellExits(g) \/ ReaderReads(g)
    \/ \E v \in Viewers : TickReads(v) \/ TickPolls(v) \/ Disconnect(v)

TerminalsSpec == TerminalsInit /\ [][TerminalsNext]_terminalVars

-----------------------------------------------------------------------------
(***************************************************************************)
(* A shell that runs is the terminal of an open session, at the folder the *)
(* session shows, and a command never starts outside that folder: closing  *)
(* a session, closing its folder or opening another one leaves no shell    *)
(* behind (the HOME, the files and the prompt would disagree).             *)
(***************************************************************************)
ShellMatchesSession ==
    /\ \A g \in DOMAIN shell : shell[g].live =>
         LET s == shell[g].of
         IN  Opened(s) /\ session[s].pty = g /\ session[s].root = shell[g].root
    /\ \A s \in Sessions : <<session[s].cwd, session[s].root>> \in Within

\* The viewer began with the shell that now runs.
Steady(v) == stream[v].first # 0 /\ session[stream[v].of].pty = stream[v].first

(***************************************************************************)
(* A viewer of one shell, however often it lost its connection and resumed *)
(* at its last offset, has after each look at the buffer been shown every  *)
(* chunk once and in order, as long as the buffer never overflowed; a      *)
(* character that a look fell into has come as marks.                      *)
(***************************************************************************)
FollowerShowsAll ==
    [][\A v \in Viewers :
         LET g == stream[v].first IN
         Steady(v) /\ shell[g].read <= Cap /\ stream'[v].at = "polls" /\ stream[v].at = "reads"
           => stream'[v].shown = [i \in 1..shell[g].read |-> <<g, i>>]]_terminalVars

(***************************************************************************)
(* "Yields data: frames the instant new bytes appear" (interactive_api.py  *)
(* 667): the look that follows an output shows that output.                *)
(***************************************************************************)
NewBytesAppear ==
    [][\A v \in Viewers :
         LET g == stream[v].first IN
         Steady(v) /\ shell[g].read > 0 /\ stream'[v].at = "polls" /\ stream[v].at = "reads"
           => Last(stream'[v].shown) = <<g, shell[g].read>>]_terminalVars

(***************************************************************************)
(* "Output is streamed over Server-Sent Events (real-time, byte-for-byte)" *)
(* (useSession.ts 12): of such a viewer's text only a character whose rest *)
(* was not read yet is not what the shell wrote.                           *)
(***************************************************************************)
ByteForByte ==
    [][\A v \in Viewers :
         LET g == stream[v].first IN
         Steady(v) /\ shell[g].read <= Cap /\ stream'[v].at = "polls" /\ stream[v].at = "reads"
           => \A c \in stream'[v].cut : c[2] = shell[g].read]_terminalVars
==============================================================================
