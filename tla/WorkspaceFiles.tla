--------------------------- MODULE WorkspaceFiles ---------------------------
(***************************************************************************)
(* The file explorer of a console session (interactive-api).  A path is    *)
(* the sequence of its names below the session's folder, a name a sequence *)
(* of characters; the explorer shows and sends texts, in which the         *)
(* folder's label stands for its real path.  Bounds: the paths of Paths,   *)
(* which an operation may not leave, the contents of Contents.             *)
(***************************************************************************)
EXTENDS Lists, SequencesExt, FiniteSets

CONSTANTS
    Root,      \* the text of the folder's real path
    Label,     \* the text it is shown as
    Names,     \* the names there are, each a sequence of characters
    Junk,      \* directory names skipped at every depth
    RootJunk,  \* names skipped in the folder itself only
    Dotted,    \* dot directories that the explorer alone skips
    Depth,     \* how deep paths go
    TreeDepth, \* how deep the explorer looks
    Harness,   \* the paths of a role's harness files
    Contents

VARIABLES tree, manifest

filesVars == <<tree, manifest>>

Paths == UNION {[1..n -> Names] : n \in 1..Depth}
Above(p) == {SubSeq(p, 1, n) : n \in 1..(Len(p) - 1)}
Dir == "dir"
Slash == "/"
Letters == UNION {{name[i] : i \in DOMAIN name} : name \in Names}
Marks == UNION {{text[i] : i \in DOMAIN text} : text \in {Root, Label}}

\* No name and neither text of the folder is empty, a name is no path, and no harness
\* file is a directory of another.
ASSUME FilesAssumption ==
    /\ Depth \in Nat /\ Dir \notin Contents
    /\ \A name \in Names : name \in Seq(Letters) /\ name # <<>>
    /\ Slash \notin Letters
    /\ Root \in Seq(Marks) \ {<<>>} /\ Label \in Seq(Marks) \ {<<>>}
    /\ Harness \subseteq Paths /\ \A p, q \in Harness : p \notin Above(q)

Exists(p) == p = <<>> \/ p \in DOMAIN tree
IsDir(p) == p = <<>> \/ (p \in DOMAIN tree /\ tree[p] = Dir)
Below(p) == {q \in DOMAIN tree : IsPrefix(p, q)}

FilesInit == tree = <<>> /\ manifest = {}

(***************************************************************************)
(* The tree stays a tree: every entry is in a directory, and a bundle has  *)
(* only files.                                                             *)
(***************************************************************************)
FilesTypeOK ==
    /\ DOMAIN tree \subseteq Paths
    /\ \A p \in DOMAIN tree : tree[p] \in Contents \cup {Dir} /\ IsDir(Front(p))
    /\ manifest \subseteq Paths

-----------------------------------------------------------------------------
\* Texts and paths

Beneath(text, name) == text \o <<Slash>> \o name
Text(p) ==
    LET first[n \in 0..Len(p)] == IF n = 0 THEN <<>> ELSE Beneath(first[n - 1], p[n])
    IN  first[Len(p)]

Occurs(text, x, i) == i - 1 + Len(x) <= Len(text) /\ SubSeq(text, i, i - 1 + Len(x)) = x
\* Every x is replaced from left to right; what an occurrence covers is skipped.
\* (The library's ReplaceAllSubSeqs is this one, by an enumeration of sequences.)
NoScan == [out |-> <<>>, skip |-> 0]
Scan(was, text, x, y, n) ==
    IF was.skip > 0 THEN [was EXCEPT !.skip = @ - 1]
    ELSE IF Occurs(text, x, n) THEN [out |-> was.out \o y, skip |-> Len(x) - 1]
    ELSE [was EXCEPT !.out = Append(@, text[n])]
Replaced(text, x, y) ==
    LET first[n \in 0..Len(text)] == IF n = 0 THEN NoScan ELSE Scan(first[n - 1], text, x, y, n)
    IN  first[Len(text)].out

ToVirtual(p) == Replaced(Root \o Text(p), Root, Label)

\* The names of a text, the empty ones too, character after character.
NoName == <<>>
Read(names, c) ==
    IF c = Slash THEN Append(names, NoName)
    ELSE [names EXCEPT ![Len(names)] = Append(@, c)]
Split(text) ==
    LET first[n \in 0..Len(text)] == IF n = 0 THEN <<NoName>> ELSE Read(first[n - 1], text[n])
    IN  first[Len(text)]

Dropping(list, x) == InOrder(list, {i \in DOMAIN list : list[i] # x})
\* Mutant: the label stays in the path.
SafeJoinRaw(text) == Dropping(Split(text), NoName)
\* Every occurrence of the label is removed, wherever it is in the text.
SafeJoin(text) == Dropping(Split(Replaced(text, Label, <<>>)), NoName)

-----------------------------------------------------------------------------
\* The operations

Made(t, ps) == [p \in DOMAIN t \cup ps |-> IF p \in DOMAIN t THEN t[p] ELSE Dir]
CanMake(p) == \A q \in Above(p) : Exists(q) => IsDir(q)

WriteFile(text, c) ==
    LET p == SafeJoin(text) IN
    /\ CanMake(p)
    /\ p \in Paths /\ ~IsDir(p)
    /\ tree' = [Made(tree, Above(p) \cup {p}) EXCEPT ![p] = c]
    /\ UNCHANGED manifest

DeleteFile(text) ==
    LET p == SafeJoin(text) IN
    /\ Exists(p) /\ p # <<>>
    /\ tree' = [q \in DOMAIN tree \ Below(p) |-> tree[q]]
    /\ UNCHANGED manifest

MakeDir(text) ==
    LET p == SafeJoin(text) IN
    /\ p \in Paths /\ ~Exists(p) /\ CanMake(p)
    /\ tree' = Made(tree, Above(p) \cup {p})
    /\ UNCHANGED manifest

\* os.rename: a file replaces a file, a directory an empty directory.
Replaces(t, src, dst) ==
    \/ dst \notin DOMAIN t
    \/ t[src] # Dir /\ t[dst] # Dir
    \/ t[src] = Dir /\ t[dst] = Dir /\ {q \in DOMAIN t : IsStrictPrefix(dst, q)} = {}

Moved(t, src, dst) ==
    LET kept == {q \in DOMAIN t : ~IsPrefix(src, q)}
        at(q) == dst \o SubSeq(q, Len(src) + 1, Len(q))
        moved == {q \in DOMAIN t : IsPrefix(src, q)}
    IN  [q \in (kept \ {dst}) \cup {at(r) : r \in moved} |->
           IF IsPrefix(dst, q) THEN t[src \o SubSeq(q, Len(dst) + 1, Len(q))] ELSE t[q]]

\* The directories above the new name are made whether or not it can be taken.
RenameFile(text, to) ==
    LET src == SafeJoin(text)
        dst == SafeJoin(to)
        made == Made(tree, Above(dst)) IN
    /\ Exists(src) /\ src # <<>> /\ dst \in Paths /\ CanMake(dst)
    /\ \A q \in Below(src) : Len(dst) + Len(q) - Len(src) <= Depth
    /\ tree' = IF src = dst \/ IsPrefix(src, dst) \/ ~Replaces(made, src, dst)
               THEN made ELSE Moved(made, src, dst)
    /\ UNCHANGED manifest

\* The harness files of a role, one after the other.
ScaffoldHarness(c) ==
    /\ \A p \in Harness : CanMake(p) /\ ~IsDir(p)
    /\ tree' = [p \in DOMAIN tree \cup Harness \cup UNION {Above(q) : q \in Harness} |->
                  IF p \in Harness THEN c ELSE IF p \in DOMAIN tree THEN tree[p] ELSE Dir]
    /\ UNCHANGED manifest

\* A command of the terminal makes a file of any name.
CommandWrites(p, c) ==
    /\ CanMake(p) /\ ~IsDir(p)
    /\ tree' = [Made(tree, Above(p) \cup {p}) EXCEPT ![p] = c]
    /\ UNCHANGED manifest

\* The names of the directories that p is in, p's own included when it is one.
Dirs(p) == {p[i] : i \in 1..(IF IsDir(p) THEN Len(p) ELSE Len(p) - 1)}

\* A code bundle takes every file that is in no junk directory.
DeployUpload ==
    /\ manifest' = {p \in DOMAIN tree : ~IsDir(p) /\ Dirs(p) \cap Junk = {}}
    /\ UNCHANGED tree

-----------------------------------------------------------------------------
\* What is shown

Listed == {p \in DOMAIN tree : /\ Len(p) <= TreeDepth + (IF IsDir(p) THEN 0 ELSE 1)
                               /\ Dirs(p) \cap (Junk \cup Dotted) = {}
                               /\ p[1] \notin RootJunk}
Searched == {p \in DOMAIN tree : ~IsDir(p) /\ Dirs(p) \cap Junk = {} /\ p[1] \notin RootJunk}
ReadFile(text) == IF Exists(SafeJoin(text)) /\ ~IsDir(SafeJoin(text)) THEN tree[SafeJoin(text)] ELSE Dir

Texts == {ToVirtual(p) : p \in Paths}

FilesNext ==
    \/ \E text \in Texts :
         \/ \E c \in Contents : WriteFile(text, c)
         \/ DeleteFile(text) \/ MakeDir(text)
         \/ \E to \in Texts : RenameFile(text, to)
    \/ \E c \in Contents : ScaffoldHarness(c) \/ \E p \in Paths : CommandWrites(p, c)
    \/ DeployUpload

LeadsBack(p) == SafeJoin(ToVirtual(p)) = p /\ (~IsDir(p) => ReadFile(ToVirtual(p)) = tree[p])

Has(text, x) == \E i \in 1..Len(text) : Occurs(text, x, i)

(***************************************************************************)
(* A path that the explorer or a search shows leads back to the file it    *)
(* was shown for, when neither the folder's label nor its real path is in  *)
(* the names below it: what is opened, overwritten or deleted by it is     *)
(* that file and no other.                                                 *)
(***************************************************************************)
ShownPathsLeadBack ==
    \A p \in Listed \cup Searched :
      ~Has(Text(p), Label) /\ ~Has(Text(p), Root) => LeadsBack(p)

(***************************************************************************)
(* The same of every path that is shown: without the label "the            *)
(* open/read/write round-trip broke" (_to_virtual).                        *)
(***************************************************************************)
EveryPathLeadsBack == \A p \in Listed \cup Searched : LeadsBack(p)
=============================================================================
