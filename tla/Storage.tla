-------------------------------- MODULE Storage --------------------------------
(***************************************************************************)
(* What one run of p2pcp does to its destination: SetupTransfer makes the  *)
(* tree, workers write the files, CompleteTransfer sets the permissions    *)
(* and VerifyTransfer looks at the result, by way of LocalStorage.  The    *)
(* destination may hold anything before, and a run may stop anywhere and   *)
(* be repeated.  The process owns the destination and is not root.         *)
(* Symbolic links lead out of the destination; full or failing disks are   *)
(* left out.                                                               *)
(***************************************************************************)
EXTENDS Integers, Sequences

CONSTANTS
    Base,        \* the destination directory
    Parent,      \* the directory of every entry
    Above,       \* all directories on the way from Base to it
    Place,       \* the place of every entry in the order of scanLocalDirectory
    Manifests,   \* the manifests to transfer
    Before,      \* what the destination may hold at first
    MaxRuns      \* bound: how often p2pcp is run on it

Entries == DOMAIN Parent
Nodes == Entries \cup {Base}

\* The entries are a tree.  Above is given and not computed: that the directories
\* on the way are those of its parent and more, with no gap, is assumed with it.
ASSUME PathsAssumption ==
    /\ Base \notin Entries /\ Parent \in [Entries -> Nodes]
    /\ Above \in [Entries -> SUBSET Nodes]
    /\ \A p \in Entries :
          /\ Above[p] = {Parent[p]} \cup (IF Parent[p] = Base THEN {} ELSE Above[Parent[p]])
          /\ Base \in Above[p]
          /\ \A q \in Above[p] :
                /\ q # Base => Above[q] \subseteq Above[p]
                /\ \E c \in Entries : c \in Above[p] \cup {p} /\ Parent[c] = q

\* scanLocalDirectory calls fn for a directory after its contents.
ASSUME WalkAssumption ==
    /\ Place \in [Entries -> Nat]
    /\ \A p, q \in Entries : Place[p] = Place[q] => p = q
    /\ \A p, q \in Entries : q \in Above[p] => Place[p] < Place[q]

\* Owner permissions as far as they matter: 0700 or 0600, without writing, none.
Perms == {"all", "read", "none"}
Kinds == {"dir", "link", "empty", "file"}

\* (An "extra" entry is not in the manifest.)  What is in the manifest was found
\* in a directory that is in it too.
ASSUME ManifestsAssumption ==
    /\ Manifests \subseteq [Entries -> [kind : Kinds \cup {"extra"}, perm : Perms]]
    /\ \A m \in Manifests : \A p \in Entries : \A q \in Above[p] :
          m[p].kind # "extra" /\ q # Base => m[q].kind = "dir"

\* A node of the file system; "special" is a device, a FIFO or a socket.  A
\* symbolic link to a directory, a file or a special file is that with via;
\* another one is "dangling".  size: 1 is the size in the manifest; to: 1 is the
\* target in the manifest; opens: open(O_CREATE) succeeds where that is not
\* settled by the rest, which is for a dangling link if its target's directory is
\* there and takes names, but not if the link loops, and for a special file if it
\* is a device, but not if it is a socket (or a FIFO, which blocks for ever).
NodeType == [type : {"none", "dir", "file", "dangling", "special"}, perm : Perms, via : BOOLEAN,
             size : 0..2, to : 0..1, opens : BOOLEAN]
None    == [type |-> "none", perm |-> "none", via |-> FALSE, size |-> 0, to |-> 0, opens |-> FALSE]
NewDir  == [type |-> "dir", perm |-> "all", via |-> FALSE, size |-> 0, to |-> 0, opens |-> FALSE]
NewFile(via, size) == [type |-> "file", perm |-> "all", via |-> via, size |-> size, to |-> 0, opens |-> FALSE]
NewLink == [type |-> "dangling", perm |-> "none", via |-> FALSE, size |-> 0, to |-> 1, opens |-> FALSE]

\* What exists is in directories.
Tree(s) ==
    /\ \A p \in Nodes : s[p].type = "none" => s[p] = None
    /\ \A p \in Entries : \A q \in Above[p] : s[p].type # "none" => s[q].type = "dir"

ASSUME BeforeAssumption ==
    /\ Before \subseteq [Nodes -> NodeType] /\ MaxRuns \in Nat \ {0}
    /\ \A s \in Before : Tree(s)

VARIABLES
    manifest,    \* ChunkManager.manifest
    fs,          \* the destination
    pc,          \* where DownloadFiles is
    rest,        \* the entries the loops under way have before them
    before,      \* fs when this run began (history)
    fresh,       \* the first run found nothing (history)
    valid,       \* the result of VerifyTransfer
    written,     \* the files whose bytes were all transferred (history)
    runs

vars == <<manifest, fs, pc, rest, before, fresh, valid, written, runs>>

\* The four lists of the manifest together, and the last of them.
Listed == {p \in Entries : manifest[p].kind \in Kinds}
ListedFiles == {p \in Entries : manifest[p].kind = "file"}

(***************************************************************************)
(* The system calls: what they leave, or Failed.                           *)
(***************************************************************************)
Failed == << >>

\* p can be looked up in s: all its directories are there and searchable.
Reach(s, p) == \A q \in Above[p] : s[q].type = "dir" /\ s[q].perm # "none"

\* The directory of p takes and gives up names.
Writable(s, p) == Reach(s, p) /\ s[Parent[p]].perm = "all"

Chmod(s, p, perm) ==
    IF Reach(s, p) /\ s[p].type \in {"dir", "file", "special"}
    THEN [s EXCEPT ![p].perm = perm]
    ELSE Failed

\* A failure of Chmod that is ignored.
TryChmod(s, p, perm) == IF Chmod(s, p, perm) = Failed THEN s ELSE Chmod(s, p, perm)

\* Every directory on the way and p itself, from the top: it is there, or it is
\* made in one that takes names.
MkdirAll(s, p) ==
    LET way == (Above[p] \ {Base}) \cup {p}
        t == [q \in Nodes |-> IF q \in way /\ s[q].type = "none" THEN NewDir ELSE s[q]]
    IN  IF \A q \in way : /\ t[q].type = "dir" /\ Reach(t, q)
                          /\ s[q].type = "none" => Writable(t, q)
        THEN t
        ELSE Failed

IsEmptyDir(s, p) == \A q \in Entries : Parent[q] = p => s[q].type = "none"

\* With a symbolic link goes what was reached through it.
TryRemove(s, p) ==
    IF Writable(s, p) /\ (s[p].type = "dir" /\ ~s[p].via => IsEmptyDir(s, p))
    THEN [q \in Nodes |-> IF q = p \/ (q # Base /\ p \in Above[q]) THEN None ELSE s[q]]
    ELSE s

Symlink(s, p) ==
    IF Writable(s, p) /\ s[p].type = "none" THEN [s EXCEPT ![p] = NewLink] ELSE Failed

\* Variant of Create: the file grows by the size.
CreateGrows(s, p, size) ==
    CASE Reach(s, p) /\ s[p].type = "file" /\ s[p].perm = "all" -> [s EXCEPT ![p].size = @ + size]
      [] Reach(s, p) /\ s[p].type = "dangling" /\ s[p].opens -> [s EXCEPT ![p] = NewFile(TRUE, size)]
      [] Reach(s, p) /\ s[p].type = "special" /\ s[p].opens /\ size = 0 -> s
      [] Writable(s, p) /\ s[p].type = "none" -> [s EXCEPT ![p] = NewFile(FALSE, size)]
      [] OTHER -> Failed

\* OpenFile with O_CREATE, for writing or truncating, then the size is set.
\* The target of a dangling link is created, if it can be.  A special file is
\* opened without an effect, but its size cannot be set.
Create(s, p, size) ==
    CASE Reach(s, p) /\ s[p].type = "file" /\ s[p].perm = "all" -> [s EXCEPT ![p].size = size]
      [] Reach(s, p) /\ s[p].type = "dangling" /\ s[p].opens -> [s EXCEPT ![p] = NewFile(TRUE, size)]
      [] Reach(s, p) /\ s[p].type = "special" /\ s[p].opens /\ size = 0 -> s
      [] Writable(s, p) /\ s[p].type = "none" -> [s EXCEPT ![p] = NewFile(FALSE, size)]
      [] OTHER -> Failed

(***************************************************************************)
(* LocalStorage.                                                           *)
(***************************************************************************)
\* (A destination that cannot be looked up or made counts as a dangling link.)
PrepareOK(s) == s[Base].type = "none" \/ (s[Base].type = "dir" /\ s[Base].perm = "all")

\* Variant of Opened: directories that exist are left as they are.
OpenedNoDirs(s, p) ==
    CASE manifest[p].kind = "dir" -> s
      [] manifest[p].kind = "link" -> TryRemove(s, p)
      [] OTHER -> TryChmod(s, p, IF s[p].type = "dir" THEN "none" ELSE "all")

\* Variant of Opened: files that exist are left as they are.
OpenedNoFiles(s, p) ==
    CASE manifest[p].kind = "dir" -> TryChmod(s, p, "all")
      [] manifest[p].kind = "link" -> TryRemove(s, p)
      [] OTHER -> s

\* PrepareEntry, first what makes room; its errors are ignored and its effects
\* stay.  0600 on a directory, which is in the wrong place then, closes it.
Opened(s, p) ==
    CASE manifest[p].kind = "dir" -> TryChmod(s, p, "all")
      [] manifest[p].kind = "link" -> TryRemove(s, p)
      [] OTHER -> TryChmod(s, p, IF s[p].type = "dir" THEN "none" ELSE "all")

\* Then the entry itself.
Made(s, p) ==
    CASE manifest[p].kind = "dir" -> MkdirAll(s, p)
      [] manifest[p].kind = "link" -> Symlink(s, p)
      [] manifest[p].kind = "empty" -> Create(s, p, 0)
      [] manifest[p].kind = "file" -> Create(s, p, 1)

CommitEntry(s, p) == IF manifest[p].kind = "link" THEN s ELSE Chmod(s, p, manifest[p].perm)

\* scanLocalDirectory of s succeeds: every directory it enters can be read.  It
\* does not enter symbolic links.
Walked(s) ==
    {p \in Entries : /\ s[p].type # "none"
                     /\ \A q \in Above[p] \ {Base} : s[q].type = "dir" /\ ~s[q].via}
WalkOK(s) == \A p \in Walked(s) : s[p].type = "dir" /\ ~s[p].via => s[p].perm # "none"

\* What VerifyTransfer requires of an entry; contents are not compared.
Verified(s, p) ==
    /\ p \in Walked(s)
    /\ CASE manifest[p].kind = "dir" -> s[p].type = "dir" /\ ~s[p].via /\ s[p].perm = manifest[p].perm
         [] manifest[p].kind = "link" -> s[p].type = "dangling" /\ s[p].to = 1
         [] manifest[p].kind = "empty" ->
               s[p].type = "file" /\ ~s[p].via /\ s[p].size = 0 /\ s[p].perm = manifest[p].perm
         [] manifest[p].kind = "file" ->
               s[p].type = "file" /\ ~s[p].via /\ s[p].size = 1 /\ s[p].perm = manifest[p].perm

(***************************************************************************)
(* One run.                                                                *)
(***************************************************************************)
Init ==
    /\ manifest \in Manifests
    /\ fs \in Before
    /\ pc = "prepare" /\ rest = {}
    /\ before = fs
    /\ fresh = (\A p \in Nodes : fs[p].type = "none")
    /\ valid = FALSE /\ written = {} /\ runs = 1

\* One list after the other, each in the order of the walk.
Precedes(rank, p, q) ==
    LET i == rank[manifest[p].kind]
        j == rank[manifest[q].kind]
    IN  i < j \/ (i = j /\ Place[p] < Place[q])

\* "Create dirs first, then finally create files" (transfer.go:14).
SetupRank == [dir |-> 1, link |-> 2, empty |-> 3, file |-> 4]
SetupBefore(p, q) == Precedes(SetupRank, p, q)

Prepare ==
    /\ pc = "prepare"
    /\ IF PrepareOK(fs)
       THEN /\ fs' = IF fs[Base].type = "none" THEN [fs EXCEPT ![Base] = NewDir] ELSE fs
            /\ pc' = "setup" /\ rest' = Listed
       ELSE pc' = "failed" /\ UNCHANGED <<fs, rest>>
    /\ UNCHANGED <<manifest, before, fresh, valid, written, runs>>

PrepareEntry(p) ==
    /\ pc = "setup" /\ p \in rest
    /\ \A q \in rest \ {p} : SetupBefore(p, q)
    /\ LET s == Opened(fs, p)
           t == Made(s, p)
       IN  IF t # Failed
           THEN fs' = t /\ rest' = rest \ {p} /\ UNCHANGED pc
           ELSE fs' = s /\ pc' = "failed" /\ UNCHANGED rest
    /\ UNCHANGED <<manifest, before, fresh, valid, written, runs>>

CommitRank == [file |-> 1, empty |-> 2, link |-> 3, dir |-> 4]

\* Variant of CommitBefore: directories in reverse.
CommitBeforeReversed(p, q) ==
    IF manifest[p].kind = "dir" /\ manifest[q].kind = "dir"
    THEN Place[q] < Place[p]
    ELSE Precedes(CommitRank, p, q)

\* "Complete files first, then finally complete dirs" (transfer.go:49).
CommitBefore(p, q) == Precedes(CommitRank, p, q)

\* The workers write the files, which they can open.
Transfer ==
    /\ pc = "setup" /\ rest = {}
    /\ pc' = "transfer"
    /\ UNCHANGED <<manifest, fs, rest, before, fresh, valid, written, runs>>

\* Variant of Transferred: empty files are left out.
TransferredNoEmpty(W) ==
    /\ pc = "transfer"
    /\ pc' = "commit" /\ rest' = {p \in Listed : manifest[p].kind # "empty"}
    /\ written' = written \cup W
    /\ UNCHANGED <<manifest, fs, before, fresh, valid, runs>>

\* All files are written, or the download was cancelled (idle timeout, signal,
\* another manifest) when those in W were: CompleteTransfer begins all the same.
Transferred(W) ==
    /\ pc = "transfer"
    /\ pc' = "commit" /\ rest' = Listed
    /\ written' = written \cup W
    /\ UNCHANGED <<manifest, fs, before, fresh, valid, runs>>

Commit(p) ==
    /\ pc = "commit" /\ p \in rest
    /\ \A q \in rest \ {p} : CommitBefore(p, q)
    /\ LET s == CommitEntry(fs, p) IN
       IF s # Failed
       THEN fs' = s /\ rest' = rest \ {p} /\ UNCHANGED pc
       ELSE pc' = "locked" /\ UNCHANGED <<fs, rest>>
    /\ UNCHANGED <<manifest, before, fresh, valid, written, runs>>

VerifyTransfer ==
    /\ pc = "commit" /\ rest = {}
    /\ pc' = "done"
    /\ valid' = (WalkOK(fs) /\ \A p \in Listed : Verified(fs, p))
    /\ UNCHANGED <<manifest, fs, rest, before, fresh, written, runs>>

\* The run ended, or the process dies between two steps, and p2pcp is run again.
Rerun ==
    /\ runs < MaxRuns
    /\ pc' = "prepare" /\ rest' = {}
    /\ before' = fs
    /\ valid' = FALSE /\ runs' = runs + 1
    /\ UNCHANGED <<manifest, fs, fresh, written>>

Next ==
    \/ Prepare \/ Transfer \/ VerifyTransfer \/ Rerun
    \/ \E W \in SUBSET ListedFiles : Transferred(W)
    \/ \E p \in Entries : PrepareEntry(p) \/ Commit(p)

Spec == Init /\ [][Next]_vars

TypeOK ==
    /\ manifest \in Manifests
    /\ {fs, before} \subseteq [Nodes -> NodeType]
    /\ pc \in {"prepare", "setup", "transfer", "commit", "locked", "done", "failed"}
    /\ rest \subseteq Entries /\ written \subseteq ListedFiles
    /\ {fresh, valid} \subseteq BOOLEAN
    /\ runs \in 1..MaxRuns

(***************************************************************************)
(* What must be true.                                                      *)
(***************************************************************************)
IsDir(p) == manifest[p].kind = "dir"

\* What stands in the way of SetupTransfer: the destination itself; a file, a
\* special file or a dangling link in the place of a directory; a directory in the
\* place of a file, or, if it is not empty, of a link; in the place of a file a
\* link whose target cannot be created, or any special file if the file has a
\* size, one that cannot be opened if it has not; and, because a directory is
\* opened (chmod 0700) only after those in it are made, a closed directory with a
\* directory in it, or one that takes no names and lacks one.
StandsInTheWay(s, p) ==
    CASE IsDir(p) ->
           \/ s[p].type \in {"file", "dangling", "special"}
           \/ /\ Parent[p] # Base /\ s[Parent[p]].type = "dir"
              /\ \/ s[Parent[p]].perm = "none"
                 \/ s[Parent[p]].perm = "read" /\ s[p].type = "none"
      [] manifest[p].kind = "link" -> s[p].type = "dir" /\ ~s[p].via /\ ~IsEmptyDir(s, p)
      [] manifest[p].kind \in {"file", "empty"} ->
           \/ s[p].type = "dir"
           \/ s[p].type = "special" /\ manifest[p].kind = "file"
           \/ s[p].type \in {"dangling", "special"} /\ ~s[p].opens
      [] OTHER -> FALSE
InTheWay(s) == ~PrepareOK(s) \/ \E p \in Entries : StandsInTheWay(s, p)

\* SetupTransfer succeeds exactly if nothing of that was there: whatever else
\* the destination holds, with whatever permissions, is made usable, and every
\* file can then be opened for writing and has its size.
SetupFailsIffInTheWay ==
    /\ pc = "failed" => InTheWay(before)
    /\ pc \in {"transfer", "commit", "locked", "done"} => ~InTheWay(before)
    /\ pc = "transfer" =>
          \A p \in Entries : manifest[p].kind = "file" =>
              Reach(fs, p) /\ fs[p].type = "file" /\ fs[p].perm = "all" /\ fs[p].size = 1

\* CompleteTransfer never locks itself out: no permission it sets keeps it from
\* an entry that is still to be set.
CommitReachesAll == pc # "locked"

\* A destination that was empty at first can be used again after any number of
\* runs that ended or died anywhere, unless the manifest closes a directory
\* that has directories in it.
RerunWorks ==
    fresh /\ pc = "failed" =>
        \E p, q \in Entries : IsDir(p) /\ Parent[p] = q /\ manifest[q].perm = "none"

\* VerifyTransfer accepts the tree, whatever was there, with three exceptions: a
\* symbolic link stood for a directory or a file and was followed, a special
\* file stood for an empty one, or some directory of the destination, also one
\* that is not in the manifest, cannot be read.  So it looks at the tree only,
\* and not at what the files hold: see VerifiedIsTransferred.
VerifyAccepts ==
    pc = "done" =>
        (valid <=>
            /\ \A p \in Entries : manifest[p].kind \in {"dir", "file", "empty"} =>
                  ~before[p].via /\ before[p].type \notin {"dangling", "special"}
            /\ \A p \in Entries :
                  CASE IsDir(p) -> manifest[p].perm # "none"
                    [] manifest[p].kind = "extra" ->
                          p \in Walked(before) /\ before[p].type = "dir" /\ ~before[p].via
                              => before[p].perm # "none"
                    [] OTHER -> TRUE)

(***************************************************************************)
(* What the documentation says, and the code does not do.                  *)
(***************************************************************************)

\* -verify-on-complete, "Verify hashes after all transfers" (README.md:100): a
\* destination that VerifyTransfer accepts has all the files' bytes.
VerifiedIsTransferred == pc = "done" /\ valid => written = ListedFiles
================================================================================
