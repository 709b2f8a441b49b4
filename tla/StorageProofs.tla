----------------------------- MODULE StorageProofs -----------------------------
(***************************************************************************)
(* Proofs about Storage: for every tree of entries, every manifest of it,  *)
(* everything the destination may hold and any number of runs.             *)
(***************************************************************************)
EXTENDS Storage, TLAPS

FileSystems == [Nodes -> NodeType]

(***************************************************************************)
(* Paths and nodes.                                                        *)
(***************************************************************************)

\* The result of a system call is a tree or Failed, never both.
LEMMA TreesAreNotFailed ==
    ASSUME NEW s \in FileSystems
    PROVE  s # Failed
<1>1. DOMAIN s = Nodes /\ Base \in Nodes
  BY DEF FileSystems, Nodes
<1>2. DOMAIN Failed = {}
  BY DEF Failed
<1> QED
  BY <1>1, <1>2

\* What the assumption on paths says, in the form the proofs use it.
LEMMA Paths ==
    ASSUME NEW p \in Entries
    PROVE  /\ Base \in Above[p] /\ Parent[p] \in Above[p] /\ Above[p] \subseteq Nodes
           /\ p # Base /\ p \notin Above[p]
           /\ \A q \in Above[p] : q # Base =>
                 /\ q \in Entries /\ Above[q] \subseteq Above[p]
                 /\ Place[p] < Place[q] /\ p \notin Above[q] /\ q # p
           /\ \A q \in Above[p] : \E c \in Entries : c \in Above[p] \cup {p} /\ Parent[c] = q
           /\ \A q \in Above[p] : q # Parent[p] => Parent[p] # Base /\ q \in Above[Parent[p]]
<1>1. /\ Base \notin Entries /\ Above[p] \subseteq Nodes
      /\ Above[p] = {Parent[p]} \cup (IF Parent[p] = Base THEN {} ELSE Above[Parent[p]])
      /\ Base \in Above[p]
      /\ \A q \in Above[p] :
            /\ q # Base => Above[q] \subseteq Above[p]
            /\ \E c \in Entries : c \in Above[p] \cup {p} /\ Parent[c] = q
  BY PathsAssumption
<1>2. \A q \in Entries : q \in Above[p] => Place[p] < Place[q]
  BY WalkAssumption
<1>3. \A q \in Entries : p \in Above[q] => Place[q] < Place[p]
  BY WalkAssumption
<1>4. \A q \in Entries : Place[q] \in Nat
  BY WalkAssumption
<1>5. ASSUME NEW q \in Above[p], q # Base
      PROVE  q \in Entries /\ Place[p] < Place[q] /\ p \notin Above[q] /\ q # p
  <2>1. q \in Entries
    BY <1>1, <1>5 DEF Nodes
  <2> QED
    BY <2>1, <1>2, <1>3, <1>4
<1> QED
  BY <1>1, <1>2, <1>4, <1>5

\* The constants of the model are nodes.
LEMMA NodesTyped ==
    /\ None \in NodeType /\ NewDir \in NodeType /\ NewLink \in NodeType
    /\ \A via \in BOOLEAN, size \in 0..1 : NewFile(via, size) \in NodeType
  BY DEF None, NewDir, NewLink, NewFile, NodeType, Perms

(***************************************************************************)
(* The system calls, node by node.                                         *)
(***************************************************************************)
\* TryChmod changes the permissions of p or nothing.
LEMMA TryChmodResult ==
    ASSUME NEW s \in FileSystems, NEW p \in Entries, NEW perm \in Perms
    PROVE  /\ TryChmod(s, p, perm) \in FileSystems
           /\ \A q \in Nodes : q # p => TryChmod(s, p, perm)[q] = s[q]
           /\ TryChmod(s, p, perm)[p].type = s[p].type
           /\ TryChmod(s, p, perm)[p].via = s[p].via
           /\ TryChmod(s, p, perm)[p].opens = s[p].opens
           /\ Reach(s, p) /\ s[p].type \in {"dir", "file", "special"}
                 => TryChmod(s, p, perm)[p].perm = perm
           /\ s[p].type \notin {"dir", "file", "special"} => TryChmod(s, p, perm) = s
<1> DEFINE t == [s EXCEPT ![p].perm = perm]
<1>0. p \in Nodes /\ DOMAIN s = Nodes /\ s[p] \in NodeType
  BY DEF Nodes, FileSystems
<1>1. t \in FileSystems
  BY <1>0 DEF FileSystems, NodeType
<1>2. t # Failed
  BY <1>1, TreesAreNotFailed
<1>3. /\ \A q \in Nodes : q # p => t[q] = s[q]
      /\ t[p].type = s[p].type /\ t[p].via = s[p].via /\ t[p].perm = perm
      /\ t[p].opens = s[p].opens
  BY <1>0 DEF NodeType
<1>4. CASE Reach(s, p) /\ s[p].type \in {"dir", "file", "special"}
  <2>1. TryChmod(s, p, perm) = t
    BY <1>4, <1>2 DEF TryChmod, Chmod
  <2> QED
    BY <2>1, <1>4, <1>1, <1>3
<1>5. CASE ~(Reach(s, p) /\ s[p].type \in {"dir", "file", "special"})
  <2>1. TryChmod(s, p, perm) = s
    BY <1>5 DEF TryChmod, Chmod
  <2> QED
    BY <2>1, <1>5
<1> QED
  BY <1>4, <1>5

\* What PrepareEntry leaves of a directory when it succeeds.
DirMade(s, t, p) ==
    /\ t \in FileSystems
    /\ s[p].type \in {"dir", "none"}
    /\ t[p].type = "dir" /\ t[p].perm = "all" /\ t[p].via = s[p].via
    /\ s[p].type = "none" => t[Parent[p]].perm = "all"
    /\ \A q \in Above[p] : t[q].type = "dir" /\ t[q].perm # "none"
    /\ \A q \in Nodes : q # p =>
          \/ t[q] = s[q]
          \/ /\ q # Base /\ q \in Above[p] /\ s[q].type = "none" /\ t[q] = NewDir
             /\ t[Parent[q]].perm = "all"

\* Nothing keeps PrepareEntry from making the directory p.
DirFree(s, p) ==
    /\ s[Base].type = "dir" /\ s[Base].perm = "all"
    /\ s[p].type \in {"dir", "none"}
    /\ \A q \in Above[p] : s[q].type = "none" \/ (s[q].type = "dir" /\ s[q].perm # "none")
    /\ \A q \in Entries : q \in Above[p] \cup {p} /\ s[q].type = "none"
          => s[Parent[q]].type = "none" \/ s[Parent[q]].perm = "all"

\* MkdirAll does this, and does not fail when nothing is in the way.
LEMMA MakesDir ==
    ASSUME NEW s \in FileSystems, Tree(s), NEW p \in Entries, manifest[p].kind = "dir"
    PROVE  LET u == Opened(s, p)
               t == Made(u, p)
           IN  /\ u \in FileSystems
               /\ \A q \in Nodes : q # p => u[q] = s[q]
               /\ u[p].type = s[p].type
               /\ u = s \/ (u[p].type \in {"dir", "file", "special"} /\ u[p].perm = "all")
               /\ t # Failed => DirMade(s, t, p)
               /\ DirFree(s, p) => t # Failed
<1> DEFINE u == Opened(s, p)
           way == (Above[p] \ {Base}) \cup {p}
           t == [q \in Nodes |-> IF q \in way /\ u[q].type = "none" THEN NewDir ELSE u[q]]
           OK == \A q \in way : /\ t[q].type = "dir" /\ Reach(t, q)
                                /\ u[q].type = "none" => Writable(t, q)
<1>0. "all" \in Perms
  BY DEF Perms
<1>1. u = TryChmod(s, p, "all")
  BY DEF Opened
<1>2. Made(u, p) = IF OK THEN t ELSE Failed
  BY DEF Made, MkdirAll
<1> HIDE DEF u
<1>3. /\ u \in FileSystems
      /\ \A q \in Nodes : q # p => u[q] = s[q]
      /\ u[p].type = s[p].type /\ u[p].via = s[p].via
      /\ Reach(s, p) /\ s[p].type \in {"dir", "file", "special"} => u[p].perm = "all"
      /\ s[p].type \notin {"dir", "file", "special"} => u = s
  BY <1>0, <1>1, TryChmodResult
<1>4. u = s \/ (u[p].type \in {"dir", "file", "special"} /\ u[p].perm = "all")
  <2>1. CASE Reach(s, p) /\ s[p].type \in {"dir", "file", "special"}
    BY <2>1, <1>3
  <2>2. CASE ~(Reach(s, p) /\ s[p].type \in {"dir", "file", "special"})
    BY <2>2, <1>1 DEF TryChmod, Chmod
  <2> QED
    BY <2>1, <2>2
<1>5. t \in FileSystems
  <2>1. \A q \in Nodes : u[q] \in NodeType
    BY <1>3 DEF FileSystems
  <2> QED
    BY <2>1, NodesTyped DEF FileSystems
<1>6. t # Failed
  BY <1>5, TreesAreNotFailed
<1>p. /\ Base \in Above[p] /\ Parent[p] \in Above[p] /\ Above[p] \subseteq Nodes
      /\ p # Base /\ p \notin Above[p] /\ p \in Nodes /\ Base \in Nodes
      /\ \A q \in Above[p] : q # Base => q \in Entries /\ Above[q] \subseteq Above[p]
  BY Paths DEF Nodes
<1>w. \A q \in way : /\ q \in Nodes /\ q \in Entries /\ Above[q] \subseteq Above[p]
                     /\ Parent[q] \in Above[q] /\ Parent[q] \in Nodes
  <2> SUFFICES ASSUME NEW q \in way
               PROVE  /\ q \in Nodes /\ q \in Entries /\ Above[q] \subseteq Above[p]
                      /\ Parent[q] \in Above[q] /\ Parent[q] \in Nodes
    OBVIOUS
  <2>1. q \in Entries /\ Above[q] \subseteq Above[p]
    BY <1>p
  <2> QED
    BY <2>1, Paths DEF Nodes
<1>t. \A q \in Nodes : /\ q \in way /\ u[q].type = "none" => t[q] = NewDir
                       /\ ~(q \in way /\ u[q].type = "none") => t[q] = u[q]
  OBVIOUS
<1>n. NewDir.type = "dir" /\ NewDir.perm = "all" /\ NewDir.via = FALSE
  BY DEF NewDir
<1> HIDE DEF t
<1>7. ASSUME OK
      PROVE  DirMade(s, t, p)
  <2>1. \A q \in way : /\ t[q].type = "dir"
                       /\ u[q].type = "none" => t[Parent[q]].perm = "all"
    BY <1>7 DEF Writable
  <2>2. \A q \in Above[p] : t[q].type = "dir" /\ t[q].perm # "none"
    BY <1>7 DEF Reach
  <2>3. s[p].type \in {"dir", "none"}
    BY <2>1, <1>t, <1>p, <1>3, <1>n
  <2>4. s[p].type = "dir" => t[p] = u[p] /\ t[p].perm = "all"
    <3> SUFFICES ASSUME s[p].type = "dir" PROVE t[p] = u[p] /\ t[p].perm = "all"
      OBVIOUS
    <3>1. t[p] = u[p]
      BY <1>t, <1>p, <1>3
    <3>2. \A q \in Above[p] : s[q].type = "dir"
      BY DEF Tree
    <3>3. \A q \in Above[p] : t[q] = s[q]
      BY <3>2, <1>t, <1>p, <1>3
    <3>4. Reach(s, p)
      BY <3>2, <3>3, <2>2 DEF Reach
    <3> QED
      BY <3>1, <3>4, <1>3
  <2>5. s[p].type = "none" => t[p] = NewDir /\ s[p].via = FALSE
    BY <1>t, <1>p, <1>3 DEF Tree, None
  <2>6. t[p].type = "dir" /\ t[p].perm = "all" /\ t[p].via = s[p].via
    BY <2>1, <2>3, <2>4, <2>5, <1>n, <1>3
  <2>7. s[p].type = "none" => t[Parent[p]].perm = "all"
    BY <2>1, <1>3
  <2>8. ASSUME NEW q \in Nodes, q # p
        PROVE  \/ t[q] = s[q]
               \/ /\ q # Base /\ q \in Above[p] /\ s[q].type = "none" /\ t[q] = NewDir
                  /\ t[Parent[q]].perm = "all"
    <3>1. CASE q \in way /\ u[q].type = "none"
      BY <3>1, <2>1, <2>8, <1>t, <1>3
    <3>2. CASE ~(q \in way /\ u[q].type = "none")
      BY <3>2, <2>8, <1>t, <1>3
    <3> QED
      BY <3>1, <3>2
  <2> QED
    BY <2>2, <2>3, <2>6, <2>7, <2>8, <1>5 DEF DirMade
<1>8. ASSUME DirFree(s, p)
      PROVE  OK
  <2>1. ASSUME NEW q \in Above[p] \cup {p}
        PROVE  /\ t[q].type = "dir"
               /\ q # p => t[q].perm # "none"
               /\ s[q].type = "none" \/ s[q].perm = "all" => q = p \/ t[q].perm = "all"
    <3>1. q \in Nodes /\ (q # Base => q \in way)
      BY <1>p
    <3>2. CASE q = Base
      BY <3>2, <1>p, <1>t, <1>3, <1>8 DEF DirFree
    <3>3. CASE q = p
      BY <3>3, <3>1, <1>p, <1>t, <1>3, <1>8, <1>n DEF DirFree
    <3>4. CASE q # p /\ q # Base
      BY <3>4, <3>1, <1>p, <1>t, <1>3, <1>8, <1>n DEF DirFree
    <3> QED
      BY <3>2, <3>3, <3>4
  <2> SUFFICES ASSUME NEW q \in way
               PROVE  /\ t[q].type = "dir" /\ Reach(t, q)
                      /\ u[q].type = "none" => Writable(t, q)
    OBVIOUS
  <2>2. Reach(t, q)
    BY <2>1, <1>w, <1>p DEF Reach
  <2>3. u[q].type = "none" => Writable(t, q)
    BY <2>1, <2>2, <1>w, <1>p, <1>3, <1>8 DEF Writable, DirFree
  <2> QED
    BY <2>1, <2>2, <2>3
<1> QED
  BY <1>2, <1>3, <1>4, <1>6, <1>7, <1>8 DEF u

\* What PrepareEntry leaves of a symbolic link when it succeeds.
LinkMade(s, t, p) ==
    /\ t \in FileSystems
    /\ s[p].type = "dir" /\ ~s[p].via => IsEmptyDir(s, p)
    /\ t[p] = NewLink
    /\ \A q \in Above[p] : t[q].type = "dir"
    /\ \A q \in Nodes : q # p => t[q] = s[q] \/ (q # Base /\ p \in Above[q] /\ t[q] = None)
    /\ \A q \in Entries : p \in Above[q] => t[q] = None \/ s[p].type = "none"

\* Symlink does this, and does not fail when nothing is in the way.
LEMMA MakesLink ==
    ASSUME NEW s \in FileSystems, NEW p \in Entries, manifest[p].kind = "link"
    PROVE  LET u == Opened(s, p)
               t == Made(u, p)
           IN  /\ u \in FileSystems
               /\ \/ u = s
                  \/ \A q \in Nodes : u[q] = IF q = p \/ (q # Base /\ p \in Above[q])
                                             THEN None ELSE s[q]
               /\ t # Failed => LinkMade(s, t, p)
               /\ /\ Writable(s, p)
                  /\ s[p].type = "dir" /\ ~s[p].via => IsEmptyDir(s, p)
                  => t # Failed
<1> DEFINE u == Opened(s, p)
           gone == [q \in Nodes |-> IF q = p \/ (q # Base /\ p \in Above[q]) THEN None ELSE s[q]]
           can == Writable(s, p) /\ (s[p].type = "dir" /\ ~s[p].via => IsEmptyDir(s, p))
           t == [u EXCEPT ![p] = NewLink]
<1>1. u = IF can THEN gone ELSE s
  BY DEF Opened, TryRemove
<1>2. Made(u, p) = IF Writable(u, p) /\ u[p].type = "none" THEN t ELSE Failed
  BY DEF Made, Symlink
<1> HIDE DEF u
<1>3. gone \in FileSystems
  BY NodesTyped DEF FileSystems
<1>4. u \in FileSystems
  BY <1>1, <1>3
<1>5. t \in FileSystems /\ t # Failed
  <2>1. t \in FileSystems
    BY <1>4, NodesTyped DEF FileSystems
  <2> QED
    BY <2>1, TreesAreNotFailed
<1>6. p \in Nodes /\ p # Base /\ Above[p] \subseteq Nodes /\ Parent[p] \in Above[p] /\ p \notin Above[p]
      /\ \A q \in Above[p] : q # Base => p \notin Above[q]
  BY Paths DEF Nodes
<1>7. t[p] = NewLink /\ \A q \in Nodes : q # p => t[q] = u[q]
  BY <1>4, <1>6 DEF FileSystems
<1>8. \A q \in Above[p] : u[q] = s[q]
  <2>1. \A q \in Above[p] : gone[q] = s[q]
    BY <1>6
  <2> QED
    BY <2>1, <1>1
<1>9. ASSUME Writable(u, p), u[p].type = "none"
      PROVE  LinkMade(s, t, p)
  <2>1. \A q \in Above[p] : t[q].type = "dir"
    BY <1>9, <1>6, <1>7 DEF Writable, Reach
  <2>2. Writable(s, p)
    BY <1>9, <1>6, <1>8 DEF Writable, Reach
  <2>3. s[p].type = "dir" /\ ~s[p].via => IsEmptyDir(s, p)
    <3>1. CASE can
      BY <3>1
    <3>2. CASE ~can
      BY <3>2, <1>1, <1>9
    <3> QED
      BY <3>1, <3>2
  <2>4. \A q \in Nodes : q # p => t[q] = s[q] \/ (q # Base /\ p \in Above[q] /\ t[q] = None)
    BY <1>1, <1>7
  <2>5. \A q \in Entries : p \in Above[q] => t[q] = None \/ s[p].type = "none"
    <3>1. CASE can
      <4>1. \A q \in Entries : p \in Above[q] => q \in Nodes /\ q # p /\ q # Base
        BY Paths DEF Nodes
      <4> QED
        BY <4>1, <3>1, <1>1, <1>7
    <3>2. CASE ~can
      BY <3>2, <1>1, <1>9
    <3> QED
      BY <3>1, <3>2
  <2> QED
    BY <2>1, <2>3, <2>4, <2>5, <1>5, <1>7 DEF LinkMade
<1>10. ASSUME can
       PROVE  Writable(u, p) /\ u[p].type = "none"
  <2>1. u[p].type = "none"
    BY <1>10, <1>1, <1>6 DEF None
  <2>2. Writable(u, p)
    BY <1>10, <1>6, <1>8 DEF Writable, Reach
  <2> QED
    BY <2>1, <2>2
<1> HIDE DEF t
<1>11. u = s \/ \A q \in Nodes : u[q] = IF q = p \/ (q # Base /\ p \in Above[q])
                                        THEN None ELSE s[q]
  BY <1>1
<1> QED
  BY <1>2, <1>4, <1>5, <1>9, <1>10, <1>11 DEF u

\* A file of that size can stand in the place of p, or be opened through it.
FileFree(s, p, size) ==
    /\ s[p].type # "dir"
    /\ s[p].type = "special" => size = 0
    /\ s[p].type \in {"dangling", "special"} => s[p].opens

\* What PrepareEntry leaves of a file when it succeeds.
FileMade(s, t, p, size) ==
    /\ t \in FileSystems
    /\ FileFree(s, p, size)
    /\ t[p].type = IF s[p].type = "special" THEN "special" ELSE "file"
    /\ t[p].perm = "all"
    /\ s[p].type # "special" => t[p].size = size
    /\ t[p].via = IF s[p].type = "dangling" THEN TRUE ELSE s[p].via
    /\ \A q \in Above[p] : s[q].type = "dir"
    /\ \A q \in Nodes : q # p => t[q] = s[q]

\* The opening of a file does this, and does not fail when nothing is in the way.
LEMMA MakesFile ==
    ASSUME NEW s \in FileSystems, Tree(s), NEW p \in Entries, NEW size \in 0..1,
           manifest[p].kind = IF size = 0 THEN "empty" ELSE "file"
    PROVE  LET u == Opened(s, p)
               t == Made(u, p)
           IN  /\ u \in FileSystems
               /\ \A q \in Nodes : q # p => u[q] = s[q]
               /\ u[p].type = s[p].type
               /\ u = s \/ u[p].type # "none"
               /\ t # Failed => FileMade(s, t, p, size)
               /\ Writable(s, p) /\ FileFree(s, p, size) => t # Failed
<1> DEFINE u == Opened(s, p)
           perm == IF s[p].type = "dir" THEN "none" ELSE "all"
           A == Reach(u, p) /\ u[p].type = "file" /\ u[p].perm = "all"
           B == Reach(u, p) /\ u[p].type = "dangling" /\ u[p].opens
           D == Reach(u, p) /\ u[p].type = "special" /\ u[p].opens /\ size = 0
           C == Writable(u, p) /\ u[p].type = "none"
           ta == [u EXCEPT ![p].size = size]
           tb == [u EXCEPT ![p] = NewFile(TRUE, size)]
           tc == [u EXCEPT ![p] = NewFile(FALSE, size)]
<1>0. perm \in Perms /\ p \in Nodes
  BY DEF Perms, Nodes
<1>1. u = TryChmod(s, p, perm)
  BY DEF Opened
<1>2. Made(u, p) = CASE A -> ta [] B -> tb [] D -> u [] C -> tc [] OTHER -> Failed
  <2>1. Made(u, p) = Create(u, p, size)
    BY DEF Made
  <2> QED
    BY <2>1 DEF Create
<1> HIDE DEF u
<1>3. /\ u \in FileSystems
      /\ \A q \in Nodes : q # p => u[q] = s[q]
      /\ u[p].type = s[p].type /\ u[p].via = s[p].via /\ u[p].opens = s[p].opens
      /\ Reach(s, p) /\ s[p].type \in {"dir", "file", "special"} => u[p].perm = perm
      /\ s[p].type \notin {"dir", "file", "special"} => u = s
  BY <1>0, <1>1, TryChmodResult
<1>4. u = s \/ u[p].type # "none"
  BY <1>3
<1>5. /\ \A q \in Above[p] : u[q] = s[q]
      /\ Reach(u, p) <=> Reach(s, p)
      /\ Writable(u, p) <=> Writable(s, p)
  <2>1. Above[p] \subseteq Nodes /\ p \notin Above[p] /\ Parent[p] \in Above[p]
    BY Paths
  <2> QED
    BY <2>1, <1>3 DEF Reach, Writable
<1>6. ta \in FileSystems /\ tb \in FileSystems /\ tc \in FileSystems
  <2>1. u[p] \in NodeType /\ size \in 0..2
    BY <1>0, <1>3 DEF FileSystems
  <2>2. ta \in FileSystems
    BY <2>1, <1>0, <1>3 DEF FileSystems, NodeType
  <2> QED
    BY <2>2, <1>3, NodesTyped DEF FileSystems
<1>7. /\ \A q \in Nodes : q # p => ta[q] = u[q] /\ tb[q] = u[q] /\ tc[q] = u[q]
      /\ ta[p].type = u[p].type /\ ta[p].perm = u[p].perm /\ ta[p].via = u[p].via /\ ta[p].size = size
      /\ tb[p] = NewFile(TRUE, size) /\ tc[p] = NewFile(FALSE, size)
  BY <1>0, <1>3 DEF FileSystems, NodeType
<1>8. /\ tb[p].type = "file" /\ tb[p].perm = "all" /\ tb[p].size = size /\ tb[p].via = TRUE
      /\ tc[p].type = "file" /\ tc[p].perm = "all" /\ tc[p].size = size /\ tc[p].via = FALSE
  BY <1>7 DEF NewFile
<1> HIDE DEF ta, tb, tc
<1>9. Reach(u, p) => \A q \in Above[p] : s[q].type = "dir"
  BY <1>5 DEF Reach
<1>10. A => FileMade(s, ta, p, size)
  BY <1>3, <1>6, <1>7, <1>9 DEF FileMade, FileFree
<1>11. B => FileMade(s, tb, p, size)
  BY <1>3, <1>6, <1>7, <1>8, <1>9 DEF FileMade, FileFree
<1>d. D => FileMade(s, u, p, size)
  BY <1>3, <1>5, <1>9 DEF FileMade, FileFree
<1>12. C => FileMade(s, tc, p, size)
  <2>1. C => s[p].via = FALSE
    BY <1>0, <1>3 DEF Tree, None
  <2> QED
    BY <2>1, <1>3, <1>6, <1>7, <1>8, <1>9 DEF FileMade, FileFree, Writable
<1>13. Made(u, p) # Failed => FileMade(s, Made(u, p), p, size)
  BY <1>2, <1>10, <1>11, <1>12, <1>d
<1>14. Writable(s, p) /\ FileFree(s, p, size) => A \/ B \/ C \/ D
  <2> SUFFICES ASSUME Writable(s, p), FileFree(s, p, size) PROVE A \/ B \/ C \/ D
    OBVIOUS
  <2>1. s[p].type \in {"file", "dangling", "none", "special"}
    BY <1>0 DEF FileSystems, NodeType, FileFree
  <2> QED
    BY <2>1, <1>3, <1>5 DEF Writable, FileFree
<1>15. ta # Failed /\ tb # Failed /\ tc # Failed /\ u # Failed
  BY <1>3, <1>6, TreesAreNotFailed
<1>16. A \/ B \/ C \/ D => Made(u, p) # Failed
  BY <1>2, <1>15
<1> QED
  BY <1>3, <1>4, <1>13, <1>14, <1>16 DEF u

(***************************************************************************)
(* The inductive invariant.                                                *)
(***************************************************************************)
\* SetupTransfer still has p before it.
Pending(p) == pc = "setup" /\ p \in rest

\* What SetupTransfer makes of p, and what it found there.
Formed(p) ==
    /\ ~StandsInTheWay(before, p)
    /\ manifest[p].kind = "dir" => fs[p].type = "dir" /\ fs[p].via = before[p].via
    /\ manifest[p].kind = "link" => fs[p] = NewLink
    /\ manifest[p].kind \in {"file", "empty"} =>
          /\ fs[p].type = IF before[p].type = "special" THEN "special" ELSE "file"
          /\ before[p].type # "special" => fs[p].size = IF manifest[p].kind = "empty" THEN 0 ELSE 1
          /\ fs[p].via = IF before[p].type = "dangling" THEN TRUE ELSE before[p].via

\* It is as it was found, or a directory that was made on the way to another.
Found(p) ==
    \/ fs[p] = before[p]
    \/ /\ manifest[p].kind = "dir" /\ before[p].type = "none" /\ fs[p] = NewDir
       /\ ~StandsInTheWay(before, p)

\* What no manifest has is as it was found, unless it was found behind a
\* symbolic link that has been replaced.
Kept(p) ==
    \/ fs[p] = before[p]
    \/ \E q \in Above[p] : q \in Entries /\ manifest[q].kind = "link" /\ ~Pending(q)

\* The permissions p has: open until it is committed.
PermOf(p) ==
    IF pc \in {"setup", "transfer"} \/ (pc = "commit" /\ p \in rest) THEN "all" ELSE manifest[p].perm

Progress ==
    /\ fs[Base].type = "dir" /\ fs[Base].perm = "all" /\ PrepareOK(before)
    /\ rest \subseteq Listed
    /\ \A p \in Listed : Pending(p) => Found(p)
    /\ \A p \in Listed : ~Pending(p) =>
          Formed(p) /\ (manifest[p].kind # "link" => fs[p].perm = PermOf(p))
    /\ \A p \in Entries \ Listed : Kept(p)

\* The loops have dealt with what comes first.
InOrder ==
    /\ pc = "setup" => \A p \in rest, q \in Listed \ rest : SetupBefore(q, p)
    /\ pc = "commit" => \A p \in rest, q \in Listed \ rest : CommitBefore(q, p)
    /\ pc \in {"transfer", "done"} => rest = {}

Stages ==
    /\ pc = "prepare" => before = fs
    /\ pc = "failed" => InTheWay(before)
    /\ pc # "locked"
    /\ pc \in {"setup", "transfer", "commit", "done"} => Progress /\ InOrder

\* What only runs of p2pcp with this manifest can leave.
Clean(s) ==
    /\ s[Base].type = "none" \/ (s[Base].type = "dir" /\ s[Base].perm = "all")
    /\ \A p \in Entries :
          /\ manifest[p].kind = "dir" => s[p].type \in {"none", "dir"}
          /\ manifest[p].kind = "link" => s[p].type \in {"none", "dangling"}
          /\ manifest[p].kind \in {"file", "empty"} => s[p].type \in {"none", "file"}
          /\ manifest[p].kind = "extra" => s[p].type = "none"
    /\ \A p \in Entries : manifest[p].kind = "dir" /\ s[p].type = "dir" /\ s[p].perm # "all" =>
          /\ s[p].perm = manifest[p].perm
          /\ \A q \in Entries : Parent[q] = p /\ manifest[q].kind = "dir" => s[q].type = "dir"

IInv ==
    /\ TypeOK
    /\ Tree(fs) /\ Tree(before)
    /\ Stages
    /\ fresh => Clean(fs) /\ Clean(before)
    /\ VerifyAccepts

(***************************************************************************)
(* One entry of SetupTransfer.                                             *)
(***************************************************************************)
\* The directories of what is in the manifest are in it.
LEMMA Listing ==
    ASSUME manifest \in Manifests
    PROVE  /\ \A p \in Entries : /\ manifest[p].kind \in {"dir", "link", "empty", "file", "extra"}
                                 /\ manifest[p].perm \in Perms
           /\ \A p \in Listed : /\ manifest[p].kind \in {"dir", "link", "empty", "file"}
                                /\ p \in Entries /\ p \in Nodes
           /\ \A p \in Entries \ Listed : manifest[p].kind = "extra"
           /\ \A p \in Listed : \A q \in Above[p] :
                 q # Base => q \in Entries /\ q \in Listed /\ manifest[q].kind = "dir"
<1>1. \A p \in Entries : /\ manifest[p].kind \in {"dir", "link", "empty", "file", "extra"}
                         /\ manifest[p].perm \in Perms
  BY ManifestsAssumption DEF Kinds
<1>2. \A p \in Listed : /\ manifest[p].kind \in {"dir", "link", "empty", "file"}
                        /\ p \in Entries /\ p \in Nodes
  BY DEF Listed, Kinds, Nodes
<1>3. \A p \in Entries \ Listed : manifest[p].kind = "extra"
  BY <1>1 DEF Listed, Kinds
<1>4. ASSUME NEW p \in Listed, NEW q \in Above[p], q # Base
      PROVE  q \in Entries /\ q \in Listed /\ manifest[q].kind = "dir"
  <2>1. q \in Entries
    BY <1>2, <1>4, Paths
  <2>2. manifest[q].kind = "dir"
    BY <1>2, <1>4, ManifestsAssumption
  <2> QED
    BY <2>1, <2>2 DEF Listed, Kinds
<1> QED
  BY <1>1, <1>2, <1>3, <1>4

\* PrepareEntry is called for p.
Prepares(p) ==
    /\ IInv /\ pc = "setup" /\ p \in rest
    /\ \A q \in rest \ {p} : SetupBefore(p, q)

\* What an entry's step may do to the others.
Spares(t, p) ==
    /\ t[Base] = fs[Base]
    /\ \A q \in Listed \ rest : t[q] = fs[q]
    /\ \A q \in rest \ {p} :
          \/ t[q] = fs[q]
          \/ /\ manifest[q].kind = "dir" /\ before[q].type = "none" /\ t[q] = NewDir
             /\ ~StandsInTheWay(before, q)
    /\ \A q \in Entries \ Listed :
          t[q] = fs[q] \/ (p \in Above[q] /\ manifest[p].kind = "link")

Advances(p) ==
    /\ pc' = pc /\ rest' = rest \ {p} /\ manifest' = manifest /\ before' = before
    /\ Spares(fs', p)
    /\ Formed(p)'
    /\ manifest[p].kind # "link" => fs'[p].perm = "all"

\* Such a step keeps what is known of the entries.
LEMMA Advance ==
    ASSUME NEW p \in Entries, Prepares(p), Advances(p)
    PROVE  Progress' /\ InOrder'
<1>0. /\ Progress /\ InOrder /\ manifest \in Manifests
      /\ pc = "setup" /\ p \in rest /\ p \in Listed /\ rest \subseteq Listed
  BY DEF Prepares, IInv, Stages, TypeOK, Progress
<1>1. /\ pc' = "setup" /\ rest' = rest \ {p} /\ Listed' = Listed
      /\ manifest' = manifest /\ before' = before
  BY <1>0 DEF Advances, Listed
<1>2. \A q \in Entries : StandsInTheWay(before, q)' <=> StandsInTheWay(before, q)
  BY <1>1 DEF StandsInTheWay, IsDir
<1>3. fs'[Base] = fs[Base]
  BY DEF Advances, Spares
<1>4. PrepareOK(before)'
  BY <1>0, <1>1 DEF Progress, PrepareOK
<1>5. ASSUME NEW q \in Listed, Pending(q)'
      PROVE  Found(q)'
  <2>1. q \in rest \ {p} /\ Pending(q) /\ q \in Entries
    BY <1>5, <1>1, <1>0 DEF Pending, Listed
  <2>2. Found(q)
    BY <2>1, <1>0 DEF Progress
  <2>3. CASE fs'[q] = fs[q]
    BY <2>1, <2>2, <2>3, <1>1, <1>2 DEF Found
  <2>4. CASE fs'[q] # fs[q]
    <3>1. /\ manifest[q].kind = "dir" /\ before[q].type = "none" /\ fs'[q] = NewDir
          /\ ~StandsInTheWay(before, q)
      BY <2>1, <2>4 DEF Advances, Spares
    <3> QED
      BY <2>1, <3>1, <1>1, <1>2 DEF Found
  <2> QED
    BY <2>3, <2>4
<1>6. ASSUME NEW q \in Listed, ~Pending(q)'
      PROVE  Formed(q)' /\ (manifest'[q].kind # "link" => fs'[q].perm = PermOf(q)')
  <2>1. PermOf(q)' = "all"
    BY <1>1 DEF PermOf
  <2>2. CASE q = p
    BY <2>1, <2>2, <1>1 DEF Advances
  <2>3. CASE q # p
    <3>1. q \in Listed \ rest /\ ~Pending(q) /\ q \in Entries
      BY <1>6, <2>3, <1>0, <1>1 DEF Pending, Listed
    <3>2. Formed(q) /\ (manifest[q].kind # "link" => fs[q].perm = "all")
      BY <3>1, <1>0 DEF Progress, PermOf
    <3>3. fs'[q] = fs[q]
      BY <3>1 DEF Advances, Spares
    <3>4. Formed(q)'
      BY <3>1, <3>2, <3>3, <1>1, <1>2 DEF Formed
    <3> QED
      BY <2>1, <3>2, <3>3, <3>4, <1>1
  <2> QED
    BY <2>2, <2>3
<1>7. ASSUME NEW q \in Entries \ Listed
      PROVE  Kept(q)'
  <2>1. Kept(q)
    BY <1>0 DEF Progress
  <2>2. \A r : Pending(r)' => Pending(r)
    BY <1>0, <1>1 DEF Pending
  <2>3. CASE fs'[q] = fs[q]
    BY <2>1, <2>2, <2>3, <1>1 DEF Kept
  <2>4. CASE fs'[q] # fs[q]
    <3>1. p \in Above[q] /\ manifest[p].kind = "link"
      BY <2>4 DEF Advances, Spares
    <3>2. ~Pending(p)'
      BY <1>1 DEF Pending
    <3> QED
      BY <3>1, <3>2, <1>1 DEF Kept
  <2> QED
    BY <2>3, <2>4
<1>8. InOrder'
  <2>1. \A r, q : SetupBefore(r, q)' <=> SetupBefore(r, q)
    BY <1>1 DEF SetupBefore, Precedes
  <2>2. ASSUME NEW r \in rest', NEW q \in Listed' \ rest'
        PROVE  SetupBefore(q, r)
    <3>1. CASE q = p
      BY <3>1, <2>2, <1>1 DEF Prepares
    <3>2. CASE q # p
      BY <3>2, <2>2, <1>0, <1>1 DEF InOrder
    <3> QED
      BY <3>1, <3>2
  <2> QED
    BY <2>1, <2>2, <1>1 DEF InOrder
<1> QED
  BY <1>0, <1>1, <1>3, <1>4, <1>5, <1>6, <1>7, <1>8 DEF Progress

\* What the invariant says when PrepareEntry is called.
LEMMA PreparesFacts ==
    ASSUME NEW p \in Entries, Prepares(p)
    PROVE  /\ manifest \in Manifests /\ fs \in FileSystems /\ before \in FileSystems
           /\ Tree(fs) /\ Tree(before) /\ PrepareOK(before)
           /\ p \in rest /\ p \in Listed /\ rest \subseteq Listed
           /\ fs[Base].type = "dir" /\ fs[Base].perm = "all"
           /\ \A q \in rest : Found(q)
           /\ \A q \in Listed \ rest :
                 Formed(q) /\ (manifest[q].kind # "link" => fs[q].perm = "all")
           /\ \A q \in Entries \ Listed : Kept(q)
           /\ \A q \in rest, r \in Listed \ rest : SetupBefore(r, q)
<1>1. /\ TypeOK /\ Tree(fs) /\ Tree(before) /\ Progress /\ InOrder
      /\ pc = "setup" /\ p \in rest
  BY DEF Prepares, IInv, Stages
<1>2. manifest \in Manifests /\ fs \in FileSystems /\ before \in FileSystems
  BY <1>1 DEF TypeOK, FileSystems
<1>3. p \in Listed /\ rest \subseteq Listed /\ PrepareOK(before)
  BY <1>1 DEF Progress
<1>4. fs[Base].type = "dir" /\ fs[Base].perm = "all"
  BY <1>1 DEF Progress
<1>5. \A q : Pending(q) <=> q \in rest
  BY <1>1 DEF Pending
<1>6. \A q \in rest : Found(q)
  BY <1>1, <1>3, <1>5 DEF Progress
<1>7. \A q \in Listed \ rest :
         Formed(q) /\ (manifest[q].kind # "link" => fs[q].perm = "all")
  BY <1>1, <1>5 DEF Progress, PermOf
<1>8. \A q \in Entries \ Listed : Kept(q)
  BY <1>1 DEF Progress
<1>9. \A q \in rest, r \in Listed \ rest : SetupBefore(r, q)
  BY <1>1 DEF InOrder
<1> QED
  BY <1>1, <1>2, <1>3, <1>4, <1>6, <1>7, <1>8, <1>9

\* What SetupTransfer has made is there.
LEMMA FormedExists ==
    ASSUME NEW p, Formed(p), manifest[p].kind \in {"dir", "link", "empty", "file"}
    PROVE  /\ manifest[p].kind = "dir" => fs[p].type = "dir"
           /\ manifest[p].kind = "link" => fs[p].type = "dangling"
           /\ manifest[p].kind \in {"file", "empty"} => fs[p].type \in {"file", "special"}
<1>1. CASE manifest[p].kind = "dir"
  BY <1>1 DEF Formed
<1>2. CASE manifest[p].kind = "link"
  <2>1. fs[p] = NewLink
    BY <1>2 DEF Formed
  <2> QED
    BY <1>2, <2>1 DEF NewLink
<1>3. CASE manifest[p].kind \in {"file", "empty"}
  BY <1>3 DEF Formed
<1> QED
  BY <1>1, <1>2, <1>3

\* The directories of a directory that is still to be made are so too, ...
LEMMA DirsAbovePending ==
    ASSUME NEW p \in Entries, Prepares(p),
           NEW q \in rest, manifest[q].kind = "dir", NEW r \in Above[q], r # Base
    PROVE  r \in rest /\ r \in Entries /\ manifest[r].kind = "dir" /\ q \in Entries
<1>1. q \in Listed /\ q \in Entries /\ r \in Listed /\ r \in Entries /\ manifest[r].kind = "dir"
  BY PreparesFacts, Listing
<1>2. Place[q] < Place[r] /\ Place[q] \in Nat /\ Place[r] \in Nat
  BY <1>1, Paths, WalkAssumption
<1>3. r \in rest
  <2> SUFFICES ASSUME r \notin rest PROVE FALSE
    OBVIOUS
  <2>1. SetupBefore(r, q)
    BY <1>1, PreparesFacts
  <2>2. Place[r] < Place[q]
    BY <2>1, <1>1 DEF SetupBefore, Precedes, SetupRank
  <2> QED
    BY <2>2, <1>2
<1> QED
  BY <1>1, <1>3

\* ... and all directories are made before anything else is.
LEMMA DirsAreOpen ==
    ASSUME NEW p \in Entries, Prepares(p), manifest[p].kind # "dir"
    PROVE  Writable(fs, p)
<1>1. /\ p \in Listed /\ manifest[p].kind \in {"link", "empty", "file"}
      /\ fs[Base].type = "dir" /\ fs[Base].perm = "all"
  BY PreparesFacts, Listing
<1>2. ASSUME NEW q \in Above[p]
      PROVE  fs[q].type = "dir" /\ fs[q].perm = "all"
  <2>1. CASE q = Base
    BY <2>1, <1>1
  <2>2. CASE q # Base
    <3>1. q \in Listed /\ q \in Entries /\ manifest[q].kind = "dir"
      BY <2>2, <1>1, PreparesFacts, Listing
    <3>2. q \notin rest
      <4> SUFFICES ASSUME q \in rest PROVE FALSE
        OBVIOUS
      <4>1. SetupBefore(p, q)
        BY <3>1, <1>1 DEF Prepares
      <4> QED
        BY <4>1, <3>1, <1>1 DEF SetupBefore, Precedes, SetupRank
    <3>3. Formed(q) /\ fs[q].perm = "all"
      BY <3>1, <3>2, PreparesFacts
    <3> QED
      BY <3>1, <3>3 DEF Formed
  <2> QED
    BY <2>1, <2>2
<1>3. Parent[p] \in Above[p]
  BY Paths
<1> QED
  BY <1>2, <1>3 DEF Writable, Reach

\* What is in the way of a directory.
LEMMA DirInTheWay ==
    ASSUME NEW p \in Entries, manifest[p].kind = "dir", NEW s
    PROVE  StandsInTheWay(s, p) <=>
               \/ s[p].type \in {"file", "dangling", "special"}
               \/ /\ Parent[p] # Base /\ s[Parent[p]].type = "dir"
                  /\ \/ s[Parent[p]].perm = "none"
                     \/ s[Parent[p]].perm = "read" /\ s[p].type = "none"
  BY DEF StandsInTheWay, IsDir

\* The step for a directory is one.
LEMMA DirAdvances ==
    ASSUME NEW p \in Entries, Prepares(p), manifest[p].kind = "dir", DirMade(fs, fs', p),
           pc' = pc, rest' = rest \ {p}, manifest' = manifest, before' = before
    PROVE  Advances(p)
<1> DEFINE t == fs'
<1>0. /\ p \in rest /\ p \in Listed /\ rest \subseteq Listed /\ before \in FileSystems
      /\ Tree(before) /\ Base \in Nodes /\ p \in Nodes /\ p # Base
      /\ manifest \in Manifests
  BY PreparesFacts, Paths DEF Nodes
<1>1. \A q \in Nodes : q # p =>
          \/ t[q] = fs[q]
          \/ /\ q # Base /\ q \in Above[p] /\ fs[q].type = "none" /\ t[q] = NewDir
             /\ t[Parent[q]].perm = "all"
  BY DEF DirMade
<1>2. \A q \in Nodes : q # p /\ fs[q].type # "none" => t[q] = fs[q]
  BY <1>1
\* A directory above p that was there is as it was.
<1>3. ASSUME NEW q \in rest, manifest[q].kind = "dir", q \in Above[p] \cup {p},
             Parent[q] # Base, before[Parent[q]].type = "dir"
      PROVE  t[Parent[q]] = before[Parent[q]] /\ Parent[q] \in Above[p]
  <2>1. Parent[q] \in Above[q] /\ q \in Entries
    BY <1>0, Paths, Listing
  <2>2. Parent[q] \in rest /\ Parent[q] \in Nodes
    BY <1>3, <2>1, DirsAbovePending DEF Nodes
  <2>3. Parent[q] \in Above[p] /\ Parent[q] # p
    BY <1>3, <2>1, <1>0, Paths
  <2>4. fs[Parent[q]] = before[Parent[q]]
    BY <2>2, <1>3, PreparesFacts DEF Found
  <2> QED
    BY <2>2, <2>3, <2>4, <1>2, <1>3
<1>4. Spares(t, p)
  <2>1. t[Base] = fs[Base]
    BY <1>0, <1>1
  <2>2. ASSUME NEW q \in Listed \ rest
        PROVE  t[q] = fs[q]
    <3>1. Formed(q) /\ q # p /\ q \in Nodes /\ manifest[q].kind \in {"dir", "link", "empty", "file"}
      BY <1>0, PreparesFacts, Listing
    <3>2. fs[q].type # "none"
      BY <3>1, FormedExists
    <3> QED
      BY <3>1, <3>2, <1>2
  <2>3. ASSUME NEW q \in rest \ {p}, t[q] # fs[q]
        PROVE  /\ manifest[q].kind = "dir" /\ before[q].type = "none" /\ t[q] = NewDir
               /\ ~StandsInTheWay(before, q)
    <3>1. q \in Nodes /\ q \in Entries /\ q # p
      BY <1>0, Listing
    <3>2. /\ q # Base /\ q \in Above[p] /\ fs[q].type = "none" /\ t[q] = NewDir
          /\ t[Parent[q]].perm = "all"
      BY <3>1, <2>3, <1>1
    <3>3. manifest[q].kind = "dir"
      BY <3>2, <1>0, Listing
    <3>4. Found(q)
      BY PreparesFacts
    <3>5. before[q].type = "none"
      BY <3>2, <3>4 DEF Found
    <3>6. ~StandsInTheWay(before, q)
      <4>1. Parent[q] # Base /\ before[Parent[q]].type = "dir" => before[Parent[q]].perm = "all"
        BY <3>2, <3>3, <1>3
      <4> QED
        BY <4>1, <3>1, <3>3, <3>5, DirInTheWay
    <3> QED
      BY <3>2, <3>3, <3>5, <3>6
  <2>4. ASSUME NEW q \in Entries \ Listed
        PROVE  t[q] = fs[q]
    <3>1. q \notin Above[p] /\ q # p /\ q \in Nodes
      BY <1>0, Listing, PathsAssumption DEF Nodes
    <3> QED
      BY <3>1, <1>1
  <2> QED
    BY <2>1, <2>2, <2>3, <2>4 DEF Spares
<1>5. Found(p)
  BY <1>0, PreparesFacts
<1>6. /\ fs[p].type \in {"dir", "none"} /\ t[p].type = "dir" /\ t[p].perm = "all"
      /\ t[p].via = fs[p].via
      /\ fs[p].type = "none" => t[Parent[p]].perm = "all"
      /\ \A q \in Above[p] : t[q].perm # "none"
  BY DEF DirMade
<1>7. fs[p].via = before[p].via
  <2>1. before[p].type = "none" => before[p].via = FALSE
    BY <1>0 DEF Tree, None
  <2>2. NewDir.via = FALSE
    BY DEF NewDir
  <2> QED
    BY <2>1, <2>2, <1>5 DEF Found
<1>8. ~StandsInTheWay(before, p)
  <2>1. CASE fs[p] = before[p]
    <3>1. Parent[p] # Base /\ before[Parent[p]].type = "dir"
             => /\ before[Parent[p]].perm # "none"
                /\ before[p].type = "none" => before[Parent[p]].perm = "all"
      BY <2>1, <1>0, <1>3, <1>6
    <3> QED
      BY <3>1, <2>1, <1>6, DirInTheWay
  <2>2. CASE fs[p] # before[p]
    BY <2>2, <1>5 DEF Found
  <2> QED
    BY <2>1, <2>2
<1>9. StandsInTheWay(before, p)' <=> StandsInTheWay(before, p)
  BY DEF StandsInTheWay, IsDir
<1>10. Formed(p)'
  BY <1>6, <1>7, <1>8, <1>9 DEF Formed
<1> QED
  BY <1>4, <1>6, <1>10 DEF Advances

\* With nothing in the way a directory is made.
LEMMA DirIsFree ==
    ASSUME NEW p \in Entries, Prepares(p), manifest[p].kind = "dir", ~InTheWay(before)
    PROVE  DirFree(fs, p)
<1>0. /\ p \in rest /\ p \in Listed /\ rest \subseteq Listed /\ before \in FileSystems
      /\ fs \in FileSystems /\ Base \in Nodes /\ p \in Nodes /\ p # Base
      /\ manifest \in Manifests /\ fs[Base].type = "dir" /\ fs[Base].perm = "all"
  BY PreparesFacts, Paths DEF Nodes
<1>1. \A q \in Entries : ~StandsInTheWay(before, q)
  BY DEF InTheWay
<1>2. NewDir.type = "dir" /\ NewDir.perm = "all"
  BY DEF NewDir
<1>3. \A q \in Nodes : /\ before[q].type \in {"none", "dir", "file", "dangling", "special"}
                       /\ before[q].perm \in {"all", "read", "none"}
  BY <1>0 DEF FileSystems, NodeType, Perms
\* A directory that is above p, or is p, and what is in it.
<1>4. ASSUME NEW q \in Entries, q \in Above[p] \cup {p}
      PROVE  /\ q \in rest /\ manifest[q].kind = "dir" /\ q \in Nodes
             /\ fs[q].type \in {"dir", "none"}
             /\ fs[q] = before[q] \/ fs[q] = NewDir
             /\ fs[q].type = "none" => before[q].type = "none"
             /\ Parent[q] # Base /\ before[Parent[q]].type = "dir" => before[Parent[q]].perm # "none"
             /\ Parent[q] # Base /\ before[Parent[q]].type = "dir" /\ fs[q].type = "none"
                   => before[Parent[q]].perm = "all"
  <2>1. q \in rest /\ manifest[q].kind = "dir" /\ q \in Nodes
    BY <1>0, <1>4, DirsAbovePending, PathsAssumption DEF Nodes
  <2>2. /\ fs[q] = before[q] \/ fs[q] = NewDir
        /\ fs[q].type = "none" => before[q].type = "none"
    BY <2>1, <1>2, PreparesFacts DEF Found
  <2>3. /\ before[q].type \notin {"file", "dangling", "special"}
        /\ Parent[q] # Base /\ before[Parent[q]].type = "dir" =>
              /\ before[Parent[q]].perm # "none"
              /\ before[q].type = "none" => before[Parent[q]].perm # "read"
    BY <2>1, <1>1, <1>4, DirInTheWay
  <2>4. Parent[q] \in Nodes
    BY <1>4, PathsAssumption
  <2> QED
    BY <2>1, <2>2, <2>3, <2>4, <1>2, <1>3
<1>5. ASSUME NEW q \in Above[p]
      PROVE  fs[q].type = "none" \/ (fs[q].type = "dir" /\ fs[q].perm # "none")
  <2>1. CASE q = Base
    BY <2>1, <1>0
  <2>2. CASE q # Base
    <3>1. PICK c \in Entries : c \in Above[p] \cup {p} /\ Parent[c] = q
      BY Paths
    <3>2. before[q].type = "dir" => before[q].perm # "none"
      BY <3>1, <2>2, <1>4
    <3>3. q \in Entries
      BY <2>2, Paths
    <3> QED
      BY <3>2, <3>3, <1>2, <1>4
  <2> QED
    BY <2>1, <2>2
<1>6. ASSUME NEW q \in Entries, q \in Above[p] \cup {p}, fs[q].type = "none"
      PROVE  fs[Parent[q]].type = "none" \/ fs[Parent[q]].perm = "all"
  <2>1. CASE Parent[q] = Base
    BY <2>1, <1>0
  <2>2. CASE Parent[q] # Base
    <3>1. Parent[q] \in Above[p] /\ Parent[q] \in Entries
      BY <2>2, <1>6, Paths
    <3> QED
      BY <3>1, <2>2, <1>2, <1>4, <1>6
  <2> QED
    BY <2>1, <2>2
<1>7. fs[p].type \in {"dir", "none"}
  BY <1>4
<1> QED
  BY <1>0, <1>5, <1>6, <1>7 DEF DirFree

\* The place of a symbolic link that is still to be made holds what it held,
\* and, if that is a directory, with the same entries.
LEMMA LinkPlace ==
    ASSUME NEW p \in Entries, Prepares(p), manifest[p].kind = "link"
    PROVE  /\ fs[p] = before[p]
           /\ IsEmptyDir(fs, p) <=> IsEmptyDir(before, p)
<1>0. manifest \in Manifests /\ p \in rest /\ p \in Listed /\ pc = "setup"
  BY PreparesFacts DEF Prepares
<1>1. fs[p] = before[p]
  BY <1>0, PreparesFacts DEF Found
<1>2. ASSUME NEW q \in Entries, Parent[q] = p
      PROVE  fs[q] = before[q]
  <2>1. p \in Above[q] /\ p # Base
    BY <1>2, Paths
  <2>2. q \in Entries \ Listed
    BY <2>1, <1>0, Listing
  <2>3. Kept(q)
    BY <2>2, PreparesFacts
  <2>4. ASSUME NEW r \in Above[q], r \in Entries, manifest[r].kind = "link"
        PROVE  Pending(r)
    <3>1. CASE r = p
      BY <3>1, <1>0 DEF Pending
    <3>2. CASE r # p
      <4>1. r \in Above[p] /\ r # Base
        BY <3>2, <2>4, <1>2, Paths, PathsAssumption
      <4> QED
        BY <4>1, <2>4, <1>0, Listing
    <3> QED
      BY <3>1, <3>2
  <2> QED
    BY <2>3, <2>4 DEF Kept
<1> QED
  BY <1>1, <1>2 DEF IsEmptyDir

\* The step for a link is one.
LEMMA LinkAdvances ==
    ASSUME NEW p \in Entries, Prepares(p), manifest[p].kind = "link", LinkMade(fs, fs', p),
           pc' = pc, rest' = rest \ {p}, manifest' = manifest, before' = before
    PROVE  Advances(p)
<1>0. manifest \in Manifests /\ p \in rest /\ p \in Listed /\ rest \subseteq Listed /\ Base \in Nodes
      /\ p # Base
  BY PreparesFacts, Paths DEF Nodes
<1>1. /\ fs'[p] = NewLink
      /\ \A q \in Nodes : q # p => fs'[q] = fs[q] \/ (q # Base /\ p \in Above[q])
      /\ fs[p].type = "dir" /\ ~fs[p].via => IsEmptyDir(fs, p)
  BY DEF LinkMade
<1>2. \A q \in Listed : q \in Nodes /\ (q # p => fs'[q] = fs[q])
  <2> SUFFICES ASSUME NEW q \in Listed PROVE q \in Nodes /\ (q # p => fs'[q] = fs[q])
    OBVIOUS
  <2>1. q \in Nodes /\ p \notin Above[q]
    BY <1>0, Listing
  <2> QED
    BY <2>1, <1>1
<1>3. Spares(fs', p)
  <2>1. fs'[Base] = fs[Base]
    BY <1>0, <1>1
  <2>2. \A q \in Entries \ Listed :
           fs'[q] = fs[q] \/ (p \in Above[q] /\ manifest[p].kind = "link")
    BY <1>0, <1>1 DEF Nodes
  <2> QED
    BY <2>1, <2>2, <1>0, <1>2 DEF Spares
<1>4. ~StandsInTheWay(before, p)
  BY <1>1, LinkPlace DEF StandsInTheWay, IsDir
<1>5. StandsInTheWay(before, p)' <=> StandsInTheWay(before, p)
  BY DEF StandsInTheWay, IsDir
<1>6. Formed(p)'
  BY <1>1, <1>4, <1>5 DEF Formed
<1> QED
  BY <1>3, <1>6 DEF Advances

\* The step for a file is one.
LEMMA FileAdvances ==
    ASSUME NEW p \in Entries, Prepares(p), manifest[p].kind \in {"empty", "file"},
           FileMade(fs, fs', p, IF manifest[p].kind = "empty" THEN 0 ELSE 1),
           pc' = pc, rest' = rest \ {p}, manifest' = manifest, before' = before
    PROVE  Advances(p)
<1>0. manifest \in Manifests /\ p \in rest /\ p \in Listed /\ rest \subseteq Listed /\ Base \in Nodes
      /\ p # Base /\ p \in Nodes
  BY PreparesFacts, Paths DEF Nodes
<1>1. fs[p] = before[p]
  BY <1>0, PreparesFacts DEF Found
<1>2. /\ fs'[p].type = IF before[p].type = "special" THEN "special" ELSE "file"
      /\ fs'[p].perm = "all"
      /\ before[p].type # "special" => fs'[p].size = IF manifest[p].kind = "empty" THEN 0 ELSE 1
      /\ fs'[p].via = IF before[p].type = "dangling" THEN TRUE ELSE before[p].via
      /\ FileFree(before, p, IF manifest[p].kind = "empty" THEN 0 ELSE 1)
      /\ \A q \in Nodes : q # p => fs'[q] = fs[q]
  BY <1>1 DEF FileMade, FileFree
<1>3. Spares(fs', p)
  BY <1>0, <1>2 DEF Spares, Nodes, Listed
<1>4. ~StandsInTheWay(before, p)
  BY <1>2 DEF StandsInTheWay, IsDir, FileFree
<1>5. StandsInTheWay(before, p)' <=> StandsInTheWay(before, p)
  BY DEF StandsInTheWay, IsDir
<1>6. Formed(p)'
  BY <1>2, <1>4, <1>5 DEF Formed
<1> QED
  BY <1>2, <1>3, <1>6 DEF Advances

(***************************************************************************)
(* What exists is in directories, always.                                  *)
(***************************************************************************)
\* Types that stay leave a tree a tree.
LEMMA SameTypes ==
    ASSUME NEW s \in FileSystems, NEW t \in FileSystems, Tree(s), NEW p \in Nodes,
           \A q \in Nodes : q # p => t[q] = s[q],
           t[p].type = s[p].type, s[p].type = "none" => t[p] = s[p]
    PROVE  Tree(t)
<1>1. \A q \in Nodes : t[q].type = s[q].type /\ (s[q].type = "none" => t[q] = s[q])
  OBVIOUS
<1>2. \A q \in Entries : q \in Nodes /\ Above[q] \subseteq Nodes
  BY Paths DEF Nodes
<1> QED
  BY <1>1, <1>2 DEF Tree

\* A directory that is made leaves a tree.
LEMMA DirTree ==
    ASSUME NEW s \in FileSystems, Tree(s), NEW p \in Entries, NEW t, DirMade(s, t, p)
    PROVE  Tree(t)
<1>0. \A q \in Entries : q \in Nodes /\ Above[q] \subseteq Nodes
  BY Paths DEF Nodes
<1>1. /\ t[p].type = "dir"
      /\ \A q \in Above[p] : t[q].type = "dir"
      /\ \A q \in Nodes : q # p => t[q] = s[q] \/ (q # Base /\ q \in Above[p])
  BY DEF DirMade
<1>2. \A q \in Nodes : t[q].type = "dir" \/ t[q] = s[q]
  BY <1>1
<1>3. ASSUME NEW q \in Nodes, t[q].type = "none"
      PROVE  t[q] = None
  BY <1>2, <1>3 DEF Tree
<1>4. ASSUME NEW q \in Entries, NEW r \in Above[q], t[q].type # "none"
      PROVE  t[r].type = "dir"
  <2>1. CASE q = p
    BY <2>1, <1>1, <1>4
  <2>2. CASE q # p /\ q \in Above[p]
    <3>1. q # Base
      BY <1>4, PathsAssumption
    <3>2. r \in Above[p]
      BY <2>2, <3>1, <1>4, Paths
    <3> QED
      BY <3>2, <1>1
  <2>3. CASE q # p /\ q \notin Above[p]
    <3>1. t[q] = s[q]
      BY <2>3, <1>0, <1>1
    <3>2. s[r].type = "dir"
      BY <3>1, <1>4 DEF Tree
    <3> QED
      BY <3>2, <1>0, <1>2, <1>4
  <2> QED
    BY <2>1, <2>2, <2>3
<1> QED
  BY <1>3, <1>4 DEF Tree

\* What is removed takes all that is below it along.
LEMMA RemoveTree ==
    ASSUME NEW s \in FileSystems, Tree(s), NEW p \in Entries, NEW t \in FileSystems,
           \A q \in Nodes : t[q] = IF q = p \/ (q # Base /\ p \in Above[q]) THEN None ELSE s[q]
    PROVE  Tree(t)
<1>0. \A q \in Entries : q \in Nodes /\ Above[q] \subseteq Nodes /\ q # Base
  BY Paths DEF Nodes
<1>1. None.type = "none"
  BY DEF None
<1>2. ASSUME NEW q \in Nodes, t[q].type = "none"
      PROVE  t[q] = None
  BY <1>2 DEF Tree
<1>3. ASSUME NEW q \in Entries, NEW r \in Above[q], t[q].type # "none"
      PROVE  t[r].type = "dir"
  <2>1. t[q] = s[q] /\ q # p /\ p \notin Above[q]
    BY <1>0, <1>1, <1>3
  <2>2. s[r].type = "dir"
    BY <2>1, <1>3 DEF Tree
  <2>3. r # p /\ (r # Base => p \notin Above[r])
    BY <2>1, <1>3, Paths
  <2> QED
    BY <2>2, <2>3, <1>0, <1>3
<1> QED
  BY <1>2, <1>3 DEF Tree

\* A link that is made leaves a tree.
LEMMA LinkTree ==
    ASSUME NEW s \in FileSystems, Tree(s), NEW p \in Entries, NEW t, LinkMade(s, t, p)
    PROVE  Tree(t)
<1>0. \A q \in Entries : q \in Nodes /\ Above[q] \subseteq Nodes /\ q # Base
  BY Paths DEF Nodes
<1>1. /\ t[p] = NewLink /\ t \in FileSystems
      /\ \A q \in Above[p] : t[q].type = "dir"
      /\ \A q \in Nodes : q # p => t[q] = s[q] \/ (q # Base /\ p \in Above[q] /\ t[q] = None)
      /\ \A q \in Entries : p \in Above[q] => t[q] = None \/ s[p].type = "none"
  BY DEF LinkMade
<1>2. None.type = "none" /\ NewLink.type # "none"
  BY DEF None, NewLink
<1>3. ASSUME NEW q \in Nodes, t[q].type = "none"
      PROVE  t[q] = None
  BY <1>1, <1>2, <1>3 DEF Tree
<1>4. ASSUME NEW q \in Entries, NEW r \in Above[q], t[q].type # "none"
      PROVE  t[r].type = "dir"
  <2>1. CASE q = p
    BY <2>1, <1>1, <1>4
  <2>2. CASE q # p
    <3>0. t[q] = s[q]
      BY <2>2, <1>0, <1>1, <1>2, <1>4
    <3>1. t[q] = s[q] /\ p \notin Above[q]
      <4>1. p \in Above[q] => s[p].type = "none" /\ s[p].type = "dir"
        BY <3>0, <1>1, <1>2, <1>4 DEF Tree
      <4> QED
        BY <3>0, <4>1
    <3>2. s[r].type = "dir"
      BY <3>1, <1>4 DEF Tree
    <3>3. r # p /\ (r # Base => p \notin Above[r])
      BY <3>1, <1>4, Paths
    <3> QED
      BY <3>2, <3>3, <1>0, <1>1, <1>4
  <2> QED
    BY <2>1, <2>2
<1> QED
  BY <1>3, <1>4 DEF Tree

\* A file that is made leaves a tree.
LEMMA FileTree ==
    ASSUME NEW s \in FileSystems, Tree(s), NEW p \in Entries, NEW t, NEW size, FileMade(s, t, p, size)
    PROVE  Tree(t)
<1>0. \A q \in Entries : q \in Nodes /\ Above[q] \subseteq Nodes /\ q # Base
  BY Paths DEF Nodes
<1>1. /\ t[p].type \in {"file", "special"} /\ s[p].type # "dir"
      /\ \A q \in Above[p] : s[q].type = "dir"
      /\ \A q \in Nodes : q # p => t[q] = s[q]
  BY DEF FileMade, FileFree
<1>2. ASSUME NEW q \in Nodes, t[q].type = "none"
      PROVE  t[q] = None
  BY <1>1, <1>2 DEF Tree
<1>3. ASSUME NEW q \in Entries, NEW r \in Above[q], t[q].type # "none"
      PROVE  t[r].type = "dir"
  <2>1. s[r].type = "dir"
    <3>1. CASE q = p
      BY <3>1, <1>1, <1>3
    <3>2. CASE q # p
      BY <3>2, <1>0, <1>1, <1>3 DEF Tree
    <3> QED
      BY <3>1, <3>2
  <2> QED
    BY <2>1, <1>0, <1>1, <1>3
<1> QED
  BY <1>2, <1>3 DEF Tree

(***************************************************************************)
(* A destination that only p2pcp has written to.                           *)
(***************************************************************************)
\* A change of types and permissions that leaves it clean: files and links may
\* appear, and directories that are open.
LEMMA CleanChange ==
    ASSUME manifest \in Manifests, NEW s \in FileSystems, Clean(s), NEW t,
           t[Base] = s[Base],
           \A q \in Entries :
              \/ t[q].type = s[q].type /\ t[q].perm = s[q].perm
              \/ manifest[q].kind = "dir" /\ t[q].type = "dir" /\ t[q].perm = "all"
              \/ manifest[q].kind = "link" /\ t[q].type = "dangling"
              \/ manifest[q].kind \in {"file", "empty"} /\ t[q].type = "file"
              \/ manifest[q].kind = "extra" /\ t[q].type = "none"
    PROVE  Clean(t)
<1>0. \A q \in Entries : manifest[q].kind \in {"dir", "link", "empty", "file", "extra"}
  BY Listing
<1>1. t[Base].type = "none" \/ (t[Base].type = "dir" /\ t[Base].perm = "all")
  BY DEF Clean
<1>2. ASSUME NEW q \in Entries
      PROVE  /\ manifest[q].kind = "dir" => t[q].type \in {"none", "dir"}
             /\ manifest[q].kind = "link" => t[q].type \in {"none", "dangling"}
             /\ manifest[q].kind \in {"file", "empty"} => t[q].type \in {"none", "file"}
             /\ manifest[q].kind = "extra" => t[q].type = "none"
  BY <1>0 DEF Clean
<1>3. ASSUME NEW q \in Entries, manifest[q].kind = "dir", t[q].type = "dir", t[q].perm # "all"
      PROVE  /\ t[q].perm = manifest[q].perm
             /\ \A r \in Entries : Parent[r] = q /\ manifest[r].kind = "dir" => t[r].type = "dir"
  <2>1. s[q].type = "dir" /\ s[q].perm = t[q].perm
    BY <1>3
  <2>2. /\ s[q].perm = manifest[q].perm
        /\ \A r \in Entries : Parent[r] = q /\ manifest[r].kind = "dir" => s[r].type = "dir"
    BY <2>1, <1>3 DEF Clean
  <2> QED
    BY <2>1, <2>2
<1> QED
  BY <1>1, <1>2, <1>3 DEF Clean

\* PrepareEntry keeps it clean, whether it succeeds or not.
LEMMA CleanPrepare ==
    ASSUME manifest \in Manifests, NEW s \in FileSystems, Tree(s), Clean(s), NEW p \in Listed
    PROVE  LET u == Opened(s, p)
               t == Made(u, p)
           IN  Clean(u) /\ (t # Failed => Clean(t))
<1> DEFINE u == Opened(s, p)
           t == Made(u, p)
<1>0. /\ p \in Entries /\ p \in Nodes /\ Base \in Nodes /\ p # Base
      /\ manifest[p].kind \in {"dir", "link", "empty", "file"}
  BY Listing, Paths DEF Nodes
<1>1. \A q \in Entries : q \in Nodes
  BY DEF Nodes
<1>2. NewDir.type = "dir" /\ NewDir.perm = "all" /\ NewLink.type = "dangling" /\ None.type = "none"
  BY DEF NewDir, NewLink, None
<1>3. CASE manifest[p].kind = "dir"
  <2>1. /\ \A q \in Nodes : q # p => u[q] = s[q]
        /\ u[p].type = s[p].type
        /\ u = s \/ (u[p].type \in {"dir", "file", "special"} /\ u[p].perm = "all")
        /\ t # Failed => DirMade(s, t, p)
    BY <1>0, <1>3, MakesDir
  <2> HIDE DEF u, t
  <2>2. s[p].type \in {"none", "dir"}
    BY <1>0, <1>3 DEF Clean
  <2>3. Clean(u)
    BY <2>1, <2>2, <1>0, <1>1, <1>3, CleanChange
  <2>4. ASSUME DirMade(s, t, p)
        PROVE  Clean(t)
    <3>1. /\ t[p].type = "dir" /\ t[p].perm = "all"
          /\ \A q \in Nodes : q # p => t[q] = s[q] \/ (q # Base /\ q \in Above[p] /\ t[q] = NewDir)
      BY <2>4 DEF DirMade
    <3>2. \A q \in Above[p] : q # Base => manifest[q].kind = "dir"
      BY Listing
    <3> QED
      BY <3>1, <3>2, <1>0, <1>1, <1>2, <1>3, CleanChange
  <2> QED
    BY <2>1, <2>3, <2>4 DEF u, t
<1>4. CASE manifest[p].kind = "link"
  <2>1. /\ \/ u = s
           \/ \A q \in Nodes : u[q] = IF q = p \/ (q # Base /\ p \in Above[q]) THEN None ELSE s[q]
        /\ t # Failed => LinkMade(s, t, p)
    BY <1>0, <1>4, MakesLink
  <2> HIDE DEF u, t
  <2>2. \A q \in Entries : p \in Above[q] => manifest[q].kind = "extra"
    BY <1>0, <1>4, Listing
  <2>3. Clean(u)
    <3>1. CASE u = s
      BY <3>1
    <3>2. CASE \A q \in Nodes : u[q] = IF q = p \/ (q # Base /\ p \in Above[q]) THEN None ELSE s[q]
      <4>1. u[Base] = s[Base]
        BY <3>2, <1>0
      <4>2. \A q \in Entries : q # p => u[q] = s[q] \/ (manifest[q].kind = "extra" /\ u[q].type = "none")
        BY <3>2, <2>2, <1>1, <1>2
      <4>3. u[p].type = "none"
        BY <3>2, <1>0, <1>2
      <4>4. ASSUME NEW q \in Entries
            PROVE  /\ manifest[q].kind = "dir" => u[q] = s[q]
                   /\ manifest[q].kind = "link" => u[q].type \in {"none", "dangling"}
                   /\ manifest[q].kind \in {"file", "empty"} => u[q].type \in {"none", "file"}
                   /\ manifest[q].kind = "extra" => u[q].type = "none"
        BY <4>2, <4>3, <1>4 DEF Clean
      <4> QED
        BY <4>1, <4>4 DEF Clean
    <3> QED
      BY <2>1, <3>1, <3>2
  <2>4. ASSUME LinkMade(s, t, p)
        PROVE  Clean(t)
    <3>1. /\ t[p] = NewLink
          /\ \A q \in Nodes : q # p => t[q] = s[q] \/ (q # Base /\ p \in Above[q] /\ t[q] = None)
      BY <2>4 DEF LinkMade
    <3> QED
      BY <3>1, <2>2, <1>0, <1>1, <1>2, <1>4, CleanChange
  <2> QED
    BY <2>1, <2>3, <2>4 DEF u, t
<1>5. CASE manifest[p].kind \in {"empty", "file"}
  <2> DEFINE size == IF manifest[p].kind = "empty" THEN 0 ELSE 1
  <2>0. size \in 0..1 /\ manifest[p].kind = IF size = 0 THEN "empty" ELSE "file"
    BY <1>5
  <2>1. /\ \A q \in Nodes : q # p => u[q] = s[q]
        /\ u[p].type = s[p].type
        /\ t # Failed => FileMade(s, t, p, size)
    <3> HIDE DEF size
    <3> QED
      BY <2>0, <1>0, MakesFile
  <2> HIDE DEF u, t, size
  <2>2. s[p].type \in {"none", "file"}
    BY <1>0, <1>5 DEF Clean
  <2>3. Clean(u)
    <3>1. \A q \in Entries : u[q].type = s[q].type /\ (manifest[q].kind = "dir" => u[q] = s[q])
      BY <2>1, <1>1, <1>5
    <3>2. u[Base] = s[Base]
      BY <2>1, <1>0
    <3> QED
      BY <3>1, <3>2 DEF Clean
  <2>4. ASSUME FileMade(s, t, p, size)
        PROVE  Clean(t)
    <3>1. t[p].type = "file" /\ \A q \in Nodes : q # p => t[q] = s[q]
      BY <2>2, <2>4 DEF FileMade
    <3> QED
      BY <3>1, <1>0, <1>1, <1>5, CleanChange
  <2> QED
    BY <2>1, <2>3, <2>4 DEF u, t
<1> QED
  BY <1>0, <1>3, <1>4, <1>5

\* What is in the way of a clean destination is a directory with directories
\* in it that the manifest closes.
LEMMA CleanInTheWay ==
    ASSUME manifest \in Manifests, NEW s \in FileSystems, Clean(s), InTheWay(s)
    PROVE  \E p, q \in Entries : IsDir(p) /\ Parent[p] = q /\ manifest[q].perm = "none"
<1>0. \A q \in Entries : manifest[q].kind \in {"dir", "link", "empty", "file", "extra"}
  BY Listing
<1>1. PrepareOK(s)
  BY DEF Clean, PrepareOK
<1>2. PICK p \in Entries : StandsInTheWay(s, p)
  BY <1>1 DEF InTheWay
<1>3. manifest[p].kind = "dir"
  BY <1>0, <1>2 DEF Clean, StandsInTheWay, IsDir
<1>4. /\ s[p].type \in {"none", "dir"}
      /\ \/ s[p].type \in {"file", "dangling", "special"}
         \/ /\ Parent[p] # Base /\ s[Parent[p]].type = "dir"
            /\ \/ s[Parent[p]].perm = "none"
               \/ s[Parent[p]].perm = "read" /\ s[p].type = "none"
  BY <1>2, <1>3, DirInTheWay DEF Clean
<1>5. Parent[p] \in Entries
  BY <1>4, PathsAssumption DEF Nodes
<1>6. manifest[Parent[p]].kind = "dir"
  BY <1>0, <1>4, <1>5 DEF Clean
<1>7. s[Parent[p]].perm = manifest[Parent[p]].perm /\ s[p].type = "dir"
  BY <1>3, <1>4, <1>5, <1>6 DEF Clean
<1> QED
  BY <1>3, <1>4, <1>5, <1>7 DEF IsDir

(***************************************************************************)
(* The invariant is preserved by every action.                             *)
(***************************************************************************)
\* TypeOK as the step proofs give it.
LEMMA TypeStep ==
    ASSUME TypeOK, manifest' = manifest, before' = before, fresh' = fresh, written' \subseteq ListedFiles,
           fs' \in FileSystems, rest' \subseteq Entries,
           pc' \in {"prepare", "setup", "transfer", "commit", "locked", "done", "failed"},
           valid' \in BOOLEAN, runs' = runs
    PROVE  TypeOK'
<1>1. ListedFiles' = ListedFiles
  BY DEF ListedFiles
<1> QED
  BY <1>1 DEF TypeOK, FileSystems

\* A destination that only p2pcp has written to stays so.
LEMMA FreshStep ==
    ASSUME manifest' = manifest, before' = before, fresh' = fresh,
           fresh => Clean(fs) /\ Clean(before),
           NEW t, fs' = t, Clean(fs) => Clean(t)
    PROVE  (fresh => Clean(fs) /\ Clean(before))'
  BY DEF Clean

\* One entry of the manifest is prepared.
LEMMA PrepareEntryStep ==
    ASSUME IInv, NEW p \in Entries, PrepareEntry(p)
    PROVE  IInv'
<1> DEFINE u == Opened(fs, p)
           t == Made(u, p)
           size == IF manifest[p].kind = "empty" THEN 0 ELSE 1
<1>1. Prepares(p)
  BY DEF PrepareEntry, Prepares
<1>2. /\ manifest' = manifest /\ before' = before /\ fresh' = fresh /\ valid' = valid /\ runs' = runs
      /\ written' = written
      /\ IF t # Failed THEN fs' = t /\ rest' = rest \ {p} /\ pc' = pc
                       ELSE fs' = u /\ pc' = "failed" /\ rest' = rest
      /\ pc = "setup"
  BY DEF PrepareEntry
<1>3. /\ TypeOK /\ Tree(fs) /\ Tree(before) /\ (fresh => Clean(fs) /\ Clean(before))
      /\ fs \in FileSystems /\ manifest \in Manifests /\ rest \subseteq Entries
      /\ before \in FileSystems /\ valid \in BOOLEAN /\ written \subseteq ListedFiles
  BY DEF IInv, TypeOK, FileSystems
<1>4. p \in Listed /\ p \in Nodes /\ manifest[p].kind \in {"dir", "link", "empty", "file"}
  BY <1>1, PreparesFacts, Listing
<1>5. Clean(fs) => Clean(u) /\ (t # Failed => Clean(t))
  BY <1>3, <1>4, CleanPrepare
<1>s. size \in 0..1 /\ (manifest[p].kind \in {"empty", "file"}
                           => manifest[p].kind = IF size = 0 THEN "empty" ELSE "file")
  OBVIOUS
<1> HIDE DEF size
\* The three kinds of entries.
<1>6. /\ u \in FileSystems /\ Tree(u)
      /\ t # Failed => t \in FileSystems /\ Tree(t) /\ Advances(p)
      /\ t = Failed => InTheWay(before)
  <2>1. CASE manifest[p].kind = "dir"
    <3>1. /\ u \in FileSystems
          /\ \A q \in Nodes : q # p => u[q] = fs[q]
          /\ u[p].type = fs[p].type
          /\ u = fs \/ (u[p].type \in {"dir", "file", "special"} /\ u[p].perm = "all")
          /\ t # Failed => DirMade(fs, t, p)
          /\ DirFree(fs, p) => t # Failed
      BY <2>1, <1>3, MakesDir
    <3> HIDE DEF u, t
    <3>2. Tree(u)
      BY <3>1, <1>3, <1>4, SameTypes
    <3>3. DirMade(fs, t, p) => t \in FileSystems /\ Tree(t)
      BY <1>3, DirTree DEF DirMade
    <3>4. t # Failed => Advances(p)
      BY <3>1, <2>1, <1>1, <1>2, DirAdvances
    <3>5. t = Failed => InTheWay(before)
      BY <3>1, <2>1, <1>1, DirIsFree
    <3> QED
      BY <3>1, <3>2, <3>3, <3>4, <3>5
  <2>2. CASE manifest[p].kind = "link"
    <3>1. /\ u \in FileSystems
          /\ \/ u = fs
             \/ \A q \in Nodes : u[q] = IF q = p \/ (q # Base /\ p \in Above[q])
                                        THEN None ELSE fs[q]
          /\ t # Failed => LinkMade(fs, t, p)
          /\ /\ Writable(fs, p)
             /\ fs[p].type = "dir" /\ ~fs[p].via => IsEmptyDir(fs, p)
             => t # Failed
      BY <2>2, <1>3, MakesLink
    <3> HIDE DEF u, t
    <3>2. Tree(u)
      BY <3>1, <1>3, RemoveTree
    <3>3. LinkMade(fs, t, p) => t \in FileSystems /\ Tree(t)
      BY <1>3, LinkTree DEF LinkMade
    <3>4. t # Failed => Advances(p)
      BY <3>1, <2>2, <1>1, <1>2, LinkAdvances
    <3>5. t = Failed => InTheWay(before)
      <4>1. Writable(fs, p)
        BY <2>2, <1>1, DirsAreOpen
      <4>2. t = Failed => StandsInTheWay(before, p)
        BY <4>1, <3>1, <2>2, <1>1, LinkPlace DEF StandsInTheWay, IsDir
      <4> QED
        BY <4>2 DEF InTheWay
    <3> QED
      BY <3>1, <3>2, <3>3, <3>4, <3>5
  <2>3. CASE manifest[p].kind \in {"empty", "file"}
    <3>1. /\ u \in FileSystems
          /\ \A q \in Nodes : q # p => u[q] = fs[q]
          /\ u[p].type = fs[p].type
          /\ u = fs \/ u[p].type # "none"
          /\ t # Failed => FileMade(fs, t, p, size)
          /\ Writable(fs, p) /\ FileFree(fs, p, size) => t # Failed
      BY <2>3, <1>3, <1>s, MakesFile
    <3> HIDE DEF u, t
    <3>2. Tree(u)
      BY <3>1, <1>3, <1>4, SameTypes
    <3>3. FileMade(fs, t, p, size) => t \in FileSystems /\ Tree(t)
      BY <1>3, FileTree DEF FileMade
    <3>4. t # Failed => Advances(p)
      BY <3>1, <2>3, <1>1, <1>2, FileAdvances DEF size
    <3>5. t = Failed => InTheWay(before)
      <4>1. Writable(fs, p)
        BY <2>3, <1>1, DirsAreOpen
      <4>2. fs[p] = before[p]
        BY <2>3, <1>1, PreparesFacts DEF Found
      <4>3. t = Failed => StandsInTheWay(before, p)
        BY <4>1, <4>2, <3>1, <2>3 DEF StandsInTheWay, IsDir, FileFree, size
      <4> QED
        BY <4>3 DEF InTheWay
    <3> QED
      BY <3>1, <3>2, <3>3, <3>4, <3>5
  <2> QED
    BY <2>1, <2>2, <2>3, <1>4
<1> HIDE DEF u, t
<1>7. VerifyAccepts'
  BY <1>2 DEF VerifyAccepts
<1>8. Tree(before)'
  BY <1>2, <1>3 DEF Tree
<1>9. CASE t # Failed
  <2>1. fs' = t /\ rest' = rest \ {p} /\ pc' = "setup"
    BY <1>9, <1>2
  <2>2. TypeOK'
    BY <2>1, <1>2, <1>3, <1>6, <1>9, TypeStep
  <2>3. Tree(fs)'
    BY <2>1, <1>6, <1>9 DEF Tree
  <2>4. Stages'
    <3>1. Progress' /\ InOrder'
      BY <1>1, <1>6, <1>9, Advance
    <3> QED
      BY <3>1, <2>1 DEF Stages
  <2>5. (fresh => Clean(fs) /\ Clean(before))'
    BY <2>1, <1>2, <1>3, <1>5, <1>9, FreshStep
  <2> QED
    BY <2>2, <2>3, <2>4, <2>5, <1>7, <1>8 DEF IInv
<1>10. CASE t = Failed
  <2>1. fs' = u /\ rest' = rest /\ pc' = "failed"
    BY <1>10, <1>2
  <2>2. TypeOK'
    BY <2>1, <1>2, <1>3, <1>6, TypeStep
  <2>3. Tree(fs)'
    BY <2>1, <1>6 DEF Tree
  <2>4. Stages'
    <3>1. InTheWay(before)'
      BY <1>2, <1>6, <1>10 DEF InTheWay, StandsInTheWay, IsDir, PrepareOK
    <3> QED
      BY <3>1, <2>1 DEF Stages
  <2>5. (fresh => Clean(fs) /\ Clean(before))'
    BY <2>1, <1>2, <1>3, <1>5, FreshStep
  <2> QED
    BY <2>2, <2>3, <2>4, <2>5, <1>7, <1>8 DEF IInv
<1> QED
  BY <1>9, <1>10

\* SetupTransfer begins.
LEMMA PrepareStep ==
    ASSUME IInv, Prepare
    PROVE  IInv'
<1>1. /\ TypeOK /\ Tree(fs) /\ Tree(before) /\ (fresh => Clean(fs) /\ Clean(before))
      /\ fs \in FileSystems /\ manifest \in Manifests /\ rest \subseteq Entries
      /\ before = fs /\ valid \in BOOLEAN /\ written \subseteq ListedFiles
  BY DEF IInv, TypeOK, FileSystems, Prepare, Stages
<1>2. /\ manifest' = manifest /\ before' = before /\ fresh' = fresh /\ valid' = valid /\ runs' = runs
      /\ written' = written /\ Listed' = Listed
  BY DEF Prepare, Listed
<1>3. VerifyAccepts' /\ Tree(before)'
  <2>1. pc' # "done"
    BY DEF Prepare
  <2> QED
    BY <2>1, <1>1, <1>2 DEF VerifyAccepts, Tree
<1>4. CASE PrepareOK(fs)
  <2>1. /\ fs' = IF fs[Base].type = "none" THEN [fs EXCEPT ![Base] = NewDir] ELSE fs
        /\ pc' = "setup" /\ rest' = Listed
    BY <1>4 DEF Prepare
  <2>2. /\ Base \in Nodes /\ Base \notin Entries
        /\ \A q \in Entries : q \in Nodes /\ q # Base /\ Base \in Above[q]
    BY Paths, PathsAssumption DEF Nodes
  <2>3. /\ fs' \in FileSystems
        /\ fs'[Base].type = "dir" /\ fs'[Base].perm = "all"
        /\ \A q \in Nodes : q # Base => fs'[q] = fs[q]
    <3>1. CASE fs[Base].type = "none"
      <4>1. fs' = [fs EXCEPT ![Base] = NewDir]
        BY <3>1, <2>1
      <4>2. fs' \in FileSystems
        BY <4>1, <1>1, NodesTyped DEF FileSystems
      <4>3. fs'[Base] = NewDir /\ \A q \in Nodes : q # Base => fs'[q] = fs[q]
        BY <4>1, <2>2, <1>1 DEF FileSystems
      <4> QED
        BY <4>2, <4>3 DEF NewDir
    <3>2. CASE fs[Base].type # "none"
      BY <3>2, <2>1, <1>1, <1>4 DEF PrepareOK
    <3> QED
      BY <3>1, <3>2
  <2>4. TypeOK'
    <3>1. rest' \subseteq Entries
      BY <2>1 DEF Listed
    <3> QED
      BY <3>1, <2>1, <2>3, <1>1, <1>2, TypeStep
  <2>5. Tree(fs)'
    <3>1. \A q \in Nodes : fs'[q].type = "none" => fs'[q] = None
      BY <2>3, <1>1 DEF Tree
    <3>2. ASSUME NEW q \in Entries, NEW r \in Above[q], fs'[q].type # "none"
          PROVE  fs'[r].type = "dir"
      <4>1. fs[r].type = "dir" /\ r \in Nodes
        BY <3>2, <2>2, <2>3, <1>1, Paths DEF Tree
      <4> QED
        BY <4>1, <2>3
    <3> QED
      BY <3>1, <3>2 DEF Tree
  <2>6. Progress'
    <3>1. \A q : Pending(q)' <=> q \in Listed
      BY <2>1 DEF Pending
    <3>2. \A q \in Entries : Found(q)' /\ Kept(q)'
      BY <2>2, <2>3, <1>1, <1>2 DEF Found, Kept
    <3>3. PrepareOK(before)'
      BY <1>1, <1>2, <1>4 DEF PrepareOK
    <3> QED
      BY <3>1, <3>2, <3>3, <2>1, <2>3, <1>2 DEF Progress, Listed
  <2>7. InOrder'
    BY <2>1, <1>2 DEF InOrder
  <2>8. Clean(fs) => Clean(fs')
    <3> SUFFICES ASSUME Clean(fs) PROVE Clean(fs')
      OBVIOUS
    <3>1. \A q \in Entries : fs'[q] = fs[q]
      BY <2>2, <2>3
    <3> QED
      BY <3>1, <2>3 DEF Clean
  <2>9. (fresh => Clean(fs) /\ Clean(before))'
    BY <2>8, <1>1, <1>2, FreshStep
  <2> QED
    BY <2>1, <2>4, <2>5, <2>6, <2>7, <2>9, <1>3 DEF IInv, Stages
<1>5. CASE ~PrepareOK(fs)
  <2>1. pc' = "failed" /\ fs' = fs /\ rest' = rest
    BY <1>5 DEF Prepare
  <2>2. TypeOK' /\ Tree(fs)'
    BY <2>1, <1>1, <1>2, TypeStep DEF Tree
  <2>3. InTheWay(before)'
    BY <1>1, <1>2, <1>5 DEF InTheWay, PrepareOK
  <2>4. (fresh => Clean(fs) /\ Clean(before))'
    BY <2>1, <1>1, <1>2, FreshStep
  <2> QED
    BY <2>1, <2>2, <2>3, <2>4, <1>3 DEF IInv, Stages
<1> QED
  BY <1>4, <1>5

\* Transfer and Transferred: nothing is pending any more.
LEMMA TransferStep ==
    ASSUME IInv, Transfer \/ \E W \in SUBSET ListedFiles : Transferred(W)
    PROVE  IInv'
<1>1. /\ TypeOK /\ Tree(fs) /\ Tree(before) /\ (fresh => Clean(fs) /\ Clean(before))
      /\ fs \in FileSystems /\ manifest \in Manifests /\ rest \subseteq Entries
      /\ valid \in BOOLEAN /\ written \subseteq ListedFiles /\ Progress /\ InOrder
  BY DEF IInv, TypeOK, FileSystems, Transfer, Transferred, Stages
<1>2. /\ manifest' = manifest /\ before' = before /\ fresh' = fresh /\ valid' = valid /\ runs' = runs
      /\ fs' = fs /\ Listed' = Listed
      /\ pc \in {"setup", "transfer"} /\ rest = {}
      /\ pc' \in {"transfer", "commit"} /\ rest' \in {{}, Listed}
      /\ pc' = "commit" => rest' = Listed
      /\ pc' = "transfer" => rest' = {}
      /\ written' \subseteq ListedFiles
  BY <1>1 DEF Transfer, Transferred, Listed, InOrder
<1>3. VerifyAccepts' /\ Tree(before)' /\ Tree(fs)'
  BY <1>1, <1>2 DEF VerifyAccepts, Tree
<1>4. TypeOK'
  <2>1. rest' \subseteq Entries
    BY <1>2 DEF Listed
  <2> QED
    BY <2>1, <1>1, <1>2, TypeStep
<1>5. (fresh => Clean(fs) /\ Clean(before))'
  BY <1>1, <1>2, FreshStep
<1>6. Progress'
  <2>1. \A q : ~Pending(q) /\ ~Pending(q)'
    BY <1>2 DEF Pending
  <2>2. \A q \in Entries : StandsInTheWay(before, q)' <=> StandsInTheWay(before, q)
    BY <1>2 DEF StandsInTheWay, IsDir
  <2>3. ASSUME NEW q \in Listed
        PROVE  Formed(q)' /\ (manifest'[q].kind # "link" => fs'[q].perm = PermOf(q)')
    <3>1. Formed(q) /\ (manifest[q].kind # "link" => fs[q].perm = "all") /\ q \in Entries
      BY <2>1, <1>1, <1>2 DEF Progress, PermOf, Listed
    <3>2. Formed(q)'
      BY <3>1, <2>2, <1>2 DEF Formed
    <3>3. PermOf(q)' = "all"
      BY <1>2 DEF PermOf
    <3> QED
      BY <3>1, <3>2, <3>3, <1>2
  <2>4. \A q \in Entries \ Listed : Kept(q)'
    BY <2>1, <1>1, <1>2 DEF Progress, Kept
  <2>5. PrepareOK(before)' /\ rest' \subseteq Listed
    BY <1>1, <1>2 DEF Progress, PrepareOK
  <2>6. fs'[Base].type = "dir" /\ fs'[Base].perm = "all"
    BY <1>1, <1>2 DEF Progress
  <2> QED
    BY <2>1, <2>3, <2>4, <2>5, <2>6, <1>2 DEF Progress
<1>7. InOrder'
  BY <1>2 DEF InOrder
<1> QED
  BY <1>2, <1>3, <1>4, <1>5, <1>6, <1>7 DEF IInv, Stages

\* CompleteTransfer closes a directory after everything in it.
LEMMA CommitStep ==
    ASSUME IInv, NEW p \in Entries, Commit(p)
    PROVE  IInv'
<1>1. /\ TypeOK /\ Tree(fs) /\ Tree(before) /\ (fresh => Clean(fs) /\ Clean(before))
      /\ fs \in FileSystems /\ manifest \in Manifests /\ rest \subseteq Entries
      /\ valid \in BOOLEAN /\ written \subseteq ListedFiles /\ Progress /\ InOrder
      /\ pc = "commit" /\ p \in rest /\ p \in Listed /\ rest \subseteq Listed
      /\ \A q \in rest \ {p} : CommitBefore(p, q)
  BY DEF IInv, TypeOK, FileSystems, Commit, Stages, Progress
<1>2. /\ manifest' = manifest /\ before' = before /\ fresh' = fresh /\ valid' = valid /\ runs' = runs
      /\ written' = written /\ Listed' = Listed
  BY DEF Commit, Listed
<1>3. /\ p \in Nodes /\ Base \in Nodes /\ p # Base /\ manifest[p].perm \in Perms
      /\ manifest[p].kind \in {"dir", "link", "empty", "file"}
  BY <1>1, Listing, Paths DEF Nodes
<1>4. \A q \in Listed : /\ Formed(q)
                        /\ manifest[q].kind # "link" =>
                              fs[q].perm = IF q \in rest THEN "all" ELSE manifest[q].perm
  BY <1>1 DEF Progress, Pending, PermOf
<1>5. Reach(fs, p)
  <2> SUFFICES ASSUME NEW q \in Above[p] PROVE fs[q].type = "dir" /\ fs[q].perm # "none"
    BY DEF Reach
  <2>1. CASE q = Base
    BY <2>1, <1>1 DEF Progress
  <2>2. CASE q # Base
    <3>1. q \in Listed /\ manifest[q].kind = "dir" /\ q \in Entries
      BY <2>2, <1>1, Listing
    <3>2. Place[p] < Place[q] /\ Place[p] \in Nat /\ Place[q] \in Nat
      BY <2>2, <3>1, Paths, WalkAssumption
    <3>3. q \in rest
      <4> SUFFICES ASSUME q \notin rest PROVE FALSE
        OBVIOUS
      <4>1. CommitBefore(q, p)
        BY <3>1, <1>1 DEF InOrder
      <4> QED
        BY <4>1, <3>1, <3>2, <1>3 DEF CommitBefore, Precedes, CommitRank
    <3> QED
      BY <3>1, <3>3, <1>4 DEF Formed
  <2> QED
    BY <2>1, <2>2
<1>6. /\ fs' \in FileSystems /\ rest' = rest \ {p} /\ pc' = "commit"
      /\ \A q \in Nodes : q # p => fs'[q] = fs[q]
      /\ manifest[p].kind = "link" => fs' = fs
      /\ manifest[p].kind # "link" => fs'[p].perm = manifest[p].perm
      /\ fs'[p].type = fs[p].type /\ fs'[p].via = fs[p].via /\ fs'[p].size = fs[p].size
  <2>1. CASE manifest[p].kind = "link"
    <3>1. CommitEntry(fs, p) = fs /\ fs # Failed
      BY <2>1, <1>1, TreesAreNotFailed DEF CommitEntry
    <3> QED
      BY <3>1, <2>1, <1>1 DEF Commit
  <2>2. CASE manifest[p].kind # "link"
    <3> DEFINE t == [fs EXCEPT ![p].perm = manifest[p].perm]
    <3>1. fs[p].type \in {"dir", "file", "special"}
      BY <2>2, <1>1, <1>3, <1>4 DEF Formed
    <3>2. CommitEntry(fs, p) = t
      BY <2>2, <3>1, <1>5 DEF CommitEntry, Chmod
    <3>3. fs[p] \in NodeType
      BY <1>1, <1>3 DEF FileSystems
    <3>4. t \in FileSystems
      BY <3>3, <1>1, <1>3 DEF FileSystems, NodeType
    <3>5. t # Failed
      BY <3>4, TreesAreNotFailed
    <3>6. fs' = t /\ rest' = rest \ {p} /\ pc' = "commit"
      BY <3>2, <3>5, <1>1 DEF Commit
    <3>7. /\ \A q \in Nodes : q # p => t[q] = fs[q]
          /\ t[p].perm = manifest[p].perm
          /\ t[p].type = fs[p].type /\ t[p].via = fs[p].via /\ t[p].size = fs[p].size
      BY <3>3, <1>1, <1>3 DEF FileSystems, NodeType
    <3> QED
      BY <3>4, <3>6, <3>7, <2>2
  <2> QED
    BY <2>1, <2>2
<1>7. TypeOK'
  BY <1>1, <1>2, <1>6, TypeStep
<1>8. VerifyAccepts' /\ Tree(before)'
  BY <1>1, <1>2, <1>6 DEF VerifyAccepts, Tree
<1>9. Tree(fs)'
  <2>1. fs[p].type # "none"
    BY <1>1, <1>3, <1>4, FormedExists
  <2>2. Tree(fs')
    BY <2>1, <1>1, <1>3, <1>6, SameTypes
  <2> QED
    BY <2>2 DEF Tree
<1>10. Progress'
  <2>1. \A q : ~Pending(q) /\ ~Pending(q)'
    BY <1>1, <1>6 DEF Pending
  <2>2. \A q \in Entries : StandsInTheWay(before, q)' <=> StandsInTheWay(before, q)
    BY <1>2 DEF StandsInTheWay, IsDir
  <2>3. ASSUME NEW q \in Listed
        PROVE  Formed(q)' /\ (manifest'[q].kind # "link" => fs'[q].perm = PermOf(q)')
    <3>1. q \in Entries /\ q \in Nodes
      BY DEF Listed, Nodes
    <3>2. Formed(q)'
      <4>1. CASE q # p
        BY <4>1, <3>1, <2>2, <1>2, <1>4, <1>6 DEF Formed
      <4>2. CASE q = p /\ manifest[p].kind = "link"
        BY <4>2, <3>1, <2>2, <1>2, <1>4, <1>6 DEF Formed
      <4>3. CASE q = p /\ manifest[p].kind # "link"
        BY <4>3, <3>1, <2>2, <1>2, <1>4, <1>6 DEF Formed
      <4> QED
        BY <4>1, <4>2, <4>3
    <3>3. PermOf(q)' = IF q \in rest \ {p} THEN "all" ELSE manifest[q].perm
      BY <1>2, <1>6 DEF PermOf
    <3>4. manifest[q].kind # "link" => fs'[q].perm = PermOf(q)'
      BY <3>1, <3>3, <1>4, <1>6
    <3> QED
      BY <3>2, <3>4, <1>2
  <2>4. ASSUME NEW q \in Entries \ Listed
        PROVE  Kept(q)'
    <3>1. fs'[q] = fs[q] /\ Kept(q)
      BY <1>1, <1>6 DEF Progress, Nodes
    <3> QED
      BY <3>1, <2>1, <1>2 DEF Kept
  <2>5. PrepareOK(before)' /\ rest' \subseteq Listed
    BY <1>1, <1>2, <1>6 DEF Progress, PrepareOK
  <2>6. fs'[Base].type = "dir" /\ fs'[Base].perm = "all"
    BY <1>1, <1>3, <1>6 DEF Progress
  <2> QED
    BY <2>1, <2>3, <2>4, <2>5, <2>6, <1>2 DEF Progress
<1>11. InOrder'
  <2>1. \A r, q : CommitBefore(r, q)' <=> CommitBefore(r, q)
    BY <1>2 DEF CommitBefore, Precedes
  <2>2. ASSUME NEW r \in rest', NEW q \in Listed' \ rest'
        PROVE  CommitBefore(q, r)
    BY <2>2, <1>1, <1>2, <1>6 DEF InOrder
  <2> QED
    BY <2>1, <2>2, <1>6 DEF InOrder
<1>12. Clean(fs) => Clean(fs')
  <2> SUFFICES ASSUME Clean(fs) PROVE Clean(fs')
    OBVIOUS
  <2>1. \A q \in Entries : q \in Nodes /\ fs'[q].type = fs[q].type
    BY <1>6 DEF Nodes
  <2>2. fs'[Base] = fs[Base]
    BY <1>3, <1>6
  <2>3. ASSUME NEW q \in Entries, manifest[q].kind = "dir", fs'[q].type = "dir", fs'[q].perm # "all"
        PROVE  /\ fs'[q].perm = manifest[q].perm
               /\ \A r \in Entries : Parent[r] = q /\ manifest[r].kind = "dir" => fs'[r].type = "dir"
    <3>1. \A r \in Entries : manifest[r].kind = "dir" => fs[r].type = "dir"
      <4>1. \A r \in Entries : manifest[r].kind = "dir" => r \in Listed
        BY DEF Listed, Kinds
      <4> QED
        BY <4>1, <1>4 DEF Formed
    <3>2. fs'[q].perm = manifest[q].perm
      <4>1. CASE q = p
        BY <4>1, <2>3, <1>6
      <4>2. CASE q # p
        <5>1. fs'[q] = fs[q]
          BY <4>2, <2>1, <1>6
        <5> QED
          BY <5>1, <2>3 DEF Clean
      <4> QED
        BY <4>1, <4>2
    <3> QED
      BY <3>1, <3>2, <2>1
  <2> QED
    BY <2>1, <2>2, <2>3 DEF Clean
<1>13. (fresh => Clean(fs) /\ Clean(before))'
  BY <1>1, <1>2, <1>12, FreshStep
<1> QED
  BY <1>6, <1>7, <1>8, <1>9, <1>10, <1>11, <1>13 DEF IInv, Stages

\* The two conditions of VerifyAccepts.
NothingFollowed ==
    \A p \in Entries : manifest[p].kind \in {"dir", "file", "empty"} =>
        ~before[p].via /\ before[p].type \notin {"dangling", "special"}
EverythingReadable ==
    \A p \in Entries :
        CASE IsDir(p) -> manifest[p].perm # "none"
          [] manifest[p].kind = "extra" ->
                p \in Walked(before) /\ before[p].type = "dir" /\ ~before[p].via
                    => before[p].perm # "none"
          [] OTHER -> TRUE

Accepted == WalkOK(fs) /\ \A p \in Listed : Verified(fs, p)

\* The commit is over.
Committed == IInv /\ pc = "commit" /\ rest = {}

\* What stands in the destination then.
LEMMA CommittedFacts ==
    ASSUME Committed
    PROVE  /\ manifest \in Manifests /\ Tree(before) /\ before \in FileSystems /\ fs \in FileSystems
           /\ \A p \in Listed : /\ Formed(p)
                                /\ manifest[p].kind # "link" => fs[p].perm = manifest[p].perm
           /\ \A p \in Entries \ Listed :
                 \/ fs[p] = before[p]
                 \/ \E q \in Above[p] : q \in Entries /\ manifest[q].kind = "link"
<1>1. TypeOK /\ Tree(before) /\ Progress /\ pc = "commit" /\ rest = {}
  BY DEF Committed, IInv, Stages
<1>2. manifest \in Manifests /\ before \in FileSystems /\ fs \in FileSystems
  BY <1>1 DEF TypeOK, FileSystems
<1>3. \A p : ~Pending(p) /\ PermOf(p) = manifest[p].perm
  BY <1>1 DEF Pending, PermOf
<1> QED
  BY <1>1, <1>2, <1>3 DEF Progress, Kept

\* What no manifest has and the walk enters is as it was found.
LEMMA ExtraIsKept ==
    ASSUME Committed, NEW p \in Entries \ Listed, p \in Walked(fs) \/ p \in Walked(before),
           before[p].type = "dir" \/ p \in Walked(fs)
    PROVE  fs[p] = before[p]
<1>1. manifest \in Manifests
  BY CommittedFacts
<1> SUFFICES ASSUME NEW q \in Above[p], q \in Entries, manifest[q].kind = "link"
             PROVE  FALSE
  BY CommittedFacts
<1>2. q # Base /\ q \in Listed /\ Formed(q)
  BY CommittedFacts, PathsAssumption DEF Listed, Kinds
<1>3. CASE p \in Walked(fs)
  <2>1. fs[q].type = "dir"
    BY <1>2, <1>3 DEF Walked
  <2> QED
    BY <2>1, <1>2, FormedExists
<1>4. CASE p \in Walked(before) /\ before[p].type = "dir"
  <2>1. before[q].type = "dir" /\ ~before[q].via
    BY <1>2, <1>4 DEF Walked
  <2>2. PICK c \in Entries : c \in Above[p] \cup {p} /\ Parent[c] = q
    BY Paths
  <2>3. c # Base
    BY <2>2, PathsAssumption
  <2>4. before[c].type = "dir"
    BY <2>2, <2>3, <1>4 DEF Walked
  <2>5. ~IsEmptyDir(before, q)
    BY <2>2, <2>4 DEF IsEmptyDir
  <2>6. StandsInTheWay(before, q)
    BY <2>1, <2>5 DEF StandsInTheWay, IsDir
  <2> QED
    BY <2>6, <1>2 DEF Formed
<1> QED
  BY <1>3, <1>4

\* VerifyTransfer accepts only what is right ...
LEMMA AcceptedIsRight ==
    ASSUME Committed, Accepted
    PROVE  NothingFollowed /\ EverythingReadable
<1>0. manifest \in Manifests /\ before \in FileSystems
  BY CommittedFacts
<1>1. ASSUME NEW p \in Entries, manifest[p].kind \in {"dir", "file", "empty"}
      PROVE  /\ ~before[p].via /\ before[p].type \notin {"dangling", "special"}
             /\ fs[p].via = before[p].via /\ p \in Listed /\ p \in Walked(fs)
  <2>1. p \in Listed
    BY <1>1 DEF Listed, Kinds
  <2>2. Formed(p) /\ Verified(fs, p)
    BY <2>1, CommittedFacts DEF Accepted
  <2>3. ~fs[p].via /\ p \in Walked(fs)
    BY <2>2, <1>1 DEF Verified
  <2>4. CASE manifest[p].kind = "dir"
    <3>1. ~StandsInTheWay(before, p) /\ fs[p].via = before[p].via
      BY <2>2, <2>4 DEF Formed
    <3> QED
      BY <3>1, <2>1, <2>3, <2>4, <1>1, DirInTheWay
  <2>5. CASE manifest[p].kind \in {"file", "empty"}
    <3>1. /\ fs[p].via = IF before[p].type = "dangling" THEN TRUE ELSE before[p].via
          /\ fs[p].type = IF before[p].type = "special" THEN "special" ELSE "file"
      BY <2>2, <2>5 DEF Formed
    <3>2. fs[p].type = "file"
      BY <2>2, <2>5 DEF Verified
    <3> QED
      BY <3>1, <3>2, <2>1, <2>3
  <2> QED
    BY <2>4, <2>5, <1>1
<1>2. ASSUME NEW p \in Entries, IsDir(p)
      PROVE  manifest[p].perm # "none"
  <2>1. p \in Walked(fs) /\ p \in Listed
    BY <1>1, <1>2 DEF IsDir
  <2>2. fs[p].type = "dir" /\ ~fs[p].via /\ fs[p].perm = manifest[p].perm
    BY <2>1, <1>2 DEF Accepted, Verified, IsDir
  <2> QED
    BY <2>1, <2>2 DEF Accepted, WalkOK
<1>3. ASSUME NEW p \in Entries, manifest[p].kind = "extra",
             p \in Walked(before), before[p].type = "dir", ~before[p].via
      PROVE  before[p].perm # "none"
  <2>1. p \in Entries \ Listed
    BY <1>3 DEF Listed, Kinds
  <2>2. fs[p] = before[p]
    BY <2>1, <1>3, ExtraIsKept
  <2>3. ASSUME NEW q \in Above[p], q # Base
        PROVE  fs[q].type = "dir" /\ ~fs[q].via
    <3>1. q \in Entries /\ Above[q] \subseteq Above[p] /\ before[q].type = "dir" /\ ~before[q].via
      BY <2>3, <1>3, Paths DEF Walked
    <3>2. CASE q \in Listed
      <4>1. Formed(q) /\ manifest[q].kind \in {"dir", "link", "empty", "file"}
        BY <3>2, <1>0, CommittedFacts, Listing
      <4>2. CASE manifest[q].kind = "dir"
        BY <4>1, <4>2, <3>1 DEF Formed
      <4>3. CASE manifest[q].kind = "link"
        <5>1. PICK c \in Entries : c \in Above[p] \cup {p} /\ Parent[c] = q
          BY Paths
        <5>2. before[c].type = "dir"
          BY <5>1, <1>3, PathsAssumption DEF Walked
        <5>3. StandsInTheWay(before, q)
          BY <5>1, <5>2, <4>3, <3>1 DEF StandsInTheWay, IsDir, IsEmptyDir
        <5> QED
          BY <5>3, <4>1 DEF Formed
      <4>4. CASE manifest[q].kind \in {"empty", "file"}
        <5>1. StandsInTheWay(before, q)
          BY <4>4, <3>1 DEF StandsInTheWay, IsDir
        <5> QED
          BY <5>1, <4>1 DEF Formed
      <4> QED
        BY <4>1, <4>2, <4>3, <4>4
    <3>3. CASE q \notin Listed
      <4>1. q \in Walked(before)
        BY <3>1, <1>3 DEF Walked
      <4>2. fs[q] = before[q]
        BY <4>1, <3>1, <3>3, ExtraIsKept
      <4> QED
        BY <4>2, <3>1
    <3> QED
      BY <3>2, <3>3
  <2>4. p \in Walked(fs)
    BY <2>2, <2>3, <1>3 DEF Walked
  <2> QED
    BY <2>2, <2>4, <1>3 DEF Accepted, WalkOK
<1>4. NothingFollowed
  BY <1>1 DEF NothingFollowed
<1>5. EverythingReadable
  BY <1>2, <1>3 DEF EverythingReadable
<1> QED
  BY <1>4, <1>5

\* ... and all that is right.
LEMMA RightIsAccepted ==
    ASSUME Committed, NothingFollowed, EverythingReadable
    PROVE  Accepted
<1>0. manifest \in Manifests /\ before \in FileSystems /\ Tree(before)
  BY CommittedFacts
<1>1. ASSUME NEW p \in Listed, manifest[p].kind # "link"
      PROVE  /\ p \in Entries /\ Formed(p) /\ ~fs[p].via /\ fs[p].perm = manifest[p].perm
             /\ manifest[p].kind = "dir" => fs[p].type = "dir" /\ fs[p].perm # "none"
             /\ manifest[p].kind # "dir" => fs[p].type = "file" /\ before[p].type # "special"
  <2>1. /\ p \in Entries /\ Formed(p) /\ fs[p].perm = manifest[p].perm
        /\ manifest[p].kind \in {"dir", "empty", "file"}
    BY <1>0, <1>1, CommittedFacts, Listing
  <2>2. ~before[p].via /\ before[p].type \notin {"dangling", "special"}
    BY <2>1 DEF NothingFollowed
  <2>3. CASE manifest[p].kind = "dir"
    <3>1. fs[p].type = "dir" /\ fs[p].via = before[p].via
      BY <2>1, <2>3 DEF Formed
    <3>2. manifest[p].perm # "none"
      BY <2>1, <2>3 DEF EverythingReadable, IsDir
    <3> QED
      BY <2>1, <2>2, <2>3, <3>1, <3>2
  <2>4. CASE manifest[p].kind \in {"empty", "file"}
    <3>1. fs[p].type = "file" /\ fs[p].via = before[p].via
      BY <2>1, <2>2, <2>4 DEF Formed
    <3> QED
      BY <2>1, <2>2, <2>4, <3>1
  <2> QED
    BY <2>1, <2>3, <2>4
<1>2. ASSUME NEW p \in Listed
      PROVE  p \in Walked(fs)
  <2>1. p \in Entries /\ Formed(p) /\ manifest[p].kind \in {"dir", "link", "empty", "file"}
    BY <1>0, CommittedFacts, Listing
  <2>2. fs[p].type # "none"
    BY <2>1, FormedExists
  <2>3. \A q \in Above[p] \ {Base} : fs[q].type = "dir" /\ ~fs[q].via
    BY <1>0, <1>1, Listing
  <2> QED
    BY <2>1, <2>2, <2>3 DEF Walked
<1>3. ASSUME NEW p \in Listed
      PROVE  Verified(fs, p)
  <2>1. Formed(p) /\ p \in Walked(fs) /\ manifest[p].kind \in {"dir", "link", "empty", "file"}
    BY <1>0, <1>2, CommittedFacts, Listing
  <2>2. CASE manifest[p].kind = "link"
    <3>1. fs[p] = NewLink
      BY <2>1, <2>2 DEF Formed
    <3>2. fs[p].type = "dangling" /\ fs[p].to = 1
      BY <3>1 DEF NewLink
    <3> QED
      BY <3>2, <2>1, <2>2 DEF Verified
  <2>3. CASE manifest[p].kind = "dir"
    BY <2>1, <2>3, <1>1 DEF Verified
  <2>4. CASE manifest[p].kind \in {"empty", "file"}
    <3>1. fs[p].size = IF manifest[p].kind = "empty" THEN 0 ELSE 1
      BY <2>1, <2>4, <1>1 DEF Formed
    <3> QED
      BY <3>1, <2>1, <2>4, <1>1 DEF Verified
  <2> QED
    BY <2>1, <2>2, <2>3, <2>4
<1>4. ASSUME NEW p \in Walked(fs), fs[p].type = "dir", ~fs[p].via
      PROVE  fs[p].perm # "none"
  <2>1. p \in Entries
    BY DEF Walked
  <2>2. CASE p \in Listed
    <3>1. manifest[p].kind # "link"
      BY <2>2, <1>4, CommittedFacts, FormedExists
    <3> QED
      BY <3>1, <2>2, <1>1, <1>4
  <2>3. CASE p \notin Listed
    <3>1. manifest[p].kind = "extra"
      BY <2>1, <2>3, <1>0, Listing
    <3>2. fs[p] = before[p]
      BY <2>1, <2>3, ExtraIsKept
    <3>3. ASSUME NEW q \in Above[p], q # Base
          PROVE  before[q].type = "dir" /\ ~before[q].via
      <4>1. q \in Entries /\ Above[q] \subseteq Above[p] /\ fs[q].type = "dir" /\ ~fs[q].via
        BY <3>3, <2>1, Paths DEF Walked
      <4>2. before[q].type = "dir"
        BY <3>2, <2>1, <1>0, <1>4 DEF Tree
      <4>3. CASE q \in Listed
        <5>1. Formed(q) /\ manifest[q].kind \in {"dir", "link", "empty", "file"}
          BY <4>3, <1>0, CommittedFacts, Listing
        <5>2. manifest[q].kind = "dir"
          BY <5>1, <4>1, FormedExists
        <5> QED
          BY <5>1, <5>2, <4>1, <4>2 DEF Formed
      <4>4. CASE q \notin Listed
        <5>1. q \in Walked(fs)
          BY <4>1, <1>4 DEF Walked
        <5>2. fs[q] = before[q]
          BY <5>1, <4>1, <4>4, ExtraIsKept
        <5> QED
          BY <5>2, <4>1
      <4> QED
        BY <4>3, <4>4
    <3>4. p \in Walked(before)
      BY <3>2, <3>3, <2>1, <1>4 DEF Walked
    <3> QED
      BY <3>1, <3>2, <3>4, <2>1, <1>4 DEF EverythingReadable, IsDir
  <2> QED
    BY <2>2, <2>3
<1> QED
  BY <1>3, <1>4 DEF Accepted, WalkOK

\* VerifyTransfer keeps the invariant.
LEMMA VerifyStep ==
    ASSUME IInv, VerifyTransfer
    PROVE  IInv'
<1>1. /\ TypeOK /\ Tree(fs) /\ Tree(before) /\ (fresh => Clean(fs) /\ Clean(before))
      /\ fs \in FileSystems /\ manifest \in Manifests /\ rest \subseteq Entries
      /\ pc = "commit" /\ rest = {} /\ written \subseteq ListedFiles /\ Progress
  BY DEF IInv, TypeOK, FileSystems, VerifyTransfer, Stages
<1>2. /\ manifest' = manifest /\ before' = before /\ fresh' = fresh /\ runs' = runs
      /\ written' = written /\ fs' = fs /\ rest' = rest /\ Listed' = Listed /\ pc' = "done"
  BY DEF VerifyTransfer, Listed
<1>3. valid' = Accepted
  BY DEF VerifyTransfer, Accepted
<1>4. valid' \in BOOLEAN
  BY <1>3 DEF Accepted, WalkOK
<1>5. TypeOK'
  BY <1>1, <1>2, <1>4, TypeStep
<1>6. Tree(fs)' /\ Tree(before)'
  BY <1>1, <1>2 DEF Tree
<1>7. (fresh => Clean(fs) /\ Clean(before))'
  BY <1>1, <1>2, FreshStep
<1>8. VerifyAccepts'
  <2>1. valid' <=> NothingFollowed /\ EverythingReadable
    <3>1. Committed
      BY <1>1 DEF Committed
    <3>2. Accepted <=> NothingFollowed /\ EverythingReadable
      BY <3>1, AcceptedIsRight, RightIsAccepted
    <3> QED
      BY <3>2, <1>3
  <2>2. (NothingFollowed /\ EverythingReadable)' <=> NothingFollowed /\ EverythingReadable
    BY <1>2 DEF NothingFollowed, EverythingReadable, IsDir, Walked
  <2> QED
    BY <2>1, <2>2 DEF VerifyAccepts, NothingFollowed, EverythingReadable
<1>9. Progress' /\ InOrder'
  <2>1. \A q : ~Pending(q) /\ ~Pending(q)' /\ PermOf(q)' = PermOf(q)
    BY <1>1, <1>2 DEF Pending, PermOf
  <2>2. \A q \in Entries : StandsInTheWay(before, q)' <=> StandsInTheWay(before, q)
    BY <1>2 DEF StandsInTheWay, IsDir
  <2>3. ASSUME NEW q \in Listed
        PROVE  Formed(q)' /\ (manifest'[q].kind # "link" => fs'[q].perm = PermOf(q)')
    <3>1. Formed(q) /\ (manifest[q].kind # "link" => fs[q].perm = PermOf(q)) /\ q \in Entries
      BY <2>1, <1>1 DEF Progress, Listed
    <3>2. Formed(q)'
      BY <3>1, <2>2, <1>2 DEF Formed
    <3> QED
      BY <3>1, <3>2, <2>1, <1>2
  <2>4. \A q \in Entries \ Listed : Kept(q)'
    BY <2>1, <1>1, <1>2 DEF Progress, Kept
  <2>5. PrepareOK(before)' /\ fs'[Base].type = "dir" /\ fs'[Base].perm = "all"
    BY <1>1, <1>2 DEF Progress, PrepareOK
  <2> QED
    BY <2>1, <2>3, <2>4, <2>5, <1>1, <1>2 DEF Progress, InOrder
<1> QED
  BY <1>2, <1>5, <1>6, <1>7, <1>8, <1>9 DEF IInv, Stages

\* The next run finds what this one has left.
LEMMA RerunStep ==
    ASSUME IInv, Rerun
    PROVE  IInv'
<1>1. /\ TypeOK /\ Tree(fs) /\ (fresh => Clean(fs) /\ Clean(before))
  BY DEF IInv
<1>2. /\ manifest' = manifest /\ fs' = fs /\ fresh' = fresh /\ before' = fs
      /\ pc' = "prepare" /\ rest' = {} /\ valid' = FALSE /\ runs' = runs + 1 /\ runs < MaxRuns
      /\ written' = written
  BY DEF Rerun
<1>3. TypeOK'
  <2>1. runs' \in 1..MaxRuns
    BY <1>1, <1>2, BeforeAssumption DEF TypeOK
  <2>2. {fresh', valid'} \subseteq BOOLEAN
    BY <1>1, <1>2 DEF TypeOK
  <2> QED
    BY <2>1, <2>2, <1>1, <1>2 DEF TypeOK, ListedFiles
<1>4. Tree(fs)' /\ Tree(before)'
  BY <1>1, <1>2 DEF Tree
<1>5. (fresh => Clean(fs) /\ Clean(before))'
  BY <1>1, <1>2 DEF Clean
<1> QED
  BY <1>2, <1>3, <1>4, <1>5 DEF IInv, Stages, VerifyAccepts

\* A step that changes nothing.
LEMMA StutterStep ==
    ASSUME IInv, UNCHANGED vars
    PROVE  IInv'
<1>1. /\ manifest' = manifest /\ fs' = fs /\ pc' = pc /\ rest' = rest /\ before' = before
      /\ fresh' = fresh /\ valid' = valid /\ written' = written /\ runs' = runs
  BY DEF vars
<1>2. TypeOK' /\ Tree(fs)' /\ Tree(before)'
  BY <1>1 DEF IInv, TypeOK, ListedFiles, Tree
<1>3. (fresh => Clean(fs) /\ Clean(before))'
  BY <1>1 DEF IInv, Clean
<1>4. VerifyAccepts'
  BY <1>1 DEF IInv, VerifyAccepts, Walked, IsDir
<1>5. Listed' = Listed
  BY <1>1 DEF Listed
<1>6. \A q : Pending(q)' <=> Pending(q)
  BY <1>1 DEF Pending
<1>7. \A q : PermOf(q)' = PermOf(q)
  BY <1>1 DEF PermOf
<1>8. \A q : StandsInTheWay(before, q)' <=> StandsInTheWay(before, q)
  BY <1>1 DEF StandsInTheWay, IsDir
<1>9. PrepareOK(before)' <=> PrepareOK(before)
  BY <1>1 DEF PrepareOK
<1>10. InTheWay(before)' <=> InTheWay(before)
  BY <1>8, <1>9 DEF InTheWay
<1>11. \A q : (Formed(q)' <=> Formed(q)) /\ (Found(q)' <=> Found(q)) /\ (Kept(q)' <=> Kept(q))
  BY <1>1, <1>6, <1>8 DEF Formed, Found, Kept
<1>12. Progress => Progress'
  BY <1>1, <1>5, <1>6, <1>7, <1>9, <1>11 DEF Progress
<1>13. InOrder => InOrder'
  BY <1>1, <1>5 DEF InOrder, SetupBefore, CommitBefore, Precedes
<1>14. Stages'
  BY <1>1, <1>10, <1>12, <1>13 DEF IInv, Stages
<1> QED
  BY <1>2, <1>3, <1>4, <1>14 DEF IInv

\* The initial states.
LEMMA InitIInv == Init => IInv
<1> SUFFICES ASSUME Init PROVE IInv
  OBVIOUS
<1>1. /\ manifest \in Manifests /\ fs \in FileSystems /\ Tree(fs) /\ before = fs
      /\ pc = "prepare" /\ rest = {} /\ valid = FALSE /\ written = {} /\ runs = 1
      /\ fresh = (\A p \in Nodes : fs[p].type = "none")
  BY BeforeAssumption DEF Init, FileSystems
<1>2. fresh \in BOOLEAN
  BY <1>1
<1>3. TypeOK
  <2>1. runs \in 1..MaxRuns
    BY <1>1, BeforeAssumption
  <2>2. {fresh, valid} \subseteq BOOLEAN
    BY <1>1, <1>2
  <2> QED
    BY <2>1, <2>2, <1>1 DEF TypeOK, FileSystems
<1>4. fresh => Clean(fs) /\ Clean(before)
  <2> SUFFICES ASSUME fresh PROVE Clean(fs)
    BY <1>1
  <2>1. \A p \in Nodes : fs[p].type = "none"
    BY <1>1
  <2> QED
    BY <2>1 DEF Clean, Nodes
<1> QED
  BY <1>1, <1>3, <1>4 DEF IInv, Stages, VerifyAccepts

\* The invariant holds.
LEMMA Invariance == Spec => []IInv
<1>1. IInv /\ [Next]_vars => IInv'
  BY PrepareStep, PrepareEntryStep, TransferStep, CommitStep, VerifyStep, RerunStep, StutterStep
  DEF Next
<1> QED
  BY InitIInv, <1>1, PTL DEF Spec

(***************************************************************************)
(* The results.                                                            *)
(***************************************************************************)

\* Every state of the destination is a tree of nodes, and every loop is over
\* entries: the operators for the system calls return trees or Failed.
THEOREM StorageTyped == Spec => []TypeOK
<1>1. IInv => TypeOK
  BY DEF IInv
<1> QED
  BY Invariance, <1>1, PTL

\* SetupTransfer fails exactly for what InTheWay lists, and otherwise every file
\* can be opened for writing and has its size.
THEOREM SetupIsExact == Spec => []SetupFailsIffInTheWay
<1>1. ASSUME IInv
      PROVE  SetupFailsIffInTheWay
  <2>0. manifest \in Manifests /\ Stages
    BY <1>1 DEF IInv, TypeOK
  <2>1. pc = "failed" => InTheWay(before)
    BY <2>0 DEF Stages
  <2>2. ASSUME pc \in {"transfer", "commit", "locked", "done"}
        PROVE  ~InTheWay(before)
    <3>1. Progress
      BY <2>0, <2>2 DEF Stages
    <3>2. \A p \in Listed : ~StandsInTheWay(before, p)
      BY <3>1, <2>2 DEF Progress, Pending, Formed
    <3>3. \A p \in Entries \ Listed : ~StandsInTheWay(before, p)
      BY <2>0, Listing DEF StandsInTheWay, IsDir
    <3> QED
      BY <3>1, <3>2, <3>3 DEF InTheWay, Progress
  <2>3. ASSUME pc = "transfer", NEW p \in Entries, manifest[p].kind = "file"
        PROVE  Reach(fs, p) /\ fs[p].type = "file" /\ fs[p].perm = "all" /\ fs[p].size = 1
    <3>1. Progress
      BY <2>0, <2>3 DEF Stages
    <3>2. \A q \in Listed : Formed(q) /\ (manifest[q].kind # "link" => fs[q].perm = "all")
      BY <3>1, <2>3 DEF Progress, Pending, PermOf
    <3>3. p \in Listed
      BY <2>3 DEF Listed, Kinds
    <3>4. ASSUME NEW q \in Above[p]
          PROVE  fs[q].type = "dir" /\ fs[q].perm # "none"
      <4>1. CASE q = Base
        BY <4>1, <3>1 DEF Progress
      <4>2. CASE q # Base
        <5>1. q \in Listed /\ manifest[q].kind = "dir"
          BY <4>2, <3>3, <2>0, Listing
        <5> QED
          BY <5>1, <3>2 DEF Formed
      <4> QED
        BY <4>1, <4>2
    <3> QED
      BY <3>2, <3>3, <3>4, <2>3 DEF Formed, StandsInTheWay, IsDir, Reach
  <2> QED
    BY <2>1, <2>2, <2>3 DEF SetupFailsIffInTheWay
<1> QED
  BY Invariance, <1>1, PTL

\* CompleteTransfer never locks itself out, for every tree and all permissions.
THEOREM CommitIsNeverLocked == Spec => []CommitReachesAll
<1>1. IInv => CommitReachesAll
  BY DEF IInv, Stages, CommitReachesAll
<1> QED
  BY Invariance, <1>1, PTL

\* A destination that was empty at first can be used again after any number of
\* runs that died anywhere, unless the manifest closes a directory with
\* directories in it.
THEOREM RerunsWork == Spec => []RerunWorks
<1>1. ASSUME IInv
      PROVE  RerunWorks
  <2>1. /\ manifest \in Manifests /\ before \in FileSystems
        /\ fresh => Clean(before)
        /\ pc = "failed" => InTheWay(before)
    BY <1>1 DEF IInv, TypeOK, Stages, FileSystems
  <2> QED
    BY <2>1, CleanInTheWay DEF RerunWorks
<1> QED
  BY Invariance, <1>1, PTL

\* VerifyTransfer accepts the tree with exactly three exceptions: a symbolic link
\* was followed, a special file stood for an empty one, or a directory cannot be
\* read.  What was transferred has no part in it: VerifiedIsTransferred fails.
THEOREM VerifyIsExact == Spec => []VerifyAccepts
<1>1. IInv => VerifyAccepts
  BY DEF IInv
<1> QED
  BY Invariance, <1>1, PTL
================================================================================
