------------------------------- MODULE MCStorage -------------------------------
(* A tree for Storage: a/, a/b/, a/b/f, a/s -> ..., and a/x, which no manifest has. *)
EXTENDS Storage

MCParent == [a |-> "/", b |-> "a", f |-> "b", s |-> "a", x |-> "a"]
MCAbove == [a |-> {"/"}, b |-> {"a", "/"}, f |-> {"b", "a", "/"}, s |-> {"a", "/"},
            x |-> {"a", "/"}]
MCPlace == [f |-> 1, b |-> 2, s |-> 3, x |-> 4, a |-> 5]

Dir(p) == [kind |-> "dir", perm |-> p]
MCManifests ==
    {[a |-> Dir(pa), b |-> Dir(pb), f |-> [kind |-> k, perm |-> "read"],
      s |-> [kind |-> "link", perm |-> "none"], x |-> [kind |-> "extra", perm |-> "none"]] :
        pa \in Perms, pb \in Perms, k \in {"file", "empty"}}

Dangling(o) == [None EXCEPT !.type = "dangling", !.opens = o]
Special(o)  == [None EXCEPT !.type = "special", !.opens = o]
ViaDir   == [NewDir EXCEPT !.via = TRUE]
ViaFile  == NewFile(TRUE, 0)
File     == [NewFile(FALSE, 2) EXCEPT !.perm = "none"]
Dirs     == {[NewDir EXCEPT !.perm = p] : p \in Perms}
Links    == {Dangling(TRUE), Dangling(FALSE), ViaDir, ViaFile}
Specials == {Special(TRUE), Special(FALSE)}

\* Nothing is made in a directory outside.
Inside(t) == \A p \in Entries : t[Parent[p]].via => t[p] = None

MCBefore ==
    LET Trees(ba, A, B, F, S, X) ==
            {t \in {[p \in Nodes |-> CASE p = Base -> ba [] p = "a" -> na [] p = "b" -> nb
                                       [] p = "f" -> nf [] p = "s" -> ns [] p = "x" -> nx] :
                    na \in A, nb \in B, nf \in F, ns \in S, nx \in X} : Tree(t) /\ Inside(t)}
    IN  Trees(NewDir, {None, File, Special(TRUE)} \cup Dirs \cup Links,
             {None, File, Special(FALSE)} \cup Dirs \cup Links,
             {None, File, NewDir} \cup Links \cup Specials, {None, File, NewDir, Dangling(FALSE), Special(FALSE)},
             {None, [NewDir EXCEPT !.perm = "none"]})
        \cup {[p \in Nodes |-> IF p = Base THEN ba ELSE None] :
                ba \in {None, File, [NewDir EXCEPT !.perm = "read"], Dangling(FALSE), Special(TRUE), ViaDir}}
================================================================================
