-------------------------- MODULE MCFilesystemWalk --------------------------
(* Instances of FilesystemWalk for TLC. *)
EXTENDS FilesystemWalk

(* Two file names that are not UTF-8 look the same in an archive: of the   *)
(* files in Colliding the second is refused.                               *)
MCLossy == [name \in {"d", "f", "x1", "x2"} |->
              CASE name \in {"d", "f"} -> name [] OTHER -> "?"]

Dir(mode)       == [kind |-> "Directory", size |-> 8, mode |-> mode,
                    modified |-> "now"]
Regular(size)   == [kind |-> "File", size |-> size, mode |-> \o640,
                    modified |-> "now"]
Link(size)      == [kind |-> "Symlink", size |-> size, mode |-> \o777,
                    modified |-> NoTime]

Tree(shape) == [p \in {Root} \union DOMAIN shape |->
                  IF p = Root THEN Dir(\o750) ELSE shape[p]]

Nested    == Tree(<< "d" >> :> Dir(\o755) @@ << "d", "d" >> :> Dir(\o700)
                    @@ << "d", "d", "f" >> :> Regular(1))
Mixed     == Tree(<< "d" >> :> Dir(\o755) @@ << "d", "f" >> :> Link(2)
                    @@ << "f" >> :> Regular(0))
Colliding == Tree(<< "d" >> :> Dir(\o755) @@ << "d", "x1" >> :> Regular(1)
                    @@ << "d", "x2" >> :> Regular(3))

MCTrees == {Nested, Mixed, Colliding, [p \in {} |-> NoNode],
            [p \in {Root} |-> Link(1)]}

MCPaths == {<< >>, << "d" >>, << "d", "f" >>}
MCNodes == {Regular(3), Dir(\o711), Link(1)}

MCRootNames  == {None, Some(<< "", "p", "q", "" >>), Some(<< "" >>)}
MCEntryNames == {<< "f", "", "" >>, << "", "" >>}

AllPaths == MCPaths \union UNION {DOMAIN t : t \in MCTrees}
MCNames  ==
  {prefix \o [k \in DOMAIN p |-> MCLossy[p[k]]] \o slash :
     prefix \in {<< >>, << "" >>, << "p", "q" >>}, p \in AllPaths,
     slash \in {<< >>, << "" >>}}
  \union {SanitizeEntryNameSlashes(name, d) : name \in MCEntryNames, d \in BOOLEAN}
MCNameLen == [n \in MCNames |-> Len(n)]
MCData == [path : AllPaths, kind : BuilderFileType, size : 0 .. 3]

MCConvert == [c \in {} |-> c]
=============================================================================
