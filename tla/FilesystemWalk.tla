--------------------------- MODULE FilesystemWalk ---------------------------
(***************************************************************************)
(* Builder<FilesystemEntry> (src/filesystem_entry.rs): filling a builder   *)
(* from a directory tree, while the tree changes.                          *)
(*                                                                         *)
(* add_directory_recursive and add_filesystem_entry are futures; an action *)
(* is what happens from the answer of one await to the next await, where   *)
(* the file system may change, the operation may fail, and the caller may  *)
(* drop the future.  Up to then the builder is borrowed by it.             *)
(*                                                                         *)
(* A path is the sequence of file names that leads to it from `directory`. *)
(* A string with slashes is the sequence of its parts: "d/f" is            *)
(* << "d", "f" >>, "d/" is << "d", "" >> and "" is << "" >>.               *)
(*                                                                         *)
(* Not part of the model: a directory that is replaced by a symlink before *)
(* it is opened, and a file name that is not in one directory only.        *)
(***************************************************************************)
EXTENDS ZipBuilder

CONSTANTS
  Lossy,         \* OsStr::to_string_lossy: file names to parts of names
  Trees,         \* what may be on disk: functions from paths to nodes
  Paths, Nodes,  \* what may be put there meanwhile
  RootNames,     \* root_name: None, or Some of a string
  EntryNames,    \* names given to add_filesystem_entry
  CanFail,       \* operations of the file system may fail
  MaxChanges,    \* bound: paths that change during a call
  MaxCalls       \* bound: calls

Root == << >>

Node == [kind : BuilderFileType, size : Nat, mode : Nat,
         modified : Times \union {NoTime}]

KnownPaths == {Root} \union Paths \union UNION {DOMAIN t : t \in Trees}
KnownNodes == Nodes \union UNION {{t[p] : p \in DOMAIN t} : t \in Trees}

ASSUME WalkAssumption ==
  /\ KnownPaths \subseteq Seq(DOMAIN Lossy)
  /\ \A t \in Trees : t \in [DOMAIN t -> Node]
  /\ \A t \in Trees : \A p \in DOMAIN t \ {Root} :
       Front(p) \in DOMAIN t /\ t[Front(p)].kind = "Directory"
  /\ Nodes \subseteq Node
  /\ CanFail \in BOOLEAN
  /\ MaxChanges \in Nat /\ MaxCalls \in Nat

VARIABLES
  fs,        \* the tree on disk
  touched,   \* the paths that changed since the call began
  call,      \* the future and its locals; before is Len(entries) at its start
  calls,
  outcome    \* what the last call came to

walkVars == << fs, touched, call, calls, outcome >>
allVars  == << vars, walkVars >>

NoNode == [kind |-> "File", size |-> 0, mode |-> 0, modified |-> NoTime]
NoCall == [op |-> "none", at |-> "idle", root_name |-> None, before |-> 0,
           root_metadata |-> NoNode, stack |-> << >>, dir |-> Root,
           listing |-> {}, path |-> Root, metadata |-> NoNode, name |-> << >>]

InCall == call.at # "idle"

FileSystemPath == Seq(DOMAIN Lossy)
WalkTypeOK ==
  /\ TypeOK
  /\ fs \in [DOMAIN fs -> Node] /\ DOMAIN fs \subseteq FileSystemPath
  /\ touched \subseteq FileSystemPath
  /\ call.op \in {"none", "walk", "entry"}
  /\ call.at \in {"idle", "root", "open", "next", "metadata", "link"}
  /\ call.before \in Nat
  /\ call.root_metadata \in Node /\ call.metadata \in Node
  /\ call.stack \in Seq(FileSystemPath)
  /\ call.dir \in FileSystemPath /\ call.path \in FileSystemPath
  /\ call.listing \subseteq DOMAIN Lossy
  /\ calls \in 0 .. MaxCalls
  /\ outcome \in {"None", "Ok", "IOError", "NotADirectory", "Dropped"}
                  \union AddErrors

WalkInit ==
  /\ Init
  /\ fs \in Trees
  /\ touched = {}
  /\ call = NoCall
  /\ calls = 0
  /\ outcome = "None"

-----------------------------------------------------------------------------
(* Names.                                                                  *)

(* What is before a slash in front, between two, or after one at the end. *)
EmptyPart == ""

(* trim_end_matches('/') and trim_matches('/'). *)
Solid(name) == {k \in DOMAIN name : name[k] # EmptyPart}
TrimEnd(name) ==
  IF Solid(name) = {} THEN << EmptyPart >> ELSE SubSeq(name, 1, Max(Solid(name)))
TrimBoth(name) ==
  IF Solid(name) = {} THEN << EmptyPart >>
  ELSE SubSeq(name, Min(Solid(name)), Max(Solid(name)))

WithSlash(name) == Append(name, EmptyPart)

SanitizeEntryNameSlashes_AsGiven(name, is_directory) == name
SanitizeEntryNameSlashes(name, is_directory) ==
  IF is_directory THEN WithSlash(TrimEnd(name)) ELSE TrimEnd(name)

(* The cleaned root_name, or None. *)
CleanRootName(root_name) ==
  IF root_name = None THEN None ELSE Some(WithSlash(TrimBoth(root_name[1])))

(* Up to its last slash a cleaned root_name is Front of it. *)
MakeEntryName_NoSlash(path, root_name, is_directory) ==
  (IF root_name = None THEN << >> ELSE Front(root_name[1]))
    \o [k \in DOMAIN path |-> Lossy[path[k]]]
MakeEntryName(path, root_name, is_directory) ==
  (IF root_name = None THEN << >> ELSE Front(root_name[1]))
    \o [k \in DOMAIN path |-> Lossy[path[k]]]
    \o (IF is_directory THEN << EmptyPart >> ELSE << >>)

-----------------------------------------------------------------------------
(* FilesystemEntry::with_metadata.  For a symlink the target is read from  *)
(* disk; the others take what metadata says.                               *)

FilesystemEntry(path, md) ==
  [path |-> path, kind |-> md.kind,
   size |-> IF md.kind = "Directory" THEN 0 ELSE md.size]

(* What names are put together from. *)
Parts ==
  {EmptyPart} \union {Lossy[file_name] : file_name \in DOMAIN Lossy}
    \union UNION {{name[k] : k \in DOMAIN name} :
                   name \in EntryNames \union {r[1] : r \in RootNames \ {None}}}

(* File names are not empty, and Names and Data are large enough for what  *)
(* a walk or a call can make of what may be on disk.                       *)
ASSUME NamesAssumption ==
  /\ \A file_name \in DOMAIN Lossy : Lossy[file_name] # EmptyPart
  /\ \A r \in RootNames \ {None} : r \in Seq(Seq(Parts)) /\ Len(r) = 1
  /\ EntryNames \subseteq Seq(Parts)
  /\ \A r \in RootNames :
       /\ r # None => CleanRootName(r)[1] \in Names
       /\ \A path \in KnownPaths \ {Root}, is_directory \in BOOLEAN :
            MakeEntryName(path, CleanRootName(r), is_directory) \in Names
  /\ \A name \in EntryNames, is_directory \in BOOLEAN :
       SanitizeEntryNameSlashes(name, is_directory) \in Names
  /\ \A path \in KnownPaths, md \in KnownNodes :
       FilesystemEntry(path, md) \in Data

Symlinks(path) == path \in DOMAIN fs /\ fs[path].kind = "Symlink"

-----------------------------------------------------------------------------
(* How a call ends.                                                        *)

Ends(result) ==
  /\ call' = [NoCall EXCEPT !.op = call.op, !.root_name = call.root_name,
                            !.before = call.before]
  /\ outcome' = result
  /\ UNCHANGED << fs, touched, calls >>

Goes(to) == call' = to /\ UNCHANGED << fs, touched, calls, outcome >>

(* An await that fails, because of what is on disk or for itself. *)
Fails == Ends("IOError") /\ UNCHANGED vars
MayFail == CanFail /\ Fails

(* What becomes of the entry that add_entry returns. *)
Described(data, md) == Metadata(NewBuilderEntry(data, time_converter), md)

(* add_entry(name, data)?, then metadata(md), then the rest of the call. *)
Adds(name, data, md, next) ==
  /\ AddEntryAs(name, Described(data, md))
  /\ IF last' = "Ok" THEN next ELSE Ends(last')

-----------------------------------------------------------------------------
(* Builder::add_directory_recursive.                                       *)

AddDirectoryRecursive(root_name) ==
  /\ call' = [NoCall EXCEPT !.op = "walk", !.at = "root",
                            !.root_name = CleanRootName(root_name),
                            !.before = Len(entries)]
  /\ calls' = calls + 1
  /\ touched' = {}
  /\ outcome' = "None"
  /\ UNCHANGED << vars, fs >>

(* symlink_metadata(&directory); the stack is made and popped at once. *)
StatRoot ==
  /\ call.at = "root"
  /\ \/ Root \notin DOMAIN fs /\ Fails
     \/ /\ Root \in DOMAIN fs /\ fs[Root].kind # "Directory"
        /\ Ends("NotADirectory") /\ UNCHANGED vars
     \/ /\ Root \in DOMAIN fs /\ fs[Root].kind = "Directory"
        /\ Goes([call EXCEPT !.at = "open", !.dir = Root,
                             !.root_metadata = fs[Root]])
        /\ UNCHANGED vars
     \/ MayFail

IsDirectory(path) == path \in DOMAIN fs /\ fs[path].kind = "Directory"

Children(path) ==
  {Last(p) : p \in {p \in DOMAIN fs \ {Root} : Front(p) = path}}

(* read_dir(path). *)
OpenDir ==
  /\ call.at = "open"
  /\ \/ ~IsDirectory(call.dir) /\ Fails
     \/ /\ IsDirectory(call.dir)
        /\ Goes([call EXCEPT !.at = "next", !.listing = Children(call.dir)])
        /\ UNCHANGED vars
     \/ MayFail

(* next_entry(), with an entry. *)
NextEntry ==
  /\ call.at = "next"
  /\ \/ \E name \in call.listing :
          /\ Goes([call EXCEPT !.at = "metadata", !.path = Append(call.dir, name),
                               !.listing = @ \ {name}])
          /\ UNCHANGED vars
     \/ MayFail

(* next_entry() without one: the next directory of the stack. *)
Popped_Kept(stack) == stack
Popped(stack)      == Front(stack)

PopDirectory ==
  /\ call.at = "next" /\ call.listing = {} /\ call.stack # << >>
  /\ Goes([call EXCEPT !.at = "open", !.dir = Last(call.stack),
                       !.stack = Popped(call.stack)])
  /\ UNCHANGED vars

(* Nothing is left: the root gets its own entry if it has a name. *)
FinishWalk ==
  /\ call.at = "next" /\ call.listing = {} /\ call.stack = << >>
  /\ IF call.root_name = None THEN Ends("Ok") /\ UNCHANGED vars
     ELSE /\ AddEntryAs(call.root_name[1],
                Directory(Described(FilesystemEntry(Root, call.root_metadata),
                                    call.root_metadata)))
          /\ Ends(last')

(* The directories still to be listed, once this one was met. *)
Pushed_Never(stack, path, md) == stack
Pushed(stack, path, md) ==
  IF md.kind = "Directory" THEN Append(stack, path) ELSE stack

(* dir_entry.metadata(), and for all but symlinks the rest of the turn. *)
EntryMetadata ==
  LET md == fs[call.path] IN
  /\ call.at = "metadata"
  /\ \/ call.path \notin DOMAIN fs /\ Fails
     \/ /\ call.path \in DOMAIN fs /\ md.kind = "Symlink"
        /\ Goes([call EXCEPT !.at = "link", !.metadata = md])
        /\ UNCHANGED vars
     \/ /\ call.path \in DOMAIN fs /\ md.kind # "Symlink"
        /\ Adds(MakeEntryName(call.path, call.root_name, md.kind = "Directory"),
                FilesystemEntry(call.path, md), md,
                Goes([call EXCEPT !.at = "next",
                                  !.stack = Pushed(@, call.path, md)]))
     \/ MayFail

(* read_link(path), for a path that was a symlink a moment ago. *)
ReadLink ==
  /\ call.at = "link"
  /\ \/ ~Symlinks(call.path) /\ Fails
     \/ /\ Symlinks(call.path)
        /\ IF call.op = "walk"
           THEN Adds(MakeEntryName(call.path, call.root_name, FALSE),
                     FilesystemEntry(call.path, fs[call.path]), call.metadata,
                     Goes([call EXCEPT !.at = "next"]))
           ELSE Adds(SanitizeEntryNameSlashes(call.name, FALSE),
                     FilesystemEntry(call.path, fs[call.path]), call.metadata,
                     Ends("Ok"))
     \/ MayFail

-----------------------------------------------------------------------------
(* Builder::add_filesystem_entry, with metadata the caller has just taken. *)

AddFilesystemEntry(name, path) ==
  LET md    == fs[path]
      began == [NoCall EXCEPT !.op = "entry", !.at = "link", !.path = path,
                              !.metadata = md, !.name = name,
                              !.before = Len(entries)]
  IN
  /\ calls' = calls + 1
  /\ touched' = {}
  /\ UNCHANGED fs
  /\ IF md.kind = "Symlink"
     THEN call' = began /\ outcome' = "None" /\ UNCHANGED vars
     ELSE /\ AddEntryAs(SanitizeEntryNameSlashes(name, md.kind = "Directory"),
                        Described(FilesystemEntry(path, md), md))
          /\ call' = [NoCall EXCEPT !.op = "entry", !.before = Len(entries)]
          /\ outcome' = last'

-----------------------------------------------------------------------------
(* The rest of the world.                                                  *)

(* The caller drops the future. *)
DropCall == InCall /\ Ends("Dropped") /\ UNCHANGED vars

Below(path) == {p \in DOMAIN fs : IsPrefix(path, p)}

(* A listing that is being read may or may not show a change in its        *)
(* directory.                                                              *)
Changes(path, tree, shown) ==
  /\ InCall
  /\ path \notin touched /\ Cardinality(touched) < MaxChanges
  /\ fs' = tree
  /\ touched' = touched \union {path}
  /\ IF path # Root /\ call.at \in {"next", "metadata", "link"}
                    /\ call.op = "walk" /\ Front(path) = call.dir
     THEN call' \in {call, [call EXCEPT !.listing = shown]}
     ELSE call' = call
  /\ UNCHANGED << vars, calls, outcome >>

Deleted(path) ==
  /\ path \in DOMAIN fs
  /\ Changes(path, [p \in DOMAIN fs \ Below(path) |-> fs[p]],
             call.listing \ {Last(path)})

Created(path, node) ==
  /\ path \notin DOMAIN fs
  /\ path = Root \/ IsDirectory(Front(path))
  /\ Changes(path, [p \in DOMAIN fs \union {path} |->
                      IF p = path THEN node ELSE fs[p]],
             call.listing \union {Last(path)})

Replaced(path, node) ==
  /\ path \in DOMAIN fs
  /\ fs[path].kind = "Directory" => node.kind # "Symlink"
  /\ Changes(path, [p \in (DOMAIN fs \ Below(path)) \union {path} |->
                      IF p = path THEN node ELSE fs[p]],
             call.listing)

-----------------------------------------------------------------------------

Begin ==
  /\ ~InCall /\ calls < MaxCalls
  /\ \/ \E root_name \in RootNames : AddDirectoryRecursive(root_name)
     \/ \E name \in EntryNames, path \in DOMAIN fs :
          AddFilesystemEntry(name, path)

WalkStep ==
  \/ StatRoot
  \/ OpenDir
  \/ NextEntry
  \/ PopDirectory
  \/ FinishWalk
  \/ EntryMetadata
  \/ ReadLink

FsChange ==
  \E path \in Paths :
    \/ Deleted(path)
    \/ \E node \in Nodes : Created(path, node) \/ Replaced(path, node)

WalkNext == Begin \/ WalkStep \/ DropCall \/ FsChange

WalkSpec == WalkInit /\ [][WalkNext]_allVars

(* The future is polled, and the file system answers. *)
FairWalkSpec == WalkSpec /\ WF_allVars(WalkStep)

-----------------------------------------------------------------------------
(* Properties.                                                             *)

Walked == {i \in DOMAIN entries : call.op = "walk" /\ i > call.before}

(* The disk as the walk that ended found it, where it did not change. *)
Untouched ==
  {p \in DOMAIN fs \ {Root} : ~ \E q \in touched : IsPrefix(q, p)}

(* Doc of add_directory_recursive: it "adds content of a directory".  When *)
(* it returns Ok, whatever did not change meanwhile is in the archive, once *)
(* and as it is on disk; the root is the last entry if it has a name; and  *)
(* nothing else is there but what was on disk at some time.                *)
OkWalkIsTheTree ==
  ~InCall /\ call.op = "walk" /\ outcome = "Ok" =>
    LET n == Len(entries) IN
    /\ \A p \in Untouched : \E i \in Walked :
         LET e == entries[i].value IN
         /\ e.data = FilesystemEntry(p, fs[p])
         /\ entries[i].name = MakeEntryName(p, call.root_name,
                                            fs[p].kind = "Directory")
         /\ ExternalAttributes(e.file_type, e.permissions).high % \o1000
              = IF fs[p].kind = "Symlink" THEN \o777 ELSE fs[p].mode % \o1000
    /\ \A i \in Walked : entries[i].value.data.path = Root <=>
                           call.root_name # None /\ i = n
    /\ call.root_name # None => n \in Walked /\ entries[n].name = call.root_name[1]
    /\ \A i \in Walked : LET p == entries[i].value.data.path IN
         p \in Untouched \union {Root} \/ \E q \in touched : IsPrefix(q, p)

EndsWithSlash(name) == Len(name) >= 2 /\ Last(name) = EmptyPart

(* A directory below the root comes before what is in it, under the name,  *)
(* slash included, that the names of what is in it begin with.  The root   *)
(* is the exception: it comes after everything of its walk, if it comes at *)
(* all, though all the names begin with its own.  So it is also when the   *)
(* walk failed, was dropped, or goes on, and whatever happened to the tree.*)
DirectoriesInOrder ==
  \A i \in Walked : LET p == entries[i].value.data.path IN
    /\ Len(p) >= 2 =>
         \E j \in Walked :
           /\ j < i
           /\ entries[j].value.data.path = Front(p)
           /\ entries[j].value.file_type = "Directory"
           /\ EndsWithSlash(entries[j].name)
           /\ IsStrictPrefix(Front(entries[j].name), entries[i].name)
    /\ p = Root =>
         /\ EndsWithSlash(entries[i].name)
         /\ \A j \in Walked \ {i} :
              /\ j < i
              /\ IsStrictPrefix(Front(entries[i].name), entries[j].name)

(* The name of an entry, its type, and the data behind it agree on what it *)
(* is, though they come from different calls: a slash at the end of the    *)
(* name, the type of a directory, and no data go together.                 *)
EntriesAgree ==
  \A i \in DOMAIN entries : LET e == entries[i].value IN
    /\ e.file_type = e.data.kind
    /\ e.file_type = "Directory" <=> EndsWithSlash(entries[i].name)
    /\ e.file_type = "Directory" => e.data.size = 0

(* A walk comes to an end. *)
WalkEnds == InCall ~> ~InCall

=============================================================================
