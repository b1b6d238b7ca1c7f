------------------------------- MODULE WriteFile -------------------------------
(***************************************************************************)
(* The tool write_file (src/src/mcp_demo_server_main.cpp): IsSafeRelative- *)
(* Path, and WriteFileBlocking on threads that run at the same time, one   *)
(* for each call.                                                          *)
(*                                                                         *)
(* A path is the sequence of its parts, as iterating over a                *)
(* std::filesystem::path gives them; an absolute one begins with "/", and  *)
(* a slash at the end counts as a part ".".  The content of a file is a    *)
(* sequence of chunks, each named after the call that wrote it.            *)
(***************************************************************************)
EXTENDS Naturals, Sequences, SequencesExt

CONSTANTS
  Calls,       \* calls of the tool
  Names,       \* file names
  MaxParts,    \* bound: parts of a path
  Chunks,      \* writes to the disk one content takes
  DiskMayFail, \* what is asked of the disk may fail
  Hole         \* a chunk nobody has written

Parts == Names \union {".", ".."}

ASSUME PathsAssumption ==
  /\ {"/", ".", ".."} \intersect Names = {}
  /\ MaxParts \in Nat /\ Chunks \in Nat
  /\ DiskMayFail \in BOOLEAN
  /\ Hole \notin Calls

VARIABLES
  path,     \* path[c]: the argument "path" of call c
  pc,       \* pc[c]: where call c is
  result,   \* result[c]: what the client is told
  dirs,     \* the directories
  files,    \* files[t]: the content of file t
  written,  \* written[c]: chunks c has written
  failed,   \* failed[c]: a write of c has failed
  shared,   \* history: calls whose file was open twice at some time
  last      \* history: last[t], the call that opened t last

vars == <<path, pc, result, dirs, files, written, failed, shared, last>>

\* "" and relative paths, and absolute ones.
Paths ==
  LET relative == SeqOf(Parts, MaxParts)
  IN  relative \union {<<"/">> \o p : p \in relative}

-------------------------------------------------------------------------------
(* Paths.                                                                  *)

IsAbsolute(p) == p # <<>> /\ p[1] = "/"

\* Mutant: absolute paths are let through.
IsSafeRelativePath_Absolute(p) ==
  p # <<>> /\ \A i \in DOMAIN p : p[i] # ".."

IsSafeRelativePath(p) ==
  /\ p # <<>>
  /\ ~IsAbsolute(p)
  /\ \A i \in DOMAIN p : p[i] # ".."

\* std::filesystem::absolute("mcp_demo_output").
OutputRoot == <<"cwd", "mcp_demo_output">>

\* lexically_normal, one part further.
After(done, part) ==
  CASE part = "." -> done
    [] part = ".." -> IF done = <<>> THEN done ELSE Front(done)
    [] OTHER -> Append(done, part)

\* lexically_normal, of an absolute path without its "/".
Normal(p) ==
  LET done[n \in 0 .. Len(p)] ==
        IF n = 0 THEN <<>> ELSE After(done[n - 1], p[n])
  IN  done[Len(p)]

\* (output_root / relative_path).lexically_normal(): an absolute path takes
\* the place of the root.
Target(p) ==
  IF IsAbsolute(p) THEN Normal(Tail(p)) ELSE Normal(OutputRoot \o p)

\* The normal form ends with a slash.
NamesDirectory(p) == Last(p) \in {".", "..", "/"}

\* target.parent_path(), and every directory above it.
Parent(p) == IF NamesDirectory(p) \/ Target(p) = <<>> THEN Target(p)
             ELSE Front(Target(p))
Above(d) == {SubSeq(d, 1, n) : n \in 0 .. Len(d)}

-------------------------------------------------------------------------------
(* The tool.                                                               *)

Init ==
  /\ path \in [Calls -> Paths]
  /\ pc = [c \in Calls |-> "called"]
  /\ result = [c \in Calls |-> "none"]
  /\ dirs = {<<>>, <<"cwd">>}
  /\ files = <<>>
  /\ written = [c \in Calls |-> 0]
  /\ failed = [c \in Calls |-> FALSE]
  /\ shared = {}
  /\ last = <<>>

Return(c, res) ==
  /\ pc' = [pc EXCEPT ![c] = "returned"]
  /\ result' = [result EXCEPT ![c] = res]

\* The handler: refuse the path, or post the work to another thread.
CheckPath(c) ==
  /\ pc[c] = "called"
  /\ \/ /\ ~IsSafeRelativePath(path[c])
        /\ Return(c, "error")
     \/ /\ IsSafeRelativePath(path[c])
        /\ pc' = [pc EXCEPT ![c] = "posted"]
        /\ UNCHANGED result
  /\ UNCHANGED <<path, dirs, files, written, failed, shared, last>>

\* Mutant: the error of create_directories is ignored.
CreateDirectories_Anyway(c) ==
  /\ pc[c] = "posted"
  /\ dirs' = dirs \union Above(Parent(path[c]))
  /\ pc' = [pc EXCEPT ![c] = "open"]
  /\ UNCHANGED <<path, result, files, written, failed, shared, last>>

\* create_directories throws when a file is in the way, and when the disk
\* refuses one of the directories: those above it have been made.
CreateDirectories(c) ==
  /\ pc[c] = "posted"
  /\ LET needed == Above(Parent(path[c])) IN
       \/ /\ needed \intersect DOMAIN files # {}
          /\ Return(c, "error")
          /\ UNCHANGED dirs
       \/ /\ DiskMayFail /\ needed \intersect DOMAIN files = {}
          /\ \E refused \in needed :
               dirs' = dirs \union {d \in needed : Len(d) < Len(refused)}
          /\ Return(c, "error")
       \/ /\ needed \intersect DOMAIN files = {}
          /\ dirs' = dirs \union needed
          /\ pc' = [pc EXCEPT ![c] = "open"]
          /\ UNCHANGED result
  /\ UNCHANGED <<path, files, written, failed, shared, last>>

\* The calls that have the same file open.
Sharing(c) ==
  {d \in Calls \ {c} : pc[d] = "write" /\ Target(path[d]) = Target(path[c])}

\* Opening a directory fails, and the disk may refuse a file; opening a file
\* empties it.
Open(c) ==
  /\ pc[c] = "open"
  /\ LET t == Target(path[c]) IN
       \/ /\ NamesDirectory(path[c]) \/ t \in dirs \/ DiskMayFail
          /\ Return(c, "error")
          /\ UNCHANGED <<files, shared, last>>
       \/ /\ ~NamesDirectory(path[c]) /\ t \notin dirs
          /\ files' = [f \in DOMAIN files \union {t} |->
                         IF f = t THEN <<>> ELSE files[f]]
          /\ last' = [f \in DOMAIN files \union {t} |->
                        IF f = t THEN c ELSE last[f]]
          /\ shared' = IF Sharing(c) = {} THEN shared
                       ELSE shared \union Sharing(c) \union {c}
          /\ pc' = [pc EXCEPT ![c] = "write"]
          /\ UNCHANGED result
  /\ UNCHANGED <<path, dirs, written, failed>>

\* A chunk at a position: what lies before it and is not there is a hole.
Overwrite(content, i, chunk) ==
  [k \in 1 .. IF i > Len(content) THEN i ELSE Len(content) |->
     IF k = i THEN chunk
     ELSE IF k \in DOMAIN content THEN content[k] ELSE Hole]

\* file << content, and what is left in the buffer when file is destroyed.
\* After a failure the stream writes nothing more; nobody tests its state.
WriteChunk(c) ==
  /\ pc[c] = "write" /\ written[c] < Chunks /\ ~failed[c]
  /\ \/ /\ written' = [written EXCEPT ![c] = @ + 1]
        /\ files' = [files EXCEPT ![Target(path[c])] =
                       Overwrite(@, written[c] + 1, c)]
        /\ UNCHANGED failed
     \/ /\ DiskMayFail
        /\ failed' = [failed EXCEPT ![c] = TRUE]
        /\ UNCHANGED <<written, files>>
  /\ UNCHANGED <<path, pc, result, dirs, shared, last>>

\* Mutant: a call that has not finished writing tells of its success.
Finish_Early(c) ==
  /\ pc[c] = "write"
  /\ Return(c, "success")
  /\ UNCHANGED <<path, dirs, files, written, failed, shared, last>>

Finish(c) ==
  /\ pc[c] = "write" /\ (written[c] = Chunks \/ failed[c])
  /\ Return(c, "success")
  /\ UNCHANGED <<path, dirs, files, written, failed, shared, last>>

Returned ==
  /\ \A c \in Calls : pc[c] = "returned"
  /\ UNCHANGED vars

Next ==
  \/ \E c \in Calls :
       \/ CheckPath(c) \/ CreateDirectories(c) \/ Open(c)
       \/ WriteChunk(c) \/ Finish(c)
  \/ Returned

Spec == Init /\ [][Next]_vars

-------------------------------------------------------------------------------
(* Properties.                                                             *)

Located == Seq(Names \union {"cwd", "mcp_demo_output"})

\* Types of the calls and of the file system: a directory is no file.
TypeOK ==
  /\ path \in [Calls -> Paths]
  /\ pc \in [Calls -> {"called", "posted", "open", "write", "returned"}]
  /\ result \in [Calls -> {"none", "error", "success"}]
  /\ dirs \subseteq Located /\ DOMAIN files \subseteq Located
  /\ dirs \intersect DOMAIN files = {}
  /\ \A t \in DOMAIN files :
       files[t] \in Seq(Calls \union {Hole}) /\ Len(files[t]) <= Chunks
  /\ written \in [Calls -> 0 .. Chunks]
  /\ failed \in [Calls -> BOOLEAN]
  /\ shared \subseteq Calls
  /\ DOMAIN last = DOMAIN files /\ \A t \in DOMAIN last : last[t] \in Calls

\* "No file is written outside `mcp_demo_output`" (SERVER_TESTING.md:138),
\* wherever the system would end up that follows the path part by part; nor
\* is a directory created there.
StaysUnderRoot ==
  /\ \A t \in DOMAIN files : IsStrictPrefix(OutputRoot, t)
  /\ \A d \in dirs : d \in {<<>>, <<"cwd">>} \/ IsPrefix(OutputRoot, d)

\* A call whose file nobody else had open at the same time or opens later
\* leaves what it was given there, the whole and nothing else, when it
\* reports success, unless the disk fails; other calls that are refused, fail
\* or write other files under related paths do not touch it.
SoleWriteStands ==
  \A c \in Calls :
    LET t == Target(path[c]) IN
      result[c] = "success" /\ c \notin shared /\ last[t] = c /\ ~failed[c]
        => files[t] = [i \in 1 .. Chunks |-> c]
===============================================================================
