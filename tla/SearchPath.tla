----------------------------- MODULE SearchPath -----------------------------
(***************************************************************************)
(* The search path get_thread_stack_refresh_module_list builds from the    *)
(* directories of the loaded modules, in an array of fixed size.  The path *)
(* is the sequence of what was copied into the array: directories and      *)
(* separators.                                                             *)
(***************************************************************************)
EXTENDS Integers, Sequences, SequencesExt

CONSTANTS
  Directories,  \* the directories modules are loaded from
  LengthOf,     \* LengthOf[d]: the characters of directory d
  Inside,       \* Inside[d]: the directories whose text is part of that of d
  PathSize,     \* sizeof(searchPath)
  MaxPath,      \* MAX_PATH
  Separator     \* ';'

ASSUME DirectoryAssumption ==
  /\ Separator \notin Directories
  /\ LengthOf \in [Directories -> Nat \ {0}]
  /\ Inside \in [Directories -> SUBSET Directories]
  /\ \A d \in Directories : d \in Inside[d]
  /\ PathSize \in Nat \ {0}
  /\ MaxPath \in Nat

(* length: searchPathLen; terminated: the character there is the           *)
(* terminator.                                                             *)
EmptyPath == [text |-> <<>>, length |-> 0, terminated |-> TRUE]

Listed(path) == {path.text[k] : k \in DOMAIN path.text} \ {Separator}

(* strstr(searchPath, dir) != NULL.  Without a terminator it reads on into *)
(* characters that were never written, and may find anything there.        *)
Found(path, dir) ==
  IF \E d \in Listed(path) : dir \in Inside[d]
  THEN {TRUE}
  ELSE IF path.terminated THEN {FALSE} ELSE BOOLEAN

(* The separator takes the place of the terminator. *)
Separated(path) ==
  IF path.length > 0 /\ path.length + 1 < PathSize
  THEN [text |-> Append(path.text, Separator), length |-> path.length + 1,
        terminated |-> FALSE]
  ELSE path

(* Mutant: no room is kept for the terminator. *)
AppendsUpToSize(path, dir) ==
  IF path.length + LengthOf[dir] <= PathSize
  THEN [text |-> Append(path.text, dir), length |-> path.length + LengthOf[dir],
        terminated |-> TRUE]
  ELSE path

(* A directory that does not fit is left out, and the next one tried. *)
Appended(path, dir) ==
  IF path.length + LengthOf[dir] < PathSize
  THEN [text |-> Append(path.text, dir), length |-> path.length + LengthOf[dir],
        terminated |-> TRUE]
  ELSE path

(* One round of the loop: what the path may be after a module from dir. *)
AddDirectory(path, dir) ==
  IF LengthOf[dir] >= MaxPath
  THEN {path}
  ELSE {IF found THEN path ELSE Appended(Separated(path), dir) : found \in Found(path, dir)}
=============================================================================
