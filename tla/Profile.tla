------------------------------- MODULE Profile -------------------------------
(***************************************************************************)
(* The source map .aflv/profile.json that `aflv cc` leaves beside a        *)
(* program (cli/src/bin/aflv.ts).  Each invocation runs afl-clang-lto,     *)
(* whose pass writes the basic blocks of the program it links into the     *)
(* file, and then rewriteProfile(), which reads the file back, adds the    *)
(* text of the source files and writes it again.                           *)
(*                                                                         *)
(* Source text is a version number that grows with every edit.  A profile  *)
(* is what JSON.parse would make of the file: which link its basic_blocks  *)
(* come from, and the version of the text in `files`, or NoFiles where the *)
(* key is missing.                                                         *)
(***************************************************************************)
EXTENDS Naturals

CONSTANTS
  Builds,     \* invocations of aflv cc
  MaxEdits,   \* bound on the edits of the sources
  Parallel,   \* TRUE if invocations may overlap, as under make -j
  NoBuild,    \* no link yet
  NoFiles     \* the files key is missing

ASSUME ProfileAssumption ==
  /\ MaxEdits \in Nat
  /\ Parallel \in BOOLEAN
  /\ NoBuild \notin Builds
  /\ NoFiles \notin 0 .. MaxEdits

Versions == 0 .. MaxEdits
Contents == [blocks : Builds, files : Versions \cup {NoFiles}]

VARIABLES
  sources,   \* version of the source text
  binary,    \* the build that linked the program on disk
  text,      \* state of profile.json: missing, cut (not JSON), or whole
  content,   \* what it holds when it is whole
  pc,        \* where each invocation is
  compiled,  \* version of the sources each invocation compiled
  profile,   \* the local of rewriteProfile()
  read,      \* version of the text it read for `files`
  last,      \* history: the last build whose pass opened profile.json
  failed     \* history: builds that failed after their pass had opened it

history == <<last, failed>>
vars == <<sources, binary, text, content, pc, compiled, profile, read, last,
          failed>>

Nothing == [blocks |-> NoBuild, files |-> NoFiles]

Init ==
  /\ sources = 0
  /\ binary = NoBuild
  /\ text = "missing"
  /\ content = Nothing
  /\ pc = [b \in Builds |-> "new"]
  /\ compiled = [b \in Builds |-> 0]
  /\ profile = [b \in Builds |-> Nothing]
  /\ read = [b \in Builds |-> 0]
  /\ last = NoBuild
  /\ failed = {}

Idle == \A b \in Builds : pc[b] \in {"new", "done"}

Go(b, from, to) == pc[b] = from /\ pc' = [pc EXCEPT ![b] = to]

(* The sources are edited between builds. *)
Edit ==
  /\ Idle
  /\ sources < MaxEdits
  /\ sources' = sources + 1
  /\ UNCHANGED <<binary, text, content, pc, compiled, profile, read, history>>
-----------------------------------------------------------------------------
(***************************************************************************)
(* cc(): the compiler                                                      *)
(***************************************************************************)
(* mkdir, then spawn; the compiler reads the sources. *)
Start(b) ==
  /\ Parallel \/ Idle
  /\ Go(b, "new", "compiling")
  /\ compiled' = [compiled EXCEPT ![b] = sources]
  /\ UNCHANGED <<sources, binary, text, content, profile, read, history>>

(* `close` resolves the promise whatever the exit code: an error in the    *)
(* sources, or -c, which links nothing, also leads to rewriteProfile(), and *)
(* so does a failure after the pass has begun (LinkFails).                 *)
NoLink(b) ==
  /\ Go(b, "compiling", "rewrite")
  /\ UNCHANGED <<sources, binary, text, content, compiled, profile, read, history>>

(* The pass opens AFLV_PROFILE, which truncates it ... *)
PassOpen(b) ==
  /\ Go(b, "compiling", "printing")
  /\ text' = "cut"
  /\ content' = Nothing
  /\ last' = b
  /\ UNCHANGED <<sources, binary, compiled, profile, read, failed>>

(* A writer that opened the file before another one wrote to it leaves the *)
(* tail of the longer text behind its own.                                 *)
Written(c) ==
  IF text = "whole"
  THEN /\ text' \in {"whole", "cut"}
       /\ content' = IF text' = "whole" THEN c ELSE Nothing
  ELSE text' = "whole" /\ content' = c

(* ... and prints the basic blocks; the linker writes the program. *)
PassPrint(b) ==
  /\ Go(b, "printing", "linking")
  /\ Written([blocks |-> b, files |-> NoFiles])
  /\ UNCHANGED <<sources, binary, compiled, profile, read, history>>

Link(b) ==
  /\ Go(b, "linking", "rewrite")
  /\ binary' = b
  /\ UNCHANGED <<sources, text, content, compiled, profile, read, history>>

(* The pass dies while it prints, or the linker fails after the pass: the  *)
(* program on disk is still the old one, profile.json is not.              *)
LinkFails(b) ==
  /\ Go(b, "printing", "rewrite") \/ Go(b, "linking", "rewrite")
  /\ failed' = failed \cup {b}
  /\ UNCHANGED <<sources, binary, text, content, compiled, profile, read, last>>
-----------------------------------------------------------------------------
(***************************************************************************)
(* rewriteProfile()                                                        *)
(***************************************************************************)
ReadProfile(b) ==
  /\ text = "whole"
  /\ Go(b, "rewrite", "sources")
  /\ profile' = [profile EXCEPT ![b] = content]
  /\ UNCHANGED <<sources, binary, text, content, compiled, read, history>>

(* No file, or JSON.parse throws: report and return. *)
ReadFails(b) ==
  /\ text # "whole"
  /\ Go(b, "rewrite", "done")
  /\ UNCHANGED <<sources, binary, text, content, compiled, profile, read, history>>

ReadSources(b) ==
  /\ Go(b, "sources", "open")
  /\ read' = [read EXCEPT ![b] = sources]
  /\ UNCHANGED <<sources, binary, text, content, compiled, profile, history>>

(* { files: ..., ...profile }: a files key that was there already wins. *)
FilesAlwaysNew(b) == read[b]

Files(b) ==
  IF profile[b].files = NoFiles THEN read[b] ELSE profile[b].files

WriteOpen(b) ==
  /\ Go(b, "open", "write")
  /\ text' = "cut"
  /\ content' = Nothing
  /\ UNCHANGED <<sources, binary, compiled, profile, read, history>>

WriteProfile(b) ==
  /\ Go(b, "write", "done")
  /\ Written([blocks |-> profile[b].blocks, files |-> Files(b)])
  /\ UNCHANGED <<sources, binary, compiled, profile, read, history>>
-----------------------------------------------------------------------------
Build(b) ==
  \/ Start(b) \/ NoLink(b) \/ PassOpen(b) \/ PassPrint(b) \/ Link(b)
  \/ LinkFails(b)
  \/ ReadProfile(b) \/ ReadFails(b) \/ ReadSources(b)
  \/ WriteOpen(b) \/ WriteProfile(b)

Finished == Idle /\ UNCHANGED vars

Next == Edit \/ (\E b \in Builds : Build(b)) \/ Finished

Spec == Init /\ [][Next]_vars
-----------------------------------------------------------------------------
TypeOK ==
  /\ sources \in Versions
  /\ binary \in Builds \cup {NoBuild}
  /\ text \in {"missing", "cut", "whole"}
  /\ content \in Contents \cup {Nothing}
  /\ pc \in [Builds -> {"new", "compiling", "printing", "linking", "rewrite",
                        "sources", "open", "write", "done"}]
  /\ compiled \in [Builds -> Versions]
  /\ profile \in [Builds -> Contents \cup {Nothing}]
  /\ read \in [Builds -> Versions]
  /\ last \in Builds \cup {NoBuild}
  /\ failed \in SUBSET Builds

(* What the README of the repository says: aflv cc generates "a source map *)
(* of the program".  Between builds a profile.json that can be read holds  *)
(* the blocks of the program on disk and the text it was compiled from.    *)
SourceMapMatches ==
  Idle /\ binary # NoBuild /\ text = "whole" =>
    content = [blocks |-> binary, files |-> compiled[binary]]

(* Between builds a source map that can be read holds the blocks of the    *)
(* last build whose pass ran together with the text that build compiled:   *)
(* line numbers and lines belong together, although failed builds and -c   *)
(* rewrite the profile too and the text may have been edited since.  It    *)
(* can be read, and that build is the program on disk, unless the build    *)
(* failed after its pass had truncated profile.json.                       *)
SourceMapOfLastPass ==
  Idle /\ last # NoBuild =>
    /\ text = "whole" => content = [blocks |-> last, files |-> compiled[last]]
    /\ last \notin failed => text = "whole" /\ binary = last
=============================================================================
