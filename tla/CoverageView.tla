----------------------------- MODULE CoverageView -----------------------------
(***************************************************************************)
(* How coverage reaches the Explorer page.  afl-fuzz rewrites the file     *)
(* out/default/virgin_bits in place every now and then (write_virgin_bits  *)
(* in afl-fuzz-run.c); the server hands it out as a static file; the page  *)
(* (client/pages/Explorer.tsx) fetches it every five seconds and marks the *)
(* lines of a block as covered unless the block's byte is 255.             *)
(*                                                                         *)
(* The bytes of the file are numbered like the blocks.  afl-fuzz writes    *)
(* them in order (a byte stands for a page), and so does the server read   *)
(* them, so a reader may meet a file that is being rewritten.              *)
(***************************************************************************)
EXTENDS Naturals

CONSTANTS
  NBlocks,   \* map_size
  Polls      \* fetches of one page that may overlap

ASSUME CoverageViewAssumption == NBlocks \in Nat \ {0}

Blocks == 0 .. NBlocks - 1

VARIABLES
  seen,      \* blocks the campaign has hit: virgin_bits in memory
  afl,       \* what afl-fuzz is doing: fuzzing, writing, stopped
  exists,    \* virgin_bits is on disk
  size,      \* its st_size
  bits,      \* blocks whose byte in the file is not 255
  poll,      \* per fetch: where it is, Content-Length, bytes and hits so far
  marks,     \* blocks the page shows as covered
  written,   \* history: blocks of the last file that was completely written
  known      \* history: the value of written when a fetch began

campaignVars == <<seen, afl, exists, size, bits, written>>
coverageVars == <<seen, afl, exists, size, bits, poll, marks, written, known>>

NoPoll == [pc |-> "idle", length |-> 0, got |-> 0, hits |-> {}]

CoverageInit ==
  /\ seen = {}
  /\ afl = "fuzzing"
  /\ exists = FALSE
  /\ size = 0
  /\ bits = {}
  /\ poll = [p \in Polls |-> NoPoll]
  /\ marks = {}
  /\ written = {}
  /\ known = [p \in Polls |-> {}]
-----------------------------------------------------------------------------
(***************************************************************************)
(* afl-fuzz                                                                *)
(***************************************************************************)
Cover(b) ==
  /\ afl = "fuzzing"
  /\ b \notin seen
  /\ seen' = seen \cup {b}
  /\ UNCHANGED <<afl, exists, size, bits, poll, marks, written, known>>

(* open(O_WRONLY | O_CREAT | O_TRUNC) *)
OpenBits ==
  /\ afl = "fuzzing"
  /\ afl' = "writing"
  /\ exists' = TRUE
  /\ size' = 0
  /\ bits' = {}
  /\ UNCHANGED <<seen, poll, marks, written, known>>

(* ck_write(fd, afl->virgin_bits, map_size), byte by byte *)
WriteByte ==
  /\ afl = "writing"
  /\ size < NBlocks
  /\ size' = size + 1
  /\ bits' = bits \cup (seen \cap {size})
  /\ UNCHANGED <<seen, afl, exists, poll, marks, written, known>>

CloseBits ==
  /\ afl = "writing"
  /\ size = NBlocks
  /\ afl' = "fuzzing"
  /\ written' = bits
  /\ UNCHANGED <<seen, exists, size, bits, poll, marks, known>>

(* The campaign ends, or afl-fuzz is killed. *)
Stop ==
  /\ afl # "stopped"
  /\ afl' = "stopped"
  /\ UNCHANGED <<seen, exists, size, bits, poll, marks, written, known>>
-----------------------------------------------------------------------------
(***************************************************************************)
(* The page and the server                                                 *)
(***************************************************************************)
(* setInterval(update, 5000): a fetch may begin before the last one ended. *)
MayPoll(p) == poll[p].pc = "idle"

Fetch(p) ==
  /\ MayPoll(p)
  /\ poll' = [poll EXCEPT ![p].pc = "sent"]
  /\ known' = [known EXCEPT ![p] = written]
  /\ UNCHANGED <<campaignVars, marks>>

(* express.static: stat() gives the Content-Length; without a file the     *)
(* answer is 404 and a page of text.                                       *)
Stat(p) ==
  /\ poll[p].pc = "sent"
  /\ poll' = [poll EXCEPT ![p].pc = IF exists THEN "reading" ELSE "notfound",
                          ![p].length = size]
  /\ UNCHANGED <<campaignVars, marks, known>>

ReadByte(p) ==
  LET k == poll[p].got IN
  /\ poll[p].pc = "reading"
  /\ k < poll[p].length
  /\ k < size
  /\ poll' = [poll EXCEPT ![p].got = k + 1,
                          ![p].hits = @ \cup (bits \cap {k})]
  /\ UNCHANGED <<campaignVars, marks, known>>

(* The file got shorter than promised: the connection is cut and fetch()   *)
(* or arrayBuffer() rejects, which leaves the page as it is.               *)
Broken(p) ==
  /\ poll[p].pc = "reading"
  /\ poll[p].got < poll[p].length
  /\ poll[p].got >= size
  /\ poll' = [poll EXCEPT ![p] = NoPoll]
  /\ UNCHANGED <<campaignVars, marks, known>>

(* getCoverage(): `bytes[block.id] === 255 ? 0 : 1`, where a byte beyond   *)
(* the end of the array is undefined.  A 404 is not an error to fetch(),   *)
(* and its text has no byte 255.                                           *)
BeyondIsUncovered(a) == a.hits

Covered(a) ==
  IF a.pc = "notfound" THEN Blocks
  ELSE a.hits \cup {b \in Blocks : b >= a.got}

Complete(p) ==
  \/ poll[p].pc = "notfound"
  \/ poll[p].pc = "reading" /\ poll[p].got = poll[p].length

ShowAccumulates(p) ==
  /\ Complete(p)
  /\ marks' = marks \cup Covered(poll[p])
  /\ poll' = [poll EXCEPT ![p] = NoPoll]
  /\ UNCHANGED <<campaignVars, known>>

Show(p) ==
  /\ Complete(p)
  /\ marks' = Covered(poll[p])
  /\ poll' = [poll EXCEPT ![p] = NoPoll]
  /\ UNCHANGED <<campaignVars, known>>
-----------------------------------------------------------------------------
Campaign == (\E b \in Blocks : Cover(b)) \/ OpenBits \/ WriteByte \/ CloseBits

Page(p) ==
  Fetch(p) \/ Stat(p) \/ ReadByte(p) \/ Broken(p) \/ Show(p)

CoverageNext == Campaign \/ Stop \/ \E p \in Polls : Page(p)

(* The browser's timer and the server go on; the campaign may do anything. *)
CoverageFairness == \A p \in Polls : WF_coverageVars(Page(p))

CoverageSpec ==
  CoverageInit /\ [][CoverageNext]_coverageVars /\ CoverageFairness
-----------------------------------------------------------------------------
CoverageTypeOK ==
  /\ seen \in SUBSET Blocks
  /\ afl \in {"fuzzing", "writing", "stopped"}
  /\ exists \in BOOLEAN
  /\ size \in 0 .. NBlocks
  /\ bits \in SUBSET (0 .. size - 1)
  /\ poll \in [Polls -> [pc : {"idle", "sent", "reading", "notfound"},
                         length : 0 .. NBlocks, got : 0 .. NBlocks,
                         hits : SUBSET Blocks]]
  /\ marks \in SUBSET Blocks
  /\ written \in SUBSET Blocks
  /\ known \in [Polls -> SUBSET Blocks]

(* An answer never shows as uncovered what a file completely written       *)
(* before the fetch began had as covered, although the file may be         *)
(* truncated and rewritten while it is served.                             *)
NeverBehindTheFile ==
  \A p \in Polls : Complete(p) => known[p] \subseteq Covered(poll[p])

(* After the campaign has ended, the page comes to show what the file      *)
(* holds, and stays there: no answer that was overtaken is shown last.     *)
FileShown == IF exists THEN bits \cup {b \in Blocks : b >= size} ELSE Blocks

ViewSettles == <>[](afl = "stopped" => marks = FileShown)

(* "visualizes code coverage of a fuzzing campaign": what is shown as      *)
(* covered was covered.                                                    *)
ShownIsCovered == marks \subseteq seen
=============================================================================
