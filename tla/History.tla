------------------------------ MODULE History ------------------------------
(***************************************************************************)
(* The query history of sqail-ui (History in local.rs): the entries in     *)
(* memory, and history.jsonl, to which each is appended and which is       *)
(* rewritten when it is too long, through restarts, crashes and writes     *)
(* that fail.  Entries are numbered as they are made.                      *)
(***************************************************************************)
EXTENDS SequencesExt, Integers

CONSTANTS
  Limit,     \* HISTORY_LIMIT
  MaxPushes, \* bound: entries made
  MaxFaults  \* bound: crashes and writes that fail

VARIABLES
  step,     \* "off", "idle", or where push is with the file
  entries,  \* oldest first
  file,     \* its lines: entries, and 0 for what cannot be parsed
  ragged,   \* the last line has no end
  pushed,   \* entries made
  faults,
  cleared,  \* the last entry there was when the history was deleted
  damaged,  \* entries whose write was cut short, and what was appended to them
  emptied,  \* a rewrite was cut short
  torn,     \* the file is not text: a write ended inside a character
  since     \* entries up to it were lost to memory by a start without the file

world == <<cleared, damaged, emptied, torn, since>>
vars == <<step, entries, file, ragged, pushed, faults, world>>

\* Type correctness.
TypeOK ==
  /\ step \in {"off", "idle", "line", "newline", "truncate", "body"}
  /\ entries \in Seq(1 .. MaxPushes)
  /\ file \in Seq(0 .. MaxPushes)
  /\ ragged \in BOOLEAN
  /\ pushed \in 0 .. MaxPushes
  /\ faults \in 0 .. MaxFaults
  /\ cleared \in 0 .. MaxPushes
  /\ damaged \subseteq 1 .. MaxPushes
  /\ emptied \in BOOLEAN
  /\ torn \in BOOLEAN
  /\ since \in 0 .. MaxPushes

Init ==
  /\ step = "off" /\ entries = <<>>
  /\ file = <<>> /\ ragged = FALSE
  /\ pushed = 0 /\ faults = 0
  /\ cleared = 0 /\ damaged = {} /\ emptied = FALSE
  /\ torn = FALSE /\ since = 0

\* trim.
Trimmed(s) == IF Len(s) > Limit THEN SubSeq(s, Len(s) - Limit + 1, Len(s)) ELSE s

\* A line that does not parse is left out.
Readable(lines) ==
  FlattenSeq([i \in DOMAIN lines |-> IF lines[i] # 0 THEN <<lines[i]>> ELSE <<>>])

Fault == faults < MaxFaults /\ faults' = faults + 1

\* load: read_to_string gives the whole file or, when it cannot be read or is not
\* text, nothing, and then the history begins empty.
Load ==
  /\ step = "off" /\ step' = "idle"
  /\ \/ /\ ~torn
        /\ entries' = Trimmed(Readable(file)) /\ since' = 0
        /\ UNCHANGED faults
     \/ /\ (torn /\ UNCHANGED faults) \/ Fault
        /\ entries' = <<>> /\ since' = pushed
  /\ UNCHANGED <<file, ragged, pushed, cleared, damaged, emptied, torn>>

\* push: memory first, then a line of the file, or the whole of it past 120%.
Push ==
  /\ step = "idle"
  /\ pushed < MaxPushes /\ pushed' = pushed + 1
  /\ LET more == Append(entries, pushed')
     IN IF Len(more) > (Limit * 6) \div 5
        THEN entries' = Trimmed(more) /\ step' = "truncate"
        ELSE entries' = more /\ step' = "line"
  /\ UNCHANGED <<file, ragged, faults, world>>

\* Mutant: a line that is there already is written over.
LineOver(e) == IF file = <<>> THEN <<e>> ELSE [file EXCEPT ![Len(file)] = e]

\* After a line without its end the next is part of it, and neither parses.
Line(e) == IF ragged THEN [file EXCEPT ![Len(file)] = 0] ELSE Append(file, e)

\* writeln! writes the line and its end one after the other.
WriteLine ==
  /\ step = "line" /\ step' = "newline"
  /\ file' = Line(pushed)
  /\ ragged' = TRUE
  /\ damaged' = damaged \cup (IF ragged THEN {pushed, file[Len(file)]} \ {0} ELSE {})
  /\ UNCHANGED <<entries, pushed, faults, cleared, emptied, torn, since>>

WriteNewline ==
  /\ step = "newline" /\ step' = "idle"
  /\ ragged' = FALSE
  /\ UNCHANGED <<entries, file, pushed, faults, world>>

\* std::fs::write empties the file first.
Truncate ==
  /\ step = "truncate" /\ step' = "body"
  /\ file' = <<>> /\ ragged' = FALSE /\ torn' = FALSE
  /\ UNCHANGED <<entries, pushed, faults, cleared, damaged, emptied, since>>

WriteBody ==
  /\ step = "body" /\ step' = "idle"
  /\ file' = entries
  /\ damaged' = damaged \ ToSet(entries)
  /\ UNCHANGED <<entries, ragged, pushed, faults, cleared, emptied, torn, since>>

\* Part of a line, or of the file, may be there, and end inside a character.
CutShort ==
  /\ \/ UNCHANGED <<file, ragged, torn>>
     \/ step = "line" /\ file' = Line(0) /\ ragged' = TRUE /\ torn' \in {torn, TRUE}
     \/ step = "body" /\ ragged' = TRUE /\ torn' \in BOOLEAN /\
        \E k \in 0 .. Len(entries) - 1 : file' = Append(SubSeq(entries, 1, k), 0)
  /\ damaged' = damaged \cup
       (IF step = "line" /\ ragged /\ file' # file THEN {pushed, file[Len(file)]} \ {0}
        ELSE IF step \in {"line", "newline", "truncate"} THEN {pushed} ELSE {})
  /\ emptied' = (emptied \/ step = "body")

\* A warning in the log.
Fail ==
  /\ step \in {"line", "newline", "truncate", "body"} /\ Fault
  /\ CutShort
  /\ step' = "idle"
  /\ UNCHANGED <<entries, pushed, cleared, since>>

\* clear: the file's removal may fail, which is ignored.
Clear ==
  /\ step = "idle"
  /\ entries' = <<>>
  /\ cleared' = pushed
  /\ \/ /\ file' = <<>> /\ ragged' = FALSE /\ torn' = FALSE
        /\ UNCHANGED faults
     \/ Fault /\ UNCHANGED <<file, ragged, torn>>
  /\ UNCHANGED <<step, pushed, damaged, emptied, since>>

Exit ==
  /\ step = "idle" /\ step' = "off"
  /\ entries' = <<>>
  /\ UNCHANGED <<file, ragged, pushed, faults, world>>

Crash ==
  /\ step \notin {"off", "idle"} /\ Fault
  /\ CutShort
  /\ step' = "off"
  /\ entries' = <<>>
  /\ UNCHANGED <<pushed, cleared, since>>

-----------------------------------------------------------------------------
Next ==
  \/ Load \/ Push \/ WriteLine \/ WriteNewline \/ Truncate \/ WriteBody
  \/ Fail \/ Clear \/ Exit \/ Crash

Spec == Init /\ [][Next]_vars

-----------------------------------------------------------------------------
(* Properties *)

\* What was made since the last deletion, as far as it is to be kept.
Kept == {e \in cleared + 1 .. pushed : e > pushed - Limit}

\* load, push, trim: whatever was restarted or compacted in between, the last
\* Limit entries are shown, in their order, but for those whose write was cut
\* short in an earlier run and, when the last start could not read the file, all
\* that were made before it.
ShowsTheLast ==
  step = "idle" /\ ~emptied =>
    /\ {e \in Kept \ damaged : e > since} \subseteq ToSet(entries)
    /\ \A i, j \in 1 .. Len(entries) : i < j => entries[i] < entries[j]

\* An append that is cut short, by a crash or a full disk, loses its own entry
\* and the one it is appended to at most (History::push): the others that are to
\* be kept are in a file that can be read.  Not so of a cut inside a character,
\* after which the file cannot be, nor of a cut rewrite.
FileKeeps ==
  step \in {"off", "idle"} /\ ~emptied /\ ~torn => Kept \ damaged \subseteq ToSet(file)

-----------------------------------------------------------------------------
(* Stated, and not so *)

\* "The last 5 000 entries are kept" (user-guide.md): after a cut inside a
\* character every start shows none, until the file is rewritten or deleted; a
\* start that cannot read the file, none of those before.
StartShowsThem ==
  step = "idle" /\ ~emptied => Kept \ damaged \subseteq ToSet(entries)

\* "Write-then-rename so a crash never leaves a torn file" (local.rs) is for the
\* workspace; here, of what was kept only what was being written is lost.
KeptThroughCrash ==
  step \in {"off", "idle"} => Kept \ damaged \subseteq ToSet(file)

\* "the file is compacted past 120% of this" (local.rs).
FileIsCompacted ==
  step \in {"off", "idle"} => Len(file) <= (Limit * 6) \div 5

\* "Delete all history" (sidebar.rs).
ClearForgets == \A i \in 1 .. Len(entries) : entries[i] > cleared

=============================================================================
