----------------------------- MODULE ResultsFile -----------------------------
(***************************************************************************)
(* The results file (Libcomm/resultsfile.cpp with the writers and the      *)
(* reader of montecarlo.cpp): runs of the simulator, one after another,    *)
(* each over some points, write headers, rows and saved states into one    *)
(* file, in place and line by line, and truncate it afterwards; a run may  *)
(* crash between any two lines; the user edits the file between writes.    *)
(*                                                                         *)
(* The file is a sequence of lines.  A position is a number of lines; text *)
(* written over older text covers some lines and tears at most one, whose  *)
(* remainder nothing recognises.  A digest stands for the contents.        *)
(***************************************************************************)
EXTENDS Naturals, Sequences, FiniteSets

CONSTANTS
  NumPoints,     \* parameter values of a run
  Systems,       \* the systems (their digests) runs may simulate
  MaxSamples,    \* bound: samples of an estimate
  MaxRuns,       \* bound: runs of the simulator
  MaxEdits,      \* bound: edits of the file by the user
  MaxCrashes     \* bound: crashes

ASSUME BoundsAssumption ==
  /\ NumPoints \in Nat \ {0} /\ MaxSamples \in Nat \ {0} /\ MaxRuns \in Nat
  /\ MaxEdits \in Nat /\ MaxCrashes \in Nat

VARIABLES
  file,           \* the lines of the file
  pc,             \* where the current run is
  run,            \* how many runs were started
  system,         \* the system of the run
  point,          \* the parameter value of the run
  samples,        \* get_samplecount()
  headerwritten,
  fileptr,
  filedigest,
  mode,           \* the write in progress: "interim", "final", "finalstate"
  pos,            \* tellp() of the open file
  kept,           \* lines that must stay: final rows, and the user's own lines
  edits, crashes

vars == <<file, pc, run, system, point, samples, headerwritten, fileptr,
          filedigest, mode, pos, kept, edits, crashes>>

Points == 1..NumPoints

Header == [kind |-> "header", run |-> run, value |-> 0, samples |-> 0]
RowLine == [kind |-> "row", run |-> run, value |-> point, samples |-> samples]
Note(k) == [kind |-> "note", run |-> 0, value |-> k, samples |-> 0]
Torn == [kind |-> "torn", run |-> 0, value |-> 0, samples |-> 0]

StateKinds == <<"system", "parameter", "samples", "state">>

(* The lines of writestate.                                                *)
StateLine(k) ==
  [kind |-> StateKinds[k], run |-> run,
   value |-> IF k = 1 THEN system ELSE IF k = 2 THEN point ELSE 0,
   samples |-> IF k >= 3 THEN samples ELSE 0]

Line == [kind : {"header", "row", "note", "torn"}
                  \cup {StateKinds[k] : k \in 1..4},
         run : Nat, value : Nat \cup Systems, samples : Nat]

PC == {"off", "setup", "run", "header", "row", "state1", "state2", "state3",
       "state4", "truncate", "digest"}

TypeOK ==
  /\ file \in Seq(Line)
  /\ pc \in PC
  /\ run \in 0..MaxRuns
  /\ system \in Systems
  /\ point \in Points
  /\ samples \in 0..MaxSamples
  /\ headerwritten \in BOOLEAN
  /\ fileptr \in Nat
  /\ filedigest \in Seq(Line)
  /\ mode \in {"interim", "final", "finalstate"}
  /\ pos \in Nat
  /\ kept \subseteq Line
  /\ edits \in 0..MaxEdits
  /\ crashes \in 0..MaxCrashes

Init ==
  /\ file = <<>>
  /\ pc = "off"
  /\ run = 0
  /\ system \in Systems
  /\ point = 1
  /\ samples = 0
  /\ headerwritten = FALSE
  /\ fileptr = 0
  /\ filedigest = <<>>
  /\ mode = "interim"
  /\ pos = 0
  /\ kept = {}
  /\ edits = 0
  /\ crashes = 0

(***************************************************************************)
(* A run: init() and, at each point, setupfile()                           *)
(***************************************************************************)
StartRun ==
  /\ pc = "off"
  /\ run < MaxRuns
  /\ run' = run + 1
  /\ system' \in Systems
  /\ point' \in Points
  /\ headerwritten' = FALSE
  /\ pc' = "setup"
  /\ UNCHANGED <<file, samples, fileptr, filedigest, mode, pos, kept, edits,
                 crashes>>

(* The last line of a kind, as getline and the comparisons of its prefix   *)
(* find it.                                                                *)
LinesOf(kind) == {i \in 1..Len(file) : file[i].kind = kind}
LastOf(kind) == file[CHOOSE i \in LinesOf(kind) : \A j \in LinesOf(kind) : j <= i]

(* What follows "## System:" in the line starts with the blank that        *)
(* writestate put there, which no digest does.                             *)
ReadDigest(line) == <<"blank", line.value>>
Digest(sys) == <<"digest", sys>>

(* lookforstate's condition for accumulating what it read.                 *)
StateAccepted ==
  /\ LinesOf("system") # {} /\ ReadDigest(LastOf("system")) = Digest(system)
  /\ LinesOf("parameter") # {} /\ LastOf("parameter").value = point

SetupFile ==
  /\ pc = "setup"
  /\ samples' = IF StateAccepted THEN LastOf("samples").samples ELSE 0
  /\ fileptr' = Len(file)
  /\ filedigest' = file
  /\ pc' = "run"
  /\ UNCHANGED <<file, run, system, point, headerwritten, mode, pos, kept, edits,
                 crashes>>

Sample ==
  /\ pc = "run"
  /\ samples < MaxSamples
  /\ samples' = samples + 1
  /\ UNCHANGED <<file, pc, run, system, point, headerwritten, fileptr, filedigest,
                 mode, pos, kept, edits, crashes>>

(***************************************************************************)
(* writeinterimresults and writefinalresults                               *)
(***************************************************************************)

(* Mutant: modifications are not looked for.                               *)
WritePositionUnchecked == fileptr

(* checkformodifications.                                                  *)
WritePosition == IF file = filedigest THEN fileptr ELSE Len(file)

BeginWrite(m) ==
  /\ pc = "run"
  /\ m = "interim" => samples > 0
  /\ mode' = m
  /\ fileptr' = WritePosition
  /\ pos' = WritePosition
  /\ pc' = "header"
  /\ UNCHANGED <<file, run, system, point, samples, headerwritten, filedigest, kept,
                 edits, crashes>>

(* What may be left of the text after the position when a line has been    *)
(* written over its beginning: it is as long as the first line, shorter,   *)
(* or so much longer that it runs into the second.                         *)
Overwritten(rest) ==
  LET from(k) == SubSeq(rest, k, Len(rest))
  IN  IF rest = <<>> THEN {<<>>}
      ELSE {from(2), <<Torn>> \o from(2)}
             \cup (IF Len(rest) > 1 THEN {<<Torn>> \o from(3)} ELSE {})

(* A line is written, and flushed, at the position.                        *)
Put(line) ==
  /\ \E rest \in Overwritten(SubSeq(file, pos + 1, Len(file))) :
       file' = SubSeq(file, 1, pos) \o <<line>> \o rest
  /\ pos' = pos + 1

WriteHeaderIfNeeded ==
  /\ pc = "header"
  /\ IF headerwritten
     THEN UNCHANGED <<file, pos, fileptr>>
     ELSE Put(Header) /\ fileptr' = pos'
  /\ headerwritten' = TRUE
  /\ pc' = "row"
  /\ UNCHANGED <<run, system, point, samples, filedigest, mode, kept, edits, crashes>>

WriteResults ==
  /\ pc = "row"
  /\ IF samples = 0 THEN UNCHANGED <<file, pos>> ELSE Put(RowLine)
  /\ pc' = IF samples = 0 \/ mode = "final" THEN "truncate" ELSE "state1"
  /\ UNCHANGED <<run, system, point, samples, headerwritten, fileptr, filedigest,
                 mode, kept, edits, crashes>>

WriteState(k) ==
  /\ pc = <<"state1", "state2", "state3", "state4">>[k]
  /\ Put(StateLine(k))
  /\ pc' = <<"state2", "state3", "state4", "truncate">>[k]
  /\ UNCHANGED <<run, system, point, samples, headerwritten, fileptr, filedigest,
                 mode, kept, edits, crashes>>

(* Mutant: the tail of what was overwritten stays.                         *)
NotTruncated == file

Truncated == SubSeq(file, 1, pos)

(* Mutant: an interim row is moved past as a final one is.                 *)
NextPositionPast == pos

(* A final write moves fileptr past its row; the next write covers an      *)
(* interim one.                                                            *)
NextPosition == IF mode = "interim" THEN fileptr ELSE pos

(* finishwithfile, up to the truncation.                                   *)
Truncate ==
  /\ pc = "truncate"
  /\ file' = Truncated
  /\ fileptr' = NextPosition
  /\ kept' = IF mode = "interim" \/ samples = 0 THEN kept ELSE kept \cup {RowLine}
  /\ pc' = "digest"
  /\ UNCHANGED <<run, system, point, samples, headerwritten, filedigest, mode, pos,
                 edits, crashes>>

(* Mutant: one iteration too many.                                         *)
MorePointsOrEqual == point <= NumPoints

MorePoints == point < NumPoints

(* The rest of it: after an interim write the estimate goes on; after a    *)
(* final one the run takes the next point.                                 *)
UpdateDigest ==
  /\ pc = "digest"
  /\ filedigest' = file
  /\ \/ mode = "interim" /\ pc' = "run" /\ UNCHANGED point
     \/ mode # "interim" /\ MorePoints /\ pc' = "setup" /\ point' = point + 1
  /\ mode' = "interim"
  /\ pos' = 0
  /\ UNCHANGED <<file, run, system, samples, headerwritten, fileptr, kept, edits,
                 crashes>>

(* The process and its memory are gone.                                    *)
Ends ==
  /\ pc' = "off"
  /\ samples' = 0
  /\ headerwritten' = FALSE
  /\ fileptr' = 0
  /\ filedigest' = <<>>
  /\ mode' = "interim"
  /\ pos' = 0
  /\ UNCHANGED <<file, run, system, point, kept, edits>>

(* The run is over: that was the last point, a floor was met or the user   *)
(* interrupted.                                                            *)
EndRun ==
  /\ pc = "digest"
  /\ mode # "interim"
  /\ Ends
  /\ UNCHANGED crashes

(***************************************************************************)
(* The surroundings                                                        *)
(***************************************************************************)
Crash ==
  /\ crashes < MaxCrashes
  /\ pc # "off"
  /\ crashes' = crashes + 1
  /\ Ends

(* The user adds a line at the end, or deletes one.                        *)
Edit ==
  /\ pc \in {"off", "run"}
  /\ edits < MaxEdits
  /\ edits' = edits + 1
  /\ \/ /\ file' = Append(file, Note(edits'))
        /\ kept' = kept \cup {Note(edits')}
     \/ \E i \in 1..Len(file) :
          /\ file' = SubSeq(file, 1, i - 1) \o SubSeq(file, i + 1, Len(file))
          /\ kept' = kept \ {file[i]}
  /\ UNCHANGED <<pc, run, system, point, samples, headerwritten, fileptr, filedigest,
                 mode, pos, crashes>>

Finished == pc = "off" /\ run = MaxRuns /\ UNCHANGED vars

Next ==
  \/ StartRun
  \/ SetupFile
  \/ Sample
  \/ \E m \in {"interim", "final", "finalstate"} : BeginWrite(m)
  \/ WriteHeaderIfNeeded
  \/ WriteResults
  \/ \E k \in 1..4 : WriteState(k)
  \/ Truncate
  \/ UpdateDigest
  \/ EndRun
  \/ Crash
  \/ Edit
  \/ Finished

Spec == Init /\ [][Next]_vars

(***************************************************************************)
(* What the file promises                                                  *)
(***************************************************************************)

(* Final rows and the user's lines are never written over or truncated     *)
(* away: by later writes, later runs, or runs after a crash.               *)
LinesKept == \A l \in kept : \E i \in 1..Len(file) : file[i] = l

(* No remains of what a write covers are left when it is done.             *)
NoDetritus ==
  crashes = 0 /\ pc \in {"off", "setup", "run"} =>
    \A i \in 1..Len(file) : file[i].kind # "torn"

(* Left alone, the file holds at most one row that is not final, and only  *)
(* while its estimate is running.                                          *)
InterimReplaced ==
  crashes = 0 /\ edits = 0 /\ pc \in {"off", "setup", "run"} =>
    Cardinality({i \in LinesOf("row") : file[i] \notin kept})
      <= IF pc = "run" THEN 1 ELSE 0

(* The file has a saved state of the system and parameter of the run.      *)
StateSaved ==
  /\ LinesOf("system") # {} /\ LastOf("system").value = system
  /\ LinesOf("parameter") # {} /\ LastOf("parameter").value = point

(* The saved state that a run finds is of one write: the sample count and  *)
(* the state go together, and with a row.                                  *)
SavedStateWhole ==
  pc = "setup" /\ StateSaved /\ LinesOf("samples") # {} /\ edits = 0 /\ crashes = 0 =>
    /\ LinesOf("state") # {}
    /\ LastOf("samples").samples = LastOf("state").samples
    /\ LastOf("samples").run = LastOf("state").run
    /\ \E i \in LinesOf("row") :
         /\ file[i].value = LastOf("parameter").value
         /\ file[i].samples = LastOf("samples").samples

(* A state saved for the system and the parameter value of the run is      *)
(* loaded when the file is set up.                                         *)
StateReloaded ==
  [][pc = "setup" /\ pc' = "run" /\ StateSaved
       => samples' = LastOf("samples").samples]_vars
=============================================================================
