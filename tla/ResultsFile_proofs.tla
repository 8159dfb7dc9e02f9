-------------------------- MODULE ResultsFile_proofs --------------------------
(***************************************************************************)
(* What the results file promises holds for every number of points,        *)
(* systems, samples, runs, edits and crashes.                              *)
(***************************************************************************)
EXTENDS ResultsFile, Induction, SequenceTheorems

(***************************************************************************)
(* The inductive invariant                                                 *)
(***************************************************************************)
StatePC == <<"state1", "state2", "state3", "state4">>

(* A write is in progress, from the header to the truncation.              *)
Writing == {"header", "row", "truncate"} \cup {StatePC[k] : k \in 1..4}

(* The lines that a write puts after fileptr, in order.                    *)
WrittenLine(i) == IF i = 1 THEN RowLine ELSE StateLine(i - 1)

(* The position counts the lines written since fileptr, and they are there.*)
WriteInv ==
  /\ mode = "interim" /\ pc \in Writing \cup {"digest"} => samples > 0
  /\ pc \in Writing =>
       /\ pos \in fileptr .. Len(file)
       /\ pc \in {"header", "row"} => pos = fileptr
       /\ \A k \in 1..4 :
            pc = StatePC[k] => pos = fileptr + k /\ mode # "final" /\ samples > 0
       /\ pc = "truncate" =>
            pos = fileptr + (IF samples = 0 THEN 0 ELSE IF mode = "final" THEN 1 ELSE 5)
       /\ \A i \in 1..5 : i <= pos - fileptr => file[fileptr + i] = WrittenLine(i)

(* Every line that must stay is among the first n.                         *)
FoundBy(n) == \A l \in kept : \E i \in 1..n : file[i] = l

(* Notes are numbered as they are added.                                   *)
Numbered(f) ==
  \A i \in 1..Len(f) : f[i].kind = "note" => f[i].value \in 0..edits

(* The lines that must stay lie before the place of the next write.  While *)
(* the file is not open that is a matter of the digest: if the file still  *)
(* matches it, they do; if not, the next write goes to the end.            *)
KeptInv ==
  /\ LinesKept
  /\ pc \in Writing \cup {"digest"} => fileptr <= Len(file) /\ FoundBy(fileptr)
  /\ pc = "run" =>
       /\ fileptr <= Len(filedigest)
       /\ \A l \in kept :
            (\E i \in 1..Len(filedigest) : filedigest[i] = l) =>
               \E i \in 1..fileptr : filedigest[i] = l
  /\ Numbered(file) /\ Numbered(filedigest)

(* What no write is going to cover.                                        *)
Solid == IF pc \in Writing THEN pos ELSE Len(file)

TornInv == crashes = 0 => \A i \in 1..Solid : file[i].kind # "torn"

(* The rows among the first n lines are final.                             *)
RowsKept(n) == \A i \in 1..n : file[i].kind = "row" => file[i] \in kept

(* Left alone, only the line after fileptr can be a row that is not final. *)
RowInv ==
  crashes = 0 /\ edits = 0 =>
    /\ pc \in {"off", "setup"} => RowsKept(Len(file))
    /\ pc \in Writing \cup {"run", "digest"} => fileptr <= Len(file) /\ RowsKept(fileptr)
    /\ pc = "digest" /\ mode # "interim" => RowsKept(Len(file))
    /\ pc \in {"run", "digest"} =>
         \A i \in fileptr + 2 .. Len(file) : file[i].kind # "row"
    /\ pc = "run" => file = filedigest

(* The lines of saved states among the first n of f come in whole blocks, each  *)
(* behind its row.                                                         *)
Whole(f, n) ==
  \A i \in 1..n :
    /\ f[i].kind = "parameter" => i < n /\ f[i + 1].kind = "samples"
    /\ f[i].kind = "state" => i > 1 /\ f[i - 1].kind = "samples"
    /\ f[i].kind = "samples" =>
         /\ i > 3 /\ i < n
         /\ f[i - 3].kind = "row" /\ f[i - 3].samples = f[i].samples
         /\ f[i - 1].kind = "parameter" /\ f[i - 3].value = f[i - 1].value
         /\ f[i + 1].kind = "state" /\ f[i + 1].samples = f[i].samples
         /\ f[i + 1].run = f[i].run

StateInv ==
  crashes = 0 /\ edits = 0 =>
    /\ pc \notin Writing => Whole(file, Len(file))
    /\ pc \in Writing \cup {"run", "digest"} => Whole(file, fileptr)

FileInv == WriteInv /\ KeptInv /\ TornInv /\ RowInv /\ StateInv

(***************************************************************************)
(* Lines and the writing of one                                            *)
(***************************************************************************)
LEMMA LineKinds ==
  /\ Header.kind = "header" /\ RowLine.kind = "row" /\ Torn.kind = "torn"
  /\ StateLine(1).kind = "system" /\ StateLine(2).kind = "parameter"
  /\ StateLine(3).kind = "samples" /\ StateLine(4).kind = "state"
BY DEF Header, RowLine, Torn, StateLine, StateKinds

LEMMA LineTypes ==
  ASSUME TypeOK
  PROVE  /\ Header \in Line /\ RowLine \in Line /\ Torn \in Line
         /\ \A k \in 1..4 : StateLine(k) \in Line
         /\ \A k \in Nat : Note(k) \in Line
<1>1. /\ run \in Nat /\ point \in Nat /\ samples \in Nat /\ system \in Systems
  BY BoundsAssumption DEF TypeOK, Points
<1>2. Header \in Line /\ RowLine \in Line /\ Torn \in Line
  BY <1>1 DEF Header, RowLine, Torn, Line
<1>3. \A k \in Nat : Note(k) \in Line
  BY DEF Note, Line
<1>4. ASSUME NEW k \in 1..4
      PROVE  StateLine(k) \in Line
  BY <1>1 DEF StateLine, Line
<1> QED BY <1>2, <1>3, <1>4

(* A line written at the position leaves the lines before it alone, and    *)
(* those after it are old ones or the remains of one.                      *)
LEMMA PutLine ==
  ASSUME file \in Seq(Line), pos \in 0..Len(file), NEW line \in Line, Put(line)
  PROVE  /\ file' \in Seq(Line)
         /\ pos' = pos + 1
         /\ pos' <= Len(file')
         /\ \A i \in 1..pos : file'[i] = file[i]
         /\ file'[pos + 1] = line
         /\ \A i \in pos + 2 .. Len(file') :
              file'[i] = Torn \/ \E j \in 1..Len(file) : file'[i] = file[j]
<1> DEFINE before == SubSeq(file, 1, pos)
           after == SubSeq(file, pos + 1, Len(file))
           Old(s) == \A i \in 1..Len(s) :
                       s[i] = Torn \/ \E j \in 1..Len(file) : s[i] = file[j]
           from(k) == SubSeq(after, k, Len(after))
<1>1. /\ before \in Seq(Line) /\ Len(before) = pos
      /\ \A i \in 1..pos : before[i] = file[i]
  BY SubSeqProperties
<1>2. /\ after \in Seq(Line) /\ Len(after) = Len(file) - pos
      /\ \A i \in 1..Len(after) : after[i] = file[pos + i]
  <2>1. \A i \in pos + 1 .. Len(file) : file[i] \in Line
    OBVIOUS
  <2> QED BY <2>1, SubSeqProperties
<1>3. Torn \in Line
  BY DEF Torn, Line
<1> HIDE DEF before, after
<1>4. ASSUME NEW k \in {2, 3}, after # <<>>
      PROVE  from(k) \in Seq(Line) /\ Old(from(k))
  <2>1. k \in Int /\ Len(after) \in Nat /\ \A i \in k .. Len(after) : after[i] \in Line
    BY <1>2
  <2>2. /\ from(k) \in Seq(Line)
        /\ Len(from(k)) = IF k <= Len(after) THEN Len(after) - k + 1 ELSE 0
        /\ \A i \in 1 .. Len(after) - k + 1 : from(k)[i] = after[k + i - 1]
    BY <2>1, SubSeqProperties
  <2>3. ASSUME NEW i \in 1..Len(from(k))
        PROVE  \E j \in 1..Len(file) : from(k)[i] = file[j]
    <3>1. i \in 1 .. Len(after) - k + 1
      <4> HIDE DEF from
      <4> QED BY <2>1, <2>2, <2>3
    <3>2. k + i - 1 \in 1..Len(after)
      BY <2>1, <3>1
    <3>3. from(k)[i] = after[k + i - 1]
      <4> HIDE DEF from
      <4> QED BY <2>2, <3>1
    <3>4. after[k + i - 1] = file[pos + (k + i - 1)]
      BY <1>2, <3>2
    <3>5. pos + (k + i - 1) \in 1..Len(file)
      <4>1. Len(after) = Len(file) - pos
        BY <1>2
      <4>2. pos \in Nat /\ Len(file) \in Nat
        OBVIOUS
      <4> QED BY <3>2, <4>1, <4>2
    <3> HIDE DEF from
    <3> QED BY <3>3, <3>4, <3>5
  <2> QED BY <2>2, <2>3
<1>5. ASSUME NEW s \in Seq(Line), Old(s)
      PROVE  <<Torn>> \o s \in Seq(Line) /\ Old(<<Torn>> \o s)
  <2>1. /\ <<Torn>> \in Seq(Line) /\ Len(<<Torn>>) = 1
        /\ \A i \in 1 .. 1 : <<Torn>>[i] = Torn
    BY <1>3
  <2>2. /\ <<Torn>> \o s \in Seq(Line)
        /\ Len(<<Torn>> \o s) = 1 + Len(s)
        /\ \A i \in 1 .. 1 + Len(s) :
             (<<Torn>> \o s)[i] = IF i <= 1 THEN <<Torn>>[i] ELSE s[i - 1]
    BY <2>1, ConcatProperties
  <2>3. ASSUME NEW i \in 1..Len(<<Torn>> \o s), i # 1
        PROVE  i - 1 \in 1..Len(s) /\ (<<Torn>> \o s)[i] = s[i - 1]
    BY <2>2, <2>3
  <2>4. ASSUME NEW i \in 1..Len(<<Torn>> \o s)
        PROVE  \/ (<<Torn>> \o s)[i] = Torn
               \/ \E j \in 1..Len(file) : (<<Torn>> \o s)[i] = file[j]
    <3>1. CASE i = 1
      <4>1. 1 \in 1 .. 1 + Len(s)
        OBVIOUS
      <4> QED BY <2>1, <2>2, <3>1, <4>1
    <3>2. CASE i # 1
      <4>1. i - 1 \in 1..Len(s) /\ (<<Torn>> \o s)[i] = s[i - 1]
        BY <2>3, <3>2
      <4> QED BY <1>5, <4>1
    <3> QED BY <3>1, <3>2
  <2> QED BY <2>2, <2>4
<1>6. PICK rest \in Overwritten(after) : file' = before \o <<line>> \o rest
  BY DEF Put, before, after
<1>7. rest \in Seq(Line) /\ Old(rest)
  <2>1. CASE after = <<>>
    <3>1. rest = <<>>
      BY <1>6, <2>1 DEF Overwritten
    <3> QED BY <3>1
  <2>2. CASE after # <<>>
    <3>1. rest \in {from(2), <<Torn>> \o from(2), <<Torn>> \o from(3)}
      BY <1>6, <2>2 DEF Overwritten
    <3>2. \A k \in {2, 3} : from(k) \in Seq(Line) /\ Old(from(k))
      BY <1>4, <2>2
    <3> HIDE DEF Old
    <3>3. \A s \in Seq(Line) : Old(s) => <<Torn>> \o s \in Seq(Line) /\ Old(<<Torn>> \o s)
      BY <1>5
    <3> QED BY <3>1, <3>2, <3>3
  <2> QED BY <2>1, <2>2
<1> DEFINE upto == before \o <<line>>
<1>8. /\ upto \in Seq(Line) /\ Len(upto) = pos + 1
      /\ \A i \in 1..pos : upto[i] = file[i]
      /\ upto[pos + 1] = line
  <2>1. <<line>> \in Seq(Line) /\ Len(<<line>>) = 1 /\ <<line>>[1] = line
    OBVIOUS
  <2>2. /\ upto \in Seq(Line) /\ Len(upto) = pos + 1
        /\ \A i \in 1 .. pos + 1 :
             upto[i] = IF i <= pos THEN before[i] ELSE <<line>>[i - pos]
    BY <1>1, <2>1, ConcatProperties
  <2> QED BY <1>1, <2>1, <2>2
<1> HIDE DEF upto
<1>9. file' = upto \o rest
  BY <1>6 DEF upto
<1>10. /\ file' \in Seq(Line) /\ Len(file') = pos + 1 + Len(rest)
       /\ \A i \in 1 .. pos + 1 + Len(rest) :
            file'[i] = IF i <= pos + 1 THEN upto[i] ELSE rest[i - (pos + 1)]
  <2>1. /\ upto \o rest \in Seq(Line) /\ Len(upto \o rest) = Len(upto) + Len(rest)
        /\ \A i \in 1 .. Len(upto) + Len(rest) :
             (upto \o rest)[i] = IF i <= Len(upto) THEN upto[i] ELSE rest[i - Len(upto)]
    BY <1>7, <1>8, ConcatProperties
  <2> QED BY <1>8, <1>9, <2>1
<1>11. ASSUME NEW i \in pos + 2 .. Len(file')
       PROVE  file'[i] = Torn \/ \E j \in 1..Len(file) : file'[i] = file[j]
  <2>1. i - (pos + 1) \in 1..Len(rest) /\ file'[i] = rest[i - (pos + 1)]
    BY <1>7, <1>10, <1>11
  <2> QED BY <1>7, <2>1
<1>12. /\ pos' = pos + 1 /\ pos' <= Len(file') /\ file'[pos + 1] = line
       /\ \A i \in 1..pos : file'[i] = file[i]
  BY <1>7, <1>8, <1>10 DEF Put
<1> QED BY <1>10, <1>11, <1>12

LEMMA TruncatedLines ==
  ASSUME file \in Seq(Line), pos \in 0..Len(file)
  PROVE  /\ Truncated \in Seq(Line)
         /\ Len(Truncated) = pos
         /\ \A i \in 1..pos : Truncated[i] = file[i]
BY SubSeqProperties DEF Truncated

LEMMA WholeBefore ==
  ASSUME NEW f, NEW g, NEW n \in Nat, \A i \in 1..n : g[i] = f[i], Whole(f, n)
  PROVE  /\ Whole(g, n)
         /\ g[n + 1].kind \notin {"parameter", "samples", "state"} => Whole(g, n + 1)
<1>1. Whole(g, n)
  <2> SUFFICES ASSUME NEW i \in 1..n
               PROVE  /\ g[i] = f[i]
                      /\ i < n => i + 1 \in 1..n /\ g[i + 1] = f[i + 1]
                      /\ i > 1 => i - 1 \in 1..n /\ g[i - 1] = f[i - 1]
                      /\ i > 3 => i - 3 \in 1..n /\ g[i - 3] = f[i - 3]
    BY DEF Whole
  <2> QED OBVIOUS
<1>2. ASSUME g[n + 1].kind \notin {"parameter", "samples", "state"}
      PROVE  Whole(g, n + 1)
  BY <1>1, <1>2 DEF Whole
<1> QED BY <1>1, <1>2

(* A line is deleted: those after it move up.                              *)
LEMMA DeletedLine ==
  ASSUME file \in Seq(Line), NEW d \in 1..Len(file),
         file' = SubSeq(file, 1, d - 1) \o SubSeq(file, d + 1, Len(file))
  PROVE  /\ file' \in Seq(Line)
         /\ Len(file') = Len(file) - 1
         /\ \A i \in 1 .. Len(file) - 1 : file'[i] = file[IF i < d THEN i ELSE i + 1]
<1> DEFINE before == SubSeq(file, 1, d - 1)
           after == SubSeq(file, d + 1, Len(file))
<1>1. /\ before \in Seq(Line) /\ Len(before) = d - 1
      /\ \A i \in 1 .. d - 1 : before[i] = file[i]
  <2>1. d - 1 \in Int /\ \A i \in 1 .. d - 1 : file[i] \in Line
    OBVIOUS
  <2> QED BY <2>1, SubSeqProperties
<1>2. /\ after \in Seq(Line) /\ Len(after) = Len(file) - d
      /\ \A i \in 1 .. Len(file) - d : after[i] = file[d + i]
  <2>1. d + 1 \in Int /\ \A i \in d + 1 .. Len(file) : file[i] \in Line
    OBVIOUS
  <2> QED BY <2>1, SubSeqProperties
<1> HIDE DEF before, after
<1>3. file' = before \o after
  BY DEF before, after
<1>4. /\ before \o after \in Seq(Line)
      /\ Len(before \o after) = Len(before) + Len(after)
      /\ \A i \in 1 .. Len(before) + Len(after) :
           (before \o after)[i] =
              IF i <= Len(before) THEN before[i] ELSE after[i - Len(before)]
  BY <1>1, <1>2, ConcatProperties
<1>5. ASSUME NEW i \in 1 .. Len(file) - 1
      PROVE  file'[i] = file[IF i < d THEN i ELSE i + 1]
  <2>1. CASE i < d
    <3>1. i \in 1 .. d - 1
      BY <2>1
    <3>2. i <= Len(before) /\ i \in 1 .. Len(before) + Len(after)
      BY <1>1, <1>2, <3>1
    <3>3. (before \o after)[i] = before[i]
      BY <1>4, <3>2
    <3>4. before[i] = file[i]
      BY <1>1, <3>1
    <3> QED BY <1>3, <2>1, <3>3, <3>4
  <2>2. CASE ~ (i < d)
    <3>1. i - (d - 1) \in 1 .. Len(file) - d /\ d + (i - (d - 1)) = i + 1
      BY <2>2
    <3>2. (before \o after)[i] = after[i - (d - 1)]
      <4>1. Len(before) = d - 1 /\ Len(after) = Len(file) - d
        BY <1>1, <1>2
      <4>2. i \in 1 .. Len(before) + Len(after) /\ ~ (i <= Len(before))
        BY <2>2, <4>1
      <4>3. (before \o after)[i] = after[i - Len(before)]
        BY <1>4, <4>2
      <4> QED BY <4>1, <4>3
    <3>3. after[i - (d - 1)] = file[i + 1]
      BY <1>2, <3>1
    <3> QED BY <1>3, <2>2, <3>2, <3>3
  <2> QED BY <2>1, <2>2
<1>6. file' \in Seq(Line) /\ Len(file') = Len(file) - 1
  <2>1. file' \in Seq(Line) /\ Len(file') = Len(before) + Len(after)
    BY <1>3, <1>4
  <2>2. Len(file) \in Nat
    OBVIOUS
  <2>3. Len(before) = d - 1 /\ Len(after) = Len(file) - d /\ d \in Int
    BY <1>1, <1>2
  <2>4. Len(file') = Len(file) - 1
    <3>1. Len(file') = (d - 1) + (Len(file) - d)
      BY <2>1, <2>3
    <3>2. \A a, b \in Int : (a - 1) + (b - a) = b - 1
      OBVIOUS
    <3>3. Len(file) \in Int
      BY <2>2
    <3>4. (d - 1) + (Len(file) - d) = Len(file) - 1
      BY <2>3, <3>2, <3>3, Zenon
    <3> QED BY <3>1, <3>4, Zenon
  <2> QED BY <2>1, <2>4
<1> QED BY <1>5, <1>6

(***************************************************************************)
(* Steps that leave the file alone                                         *)
(***************************************************************************)
LEMMA Stages ==
  /\ Writing = {"header", "row", "state1", "state2", "state3", "state4", "truncate"}
  /\ StatePC[1] = "state1" /\ StatePC[2] = "state2" /\ StatePC[3] = "state3"
  /\ StatePC[4] = "state4"
BY DEF Writing, StatePC

LEMMA InitCorrect ==
  ASSUME Init
  PROVE  TypeOK /\ FileInv
<1>1. Len(file) = 0 /\ Len(filedigest) = 0 /\ file \in Seq(Line) /\ filedigest \in Seq(Line)
  BY DEF Init
<1> HIDE DEF Init
<1>2. TypeOK
  <2>1. headerwritten \in BOOLEAN
    BY DEF Init
  <2>2. point \in Points
    BY BoundsAssumption DEF Init, Points
  <2> QED BY <1>1, <2>1, <2>2, BoundsAssumption DEF Init, TypeOK, PC
<1>3. FileInv
  BY <1>1, Stages DEF Init, FileInv, WriteInv, KeptInv, LinesKept, Numbered, TornInv, Solid, RowInv,
     RowsKept, StateInv, Whole
<1> QED BY <1>2, <1>3

(* The digest of a run that is not disturbed never finds a saved state.    *)
LEMMA SetupTypes ==
  ASSUME TypeOK, SetupFile
  PROVE  samples' = 0
<1>1. \A line, s : ReadDigest(line) # Digest(s)
  BY DEF ReadDigest, Digest
<1> QED BY <1>1 DEF SetupFile, StateAccepted

LEMMA StartRunStep ==
  ASSUME TypeOK, FileInv, StartRun
  PROVE  TypeOK' /\ FileInv'
<1>1. TypeOK'
  <2>1. headerwritten' \in BOOLEAN
    BY DEF StartRun
  <2> QED BY <2>1, BoundsAssumption DEF TypeOK, StartRun, PC
<1>2. FileInv'
  BY Stages DEF FileInv, StartRun, WriteInv, KeptInv, LinesKept, Numbered, TornInv, Solid,
     RowInv, RowsKept, StateInv, Whole
<1> QED BY <1>1, <1>2

LEMMA SetupFileStep ==
  ASSUME TypeOK, FileInv, SetupFile
  PROVE  TypeOK' /\ FileInv'
<1>1. samples' = 0
  BY SetupTypes
<1>2. TypeOK'
  BY <1>1, BoundsAssumption DEF TypeOK, SetupFile, PC
<1>3. WriteInv' /\ TornInv'
  BY Stages DEF FileInv, SetupFile, WriteInv, TornInv, Solid
<1>4. KeptInv'
  BY Stages DEF TypeOK, FileInv, SetupFile, KeptInv, LinesKept, Numbered
<1>5. RowInv'
  BY Stages DEF TypeOK, FileInv, SetupFile, RowInv, RowsKept
<1>6. StateInv'
  BY Stages DEF TypeOK, FileInv, SetupFile, StateInv, Whole
<1> QED BY <1>2, <1>3, <1>4, <1>5, <1>6 DEF FileInv

LEMMA SampleStep ==
  ASSUME TypeOK, FileInv, Sample
  PROVE  TypeOK' /\ FileInv'
<1>1. TypeOK'
  BY BoundsAssumption DEF TypeOK, Sample, PC
<1>2. FileInv'
  BY Stages DEF FileInv, Sample, WriteInv, KeptInv, LinesKept, Numbered, TornInv, Solid,
     RowInv, RowsKept, StateInv, Whole
<1> QED BY <1>1, <1>2

(* The write starts behind every line that must stay, whether the file was *)
(* modified or not.                                                        *)
LEMMA BeginWriteStep ==
  ASSUME TypeOK, FileInv, NEW m \in {"interim", "final", "finalstate"}, BeginWrite(m)
  PROVE  TypeOK' /\ FileInv'
<1>1. TypeOK'
  BY BoundsAssumption DEF TypeOK, BeginWrite, WritePosition, PC
<1>2. WritePosition \in 0..Len(file) /\ FoundBy(WritePosition)
  <2>1. CASE file = filedigest
    BY <2>1 DEF TypeOK, FileInv, KeptInv, BeginWrite, WritePosition, FoundBy, LinesKept
  <2>2. CASE file # filedigest
    BY <2>2 DEF TypeOK, FileInv, KeptInv, BeginWrite, WritePosition, FoundBy, LinesKept
  <2> QED BY <2>1, <2>2
<1>3. WriteInv'
  BY <1>2, Stages DEF TypeOK, BeginWrite, WriteInv
<1>4. KeptInv'
  BY <1>2, Stages DEF TypeOK, FileInv, BeginWrite, KeptInv, LinesKept, Numbered, FoundBy
<1>5. TornInv'
  BY <1>2, Stages DEF TypeOK, FileInv, BeginWrite, TornInv, Solid
<1>6. RowInv' /\ StateInv'
  BY <1>2, Stages DEF TypeOK, FileInv, BeginWrite, WritePosition, RowInv, RowsKept,
     StateInv, Whole
<1> QED BY <1>1, <1>3, <1>4, <1>5, <1>6 DEF FileInv

LEMMA UpdateDigestStep ==
  ASSUME TypeOK, FileInv, UpdateDigest
  PROVE  TypeOK' /\ FileInv'
<1>1. TypeOK'
  BY BoundsAssumption DEF TypeOK, UpdateDigest, MorePoints, Points, PC
<1>2. WriteInv' /\ TornInv'
  BY Stages DEF FileInv, UpdateDigest, WriteInv, TornInv, Solid
<1>3. KeptInv'
  BY Stages DEF TypeOK, FileInv, UpdateDigest, KeptInv, LinesKept, Numbered, FoundBy
<1>4. RowInv' /\ StateInv'
  BY Stages DEF TypeOK, FileInv, UpdateDigest, RowInv, RowsKept, StateInv, Whole
<1> QED BY <1>1, <1>2, <1>3, <1>4 DEF FileInv

LEMMA EndsStep ==
  ASSUME TypeOK, FileInv, EndRun \/ Crash
  PROVE  TypeOK' /\ FileInv'
<1> USE DEF Ends
<1>1. <<>> \in Seq(Line) /\ Len(<<>>) = 0
  OBVIOUS
<1>2. TypeOK'
  <2>1. headerwritten' \in BOOLEAN
    BY DEF EndRun, Crash
  <2>2. crashes' \in 0..MaxCrashes
    BY BoundsAssumption DEF TypeOK, EndRun, Crash
  <2>3. pc' = "off" /\ samples' = 0 /\ fileptr' = 0 /\ filedigest' = <<>> /\ mode' = "interim"
        /\ pos' = 0 /\ UNCHANGED <<file, run, system, point, kept, edits>>
    BY DEF EndRun, Crash
  <2> QED BY <1>1, <2>1, <2>2, <2>3, BoundsAssumption DEF TypeOK, PC
<1>3. WriteInv'
  BY Stages DEF EndRun, Crash, WriteInv
<1>4. TornInv' /\ RowInv' /\ StateInv'
  <2>1. /\ pc' = "off" /\ file' = file /\ fileptr' = 0 /\ edits' = edits /\ kept' = kept
        /\ crashes' = 0 => crashes = 0 /\ pc = "digest" /\ mode # "interim"
    <3>1. crashes' # 0 \/ EndRun
      BY BoundsAssumption DEF TypeOK, Crash
    <3> QED BY <3>1 DEF EndRun, Crash
  <2>2. TornInv'
    BY <2>1, Stages DEF FileInv, TornInv, Solid
  <2>3. RowInv'
    BY <2>1, Stages DEF TypeOK, FileInv, RowInv, RowsKept
  <2>4. StateInv'
    BY <2>1, Stages DEF TypeOK, FileInv, StateInv, Whole
  <2> QED BY <2>2, <2>3, <2>4
<1>5. KeptInv'
  <2>1. /\ pc' = "off" /\ file' = file /\ filedigest' = <<>> /\ edits' = edits /\ kept' = kept
    BY DEF EndRun, Crash
  <2>2. LinesKept'
    BY <2>1 DEF FileInv, KeptInv, LinesKept
  <2>3. Numbered(file)' /\ Numbered(filedigest)'
    BY <1>1, <2>1 DEF FileInv, KeptInv, Numbered
  <2> QED BY <2>1, <2>2, <2>3, Stages DEF KeptInv
<1> QED BY <1>2, <1>3, <1>4, <1>5 DEF FileInv

(***************************************************************************)
(* Steps that write                                                        *)
(***************************************************************************)

(* A line written while the file is open disturbs nothing before the       *)
(* position, where every line that must stay is.                           *)
LEMMA PutKeeps ==
  ASSUME TypeOK, FileInv, pc \in Writing, pc' \in Writing,
         NEW line \in Line, line.kind \notin {"note", "torn"}, Put(line),
         UNCHANGED <<filedigest, edits, kept, crashes>>
  PROVE  /\ file' \in Seq(Line) /\ pos' \in Nat
         /\ \A l \in kept' : \E i \in 1..fileptr : file'[i] = l
         /\ LinesKept' /\ Numbered(file)' /\ Numbered(filedigest)' /\ TornInv'
<1>1. /\ pos \in fileptr..Len(file) /\ fileptr \in Nat /\ FoundBy(fileptr)
      /\ Numbered(file) /\ Numbered(filedigest) /\ pos \in 0..Len(file)
      /\ file \in Seq(Line)
  BY Stages DEF TypeOK, FileInv, WriteInv, KeptInv
<1>2. /\ file' \in Seq(Line) /\ pos' = pos + 1 /\ pos' <= Len(file')
      /\ \A i \in 1..pos : file'[i] = file[i]
      /\ file'[pos + 1] = line
      /\ \A i \in pos + 2 .. Len(file') :
           file'[i] = Torn \/ \E j \in 1..Len(file) : file'[i] = file[j]
  BY <1>1, PutLine
<1>3. \A l \in kept' : \E i \in 1..fileptr : file'[i] = l
  BY <1>1, <1>2 DEF FoundBy
<1>4. LinesKept'
  BY <1>1, <1>2, <1>3 DEF LinesKept
<1>5. Numbered(file)'
  <2> SUFFICES ASSUME NEW i \in 1..Len(file'), file'[i].kind = "note"
               PROVE  file'[i].value \in 0..edits'
    BY DEF Numbered
  <2>1. i \in Nat /\ (i <= pos \/ i = pos + 1 \/ i \in pos + 2 .. Len(file'))
    BY <1>1, <1>2
  <2>2. i # pos + 1
    BY <1>2
  <2>3. file'[i] # Torn
    BY LineKinds
  <2>4. \E j \in 1..Len(file) : file'[i] = file[j]
    BY <1>1, <1>2, <2>1, <2>2, <2>3
  <2> QED BY <1>1, <2>4 DEF Numbered
<1>6. Numbered(filedigest)'
  BY <1>1 DEF Numbered
<1>7. TornInv'
  BY <1>1, <1>2 DEF FileInv, TornInv, Solid
<1> QED BY <1>1, <1>2, <1>3, <1>4, <1>5, <1>6, <1>7

LEMMA WriteHeaderStep ==
  ASSUME TypeOK, FileInv, WriteHeaderIfNeeded
  PROVE  TypeOK' /\ FileInv'
<1>1. /\ pc = "header" /\ pc' = "row" /\ pc \in Writing /\ pc' \in Writing
      /\ pos = fileptr /\ headerwritten' = TRUE /\ pos \in 0..Len(file)
      /\ UNCHANGED <<run, system, point, samples, filedigest, mode, kept, edits, crashes>>
  BY Stages DEF WriteHeaderIfNeeded, FileInv, WriteInv, TypeOK
<1>2. CASE headerwritten
  <2>1. UNCHANGED <<file, pos, fileptr>>
    BY <1>2 DEF WriteHeaderIfNeeded
  <2>2. TypeOK'
    BY <1>1, <2>1 DEF TypeOK, PC
  <2>3. WriteInv' /\ KeptInv' /\ TornInv'
    BY <1>1, <2>1, Stages DEF FileInv, WriteInv, KeptInv, FoundBy, LinesKept, Numbered, TornInv, Solid
  <2>4. RowInv' /\ StateInv'
    BY <1>1, <2>1, Stages DEF FileInv, RowInv, RowsKept, StateInv, Whole
  <2> QED BY <2>2, <2>3, <2>4 DEF FileInv
<1>3. CASE ~ headerwritten
  <2>1. Put(Header) /\ fileptr' = pos'
    BY <1>3 DEF WriteHeaderIfNeeded
  <2>2. Header \in Line /\ Header.kind = "header"
    BY LineTypes, LineKinds
  <2>3. /\ file' \in Seq(Line) /\ pos' \in Nat
        /\ \A l \in kept' : \E i \in 1..fileptr : file'[i] = l
        /\ LinesKept' /\ Numbered(file)' /\ Numbered(filedigest)' /\ TornInv'
    BY <1>1, <2>1, <2>2, PutKeeps
  <2>4. /\ pos' = pos + 1 /\ pos' <= Len(file') /\ file'[pos + 1] = Header
        /\ \A i \in 1..pos : file'[i] = file[i]
    BY <1>1, <2>1, <2>2, PutLine DEF TypeOK
  <2>5. TypeOK'
    <3>1. headerwritten' \in BOOLEAN
      BY <1>1
    <3> QED BY <1>1, <2>1, <2>3, <3>1 DEF TypeOK, PC
  <2>6. WriteInv'
    BY <1>1, <2>1, <2>3, <2>4, Stages DEF FileInv, WriteInv
  <2>7. KeptInv'
    BY <1>1, <2>1, <2>3, <2>4, Stages DEF TypeOK, KeptInv, FoundBy
  <2>8. RowInv'
    BY <1>1, <2>1, <2>2, <2>3, <2>4, Stages DEF TypeOK, FileInv, RowInv, RowsKept
  <2>9. StateInv'
    <3> SUFFICES ASSUME crashes = 0, edits = 0
                 PROVE  Whole(file, fileptr)'
      BY <1>1, Stages DEF StateInv
    <3>1. Whole(file, fileptr)
      BY <1>1 DEF FileInv, StateInv
    <3>2. Whole(file', fileptr + 1)
      <4>1. fileptr \in Nat /\ file'[fileptr + 1].kind = "header"
        BY <1>1, <2>2, <2>4 DEF TypeOK
      <4> QED BY <1>1, <2>4, <3>1, <4>1, WholeBefore
    <3> QED BY <1>1, <2>1, <2>4, <3>2 DEF TypeOK
  <2> QED BY <2>3, <2>5, <2>6, <2>7, <2>8, <2>9 DEF FileInv
<1> QED BY <1>2, <1>3

(* The row and the lines of the state go behind fileptr, which stays.      *)
LEMMA BlockLineStep ==
  ASSUME TypeOK, FileInv, pc \in Writing, pc' \in Writing,
         NEW n \in 1..5, pos = fileptr + n - 1, Put(WrittenLine(n)),
         UNCHANGED <<run, system, point, samples, headerwritten, fileptr, filedigest,
                     mode, kept, edits, crashes>>
  PROVE  /\ TypeOK' /\ KeptInv' /\ TornInv' /\ RowInv' /\ StateInv'
         /\ pos' = fileptr' + n /\ pos' <= Len(file')
         /\ \A i \in 1..5 : i <= n => file'[fileptr + i] = WrittenLine(i)'
<1>1. /\ pos \in 0..Len(file) /\ fileptr \in Nat /\ fileptr <= Len(file)
      /\ \A i \in 1..5 : i <= n - 1 => file[fileptr + i] = WrittenLine(i)
      /\ FoundBy(fileptr)
  BY Stages DEF TypeOK, FileInv, WriteInv, KeptInv
<1>2. WrittenLine(n) \in Line /\ WrittenLine(n).kind \notin {"note", "torn"}
  <2>1. n = 1 \/ n - 1 = 1 \/ n - 1 = 2 \/ n - 1 = 3 \/ n - 1 = 4
    OBVIOUS
  <2> QED BY <2>1, LineTypes, LineKinds DEF WrittenLine
<1>3. /\ file' \in Seq(Line) /\ pos' \in Nat
      /\ \A l \in kept' : \E i \in 1..fileptr : file'[i] = l
      /\ LinesKept' /\ Numbered(file)' /\ Numbered(filedigest)' /\ TornInv'
  BY <1>2, PutKeeps
<1>4. /\ pos' = pos + 1 /\ pos' <= Len(file') /\ file'[pos + 1] = WrittenLine(n)
      /\ \A i \in 1..pos : file'[i] = file[i]
  BY <1>1, <1>2, PutLine DEF TypeOK
<1>5. TypeOK'
  BY <1>3, Stages DEF TypeOK, PC
<1>6. KeptInv'
  BY <1>1, <1>3, <1>4, Stages DEF TypeOK, KeptInv, FoundBy
<1>7. RowInv'
  <2> SUFFICES ASSUME crashes = 0, edits = 0
               PROVE  fileptr' <= Len(file') /\ RowsKept(fileptr)'
    BY Stages DEF RowInv
  <2>1. RowsKept(fileptr)
    BY DEF FileInv, RowInv
  <2>2. fileptr' = fileptr /\ kept' = kept /\ fileptr <= pos
    BY <1>1
  <2>3. fileptr' <= Len(file')
    <3>1. Len(file') \in Nat
      BY <1>3
    <3> QED BY <1>1, <1>4, <2>2, <3>1
  <2>4. ASSUME NEW i \in 1..fileptr
        PROVE  file'[i] = file[i]
    BY <1>1, <1>4, <2>2
  <2> QED BY <2>1, <2>2, <2>3, <2>4 DEF RowsKept
<1>8. StateInv'
  <2> SUFFICES ASSUME crashes = 0, edits = 0
               PROVE  Whole(file, fileptr)'
    BY Stages DEF StateInv
  <2>1. Whole(file, fileptr)
    BY DEF FileInv, StateInv
  <2>2. \A i \in 1..fileptr : file'[i] = file[i]
    BY <1>1, <1>4
  <2> QED BY <1>1, <2>1, <2>2, WholeBefore
<1>9. \A i \in 1..5 : i <= n => file'[fileptr + i] = WrittenLine(i)'
  <2> SUFFICES ASSUME NEW i \in 1..5, i <= n
               PROVE  file'[fileptr + i] = WrittenLine(i)
    BY DEF WrittenLine, RowLine, StateLine
  <2>1. CASE i = n
    BY <1>1, <1>4, <2>1
  <2>2. CASE i # n
    <3>1. i <= n - 1 /\ fileptr + i \in 1..pos
      BY <1>1, <2>2
    <3> QED BY <1>1, <1>4, <3>1
  <2> QED BY <2>1, <2>2
<1> QED BY <1>1, <1>3, <1>4, <1>5, <1>6, <1>7, <1>8, <1>9

LEMMA WriteResultsStep ==
  ASSUME TypeOK, FileInv, WriteResults
  PROVE  TypeOK' /\ FileInv'
<1>1. /\ pc = "row" /\ pc \in Writing /\ pos = fileptr /\ pos \in 0..Len(file)
      /\ UNCHANGED <<run, system, point, samples, headerwritten, fileptr, filedigest,
                     mode, kept, edits, crashes>>
      /\ pc' = IF samples = 0 \/ mode = "final" THEN "truncate" ELSE "state1"
      /\ samples \in Nat /\ fileptr \in Nat
  BY Stages DEF WriteResults, FileInv, WriteInv, TypeOK
<1>2. pc' \in Writing
  BY <1>1, Stages
<1>3. CASE samples = 0
  <2>1. UNCHANGED <<file, pos>>
    BY <1>3 DEF WriteResults
  <2>2. TypeOK'
    BY <1>1, <1>3, <2>1 DEF TypeOK, PC
  <2>3. WriteInv' /\ KeptInv' /\ TornInv'
    BY <1>1, <1>3, <2>1, Stages
    DEF FileInv, WriteInv, KeptInv, FoundBy, LinesKept, Numbered, TornInv, Solid
  <2>4. RowInv' /\ StateInv'
    BY <1>1, <1>3, <2>1, Stages DEF FileInv, RowInv, RowsKept, StateInv, Whole
  <2> QED BY <2>2, <2>3, <2>4 DEF FileInv
<1>4. CASE samples # 0
  <2>1. Put(WrittenLine(1))
    BY <1>4 DEF WriteResults, WrittenLine
  <2>2. /\ TypeOK' /\ KeptInv' /\ TornInv' /\ RowInv' /\ StateInv'
        /\ pos' = fileptr' + 1 /\ pos' <= Len(file')
        /\ \A i \in 1..5 : i <= 1 => file'[fileptr + i] = WrittenLine(i)'
    <3>1. pos = fileptr + 1 - 1
      BY <1>1
    <3> QED BY <1>1, <1>2, <2>1, <3>1, BlockLineStep
  <2>3. WriteInv'
    BY <1>1, <1>4, <2>2, Stages DEF FileInv, WriteInv
  <2> QED BY <2>2, <2>3 DEF FileInv
<1> QED BY <1>3, <1>4

LEMMA WriteStateStep ==
  ASSUME TypeOK, FileInv, NEW k \in 1..4, WriteState(k)
  PROVE  TypeOK' /\ FileInv'
<1>1. /\ pc = StatePC[k] /\ pc \in Writing /\ pos = fileptr + k
      /\ pos \in 0..Len(file) /\ samples > 0 /\ mode # "final"
      /\ pc' = <<"state2", "state3", "state4", "truncate">>[k]
      /\ UNCHANGED <<run, system, point, samples, headerwritten, fileptr, filedigest,
                     mode, kept, edits, crashes>>
      /\ fileptr \in Nat /\ samples \in Nat
  BY Stages DEF WriteState, FileInv, WriteInv, TypeOK, StatePC
<1>2. /\ pc' \in Writing
      /\ pc' = IF k = 4 THEN "truncate" ELSE StatePC[k + 1]
  BY <1>1, Stages
<1>3. Put(WrittenLine(k + 1))
  BY DEF WriteState, WrittenLine
<1>4. /\ TypeOK' /\ KeptInv' /\ TornInv' /\ RowInv' /\ StateInv'
      /\ pos' = fileptr' + (k + 1) /\ pos' <= Len(file')
      /\ \A i \in 1..5 : i <= k + 1 => file'[fileptr + i] = WrittenLine(i)'
  <2>1. k + 1 \in 1..5 /\ pos = fileptr + (k + 1) - 1
    BY <1>1
  <2> QED BY <1>1, <1>2, <1>3, <2>1, BlockLineStep
<1>5. WriteInv'
  BY <1>1, <1>2, <1>4, Stages DEF FileInv, WriteInv
<1> QED BY <1>4, <1>5 DEF FileInv

(* What a write leaves: the lines before fileptr, the row and the state.   *)
LEMMA TruncateStep ==
  ASSUME TypeOK, FileInv, Truncate
  PROVE  TypeOK' /\ FileInv'
<1> DEFINE n == IF samples = 0 THEN 0 ELSE IF mode = "final" THEN 1 ELSE 5
<1>1. /\ pc = "truncate" /\ pc \in Writing /\ pc' = "digest"
      /\ fileptr \in Nat /\ samples \in Nat
      /\ pos = fileptr + n /\ pos \in 0..Len(file) /\ file \in Seq(Line)
      /\ file' = Truncated /\ fileptr' = (IF mode = "interim" THEN fileptr ELSE pos)
      /\ kept' = IF mode = "interim" \/ samples = 0 THEN kept ELSE kept \cup {RowLine}
      /\ UNCHANGED <<run, system, point, samples, headerwritten, filedigest, mode, pos,
                     edits, crashes>>
      /\ \A i \in 1..5 : i <= n => file[fileptr + i] = WrittenLine(i)
      /\ mode = "interim" => n = 5
      /\ n \in {0, 1, 5}
  BY Stages DEF Truncate, NextPosition, TypeOK, FileInv, WriteInv
<1> HIDE DEF n
<1>2. /\ file' \in Seq(Line) /\ Len(file') = pos
      /\ \A i \in 1..pos : file'[i] = file[i]
  BY <1>1, TruncatedLines
<1>3. \A i \in 1..5 : i <= n => file'[fileptr + i] = WrittenLine(i)
  BY <1>1, <1>2
<1>4. samples # 0 => n \in {1, 5}
  BY DEF n
<1>5. TypeOK'
  <2>1. kept' \subseteq Line
    BY <1>1, LineTypes DEF TypeOK
  <2>2. fileptr' \in Nat
    BY <1>1
  <2> QED BY <1>1, <1>2, <2>1, <2>2 DEF TypeOK, PC
<1>6. WriteInv'
  BY <1>1, Stages DEF FileInv, WriteInv
<1>7. KeptInv'
  <2>1. fileptr' <= Len(file') /\ fileptr' \in Nat
    BY <1>1, <1>2
  <2>2. FoundBy(fileptr)
    BY <1>1 DEF FileInv, KeptInv
  <2>3. \A l \in kept : \E i \in 1..fileptr' : file'[i] = l
    <3> SUFFICES ASSUME NEW l \in kept
                 PROVE  \E i \in 1..fileptr' : file'[i] = l
      OBVIOUS
    <3>1. PICK i \in 1..fileptr : file[i] = l
      BY <2>2 DEF FoundBy
    <3>2. i \in 1..pos /\ i \in 1..fileptr'
      BY <1>1
    <3> QED BY <1>2, <3>1, <3>2
  <2>4. ASSUME mode # "interim", samples # 0
        PROVE  \E i \in 1..fileptr' : file'[i] = RowLine
    <3>1. file'[fileptr + 1] = RowLine /\ fileptr + 1 \in 1..fileptr'
      BY <1>1, <1>3, <1>4, <2>4 DEF WrittenLine
    <3> QED BY <3>1
  <2>5. FoundBy(fileptr)'
    BY <1>1, <2>3, <2>4 DEF FoundBy
  <2>6. LinesKept'
    BY <2>1, <2>5 DEF FoundBy, LinesKept
  <2>7. Numbered(file)' /\ Numbered(filedigest)'
    BY <1>1, <1>2 DEF FileInv, KeptInv, Numbered
  <2> QED BY <1>1, <2>1, <2>5, <2>6, <2>7, Stages DEF KeptInv
<1>8. TornInv'
  BY <1>1, <1>2, Stages DEF FileInv, TornInv, Solid
<1>9. ASSUME NEW i \in fileptr + 1 .. pos
      PROVE  /\ i - fileptr \in 1..5
             /\ file'[i] = WrittenLine(i - fileptr)
  <2>1. i - fileptr \in 1..5 /\ i - fileptr <= n /\ fileptr + (i - fileptr) = i
    BY <1>1
  <2> QED BY <1>3, <2>1
<1>10. RowInv'
  <2> SUFFICES ASSUME crashes = 0, edits = 0
               PROVE  /\ fileptr' <= Len(file') /\ RowsKept(fileptr)'
                      /\ mode # "interim" => RowsKept(Len(file))'
                      /\ \A i \in fileptr' + 2 .. Len(file') : file'[i].kind # "row"
    BY <1>1, Stages DEF RowInv
  <2>1. \A i \in 1..fileptr : file'[i].kind = "row" => file'[i] \in kept'
    <3>1. RowsKept(fileptr) /\ kept \subseteq kept'
      BY <1>1 DEF FileInv, RowInv
    <3>2. fileptr <= pos /\ pos \in Nat
      BY <1>1
    <3>3. \A i \in 1..fileptr : file'[i] = file[i]
      BY <1>1, <1>2, <3>2
    <3> QED BY <3>1, <3>3 DEF RowsKept
  <2>2. \A i \in fileptr + 2 .. pos : file'[i].kind # "row"
    <3> SUFFICES ASSUME NEW i \in fileptr + 2 .. pos
                 PROVE  file'[i].kind # "row"
      OBVIOUS
    <3>1. /\ i - fileptr - 1 \in 1..4
          /\ file'[i] = StateLine(i - fileptr - 1)
      BY <1>1, <1>9 DEF WrittenLine
    <3>2. \A k \in 1..4 : StateLine(k).kind # "row"
      BY LineKinds
    <3> QED BY <3>1, <3>2
  <2>3. ASSUME mode # "interim"
        PROVE  \A i \in 1..pos : file'[i].kind = "row" => file'[i] \in kept'
    <3> SUFFICES ASSUME NEW i \in 1..pos, file'[i].kind = "row"
                 PROVE  file'[i] \in kept'
      OBVIOUS
    <3>1. CASE i <= fileptr
      BY <2>1, <3>1
    <3>2. CASE i = fileptr + 1
      <4>1. samples # 0
        BY <1>1, <3>2 DEF n
      <4>2. file'[i] = RowLine
        BY <1>1, <1>3, <1>4, <3>2, <4>1 DEF WrittenLine
      <4> QED BY <1>1, <2>3, <4>1, <4>2
    <3>3. CASE i > fileptr + 1
      BY <1>1, <2>2, <3>3
    <3> QED BY <1>1, <3>1, <3>2, <3>3
  <2> QED BY <1>1, <1>2, <2>1, <2>2, <2>3 DEF RowsKept
<1>11. StateInv'
  <2> SUFFICES ASSUME crashes = 0, edits = 0
               PROVE  Whole(file', pos) /\ Whole(file', fileptr')
    BY <1>1, <1>2, Stages DEF StateInv
  <2>1. Whole(file, fileptr)
    BY <1>1 DEF FileInv, StateInv
  <2>2. Whole(file', fileptr)
    BY <1>1, <1>2, <2>1, WholeBefore
  <2>3. CASE n = 0
    BY <1>1, <2>2, <2>3
  <2>4. CASE n = 1
    <3>1. file'[fileptr + 1].kind = "row"
      BY <1>3, <2>4, LineKinds DEF WrittenLine
    <3>2. Whole(file', fileptr + 1)
      <4>1. \A i \in 1..fileptr : file'[i] = file[i]
        BY <1>1, <1>2
      <4> QED BY <1>1, <2>1, <3>1, <4>1, WholeBefore
    <3> QED BY <1>1, <2>2, <2>4, <3>2
  <2>5. CASE n = 5
    <3>1. /\ file'[fileptr + 1] = RowLine /\ file'[fileptr + 2] = StateLine(1)
          /\ file'[fileptr + 3] = StateLine(2) /\ file'[fileptr + 4] = StateLine(3)
          /\ file'[fileptr + 5] = StateLine(4)
      BY <1>3, <2>5 DEF WrittenLine
    <3>2. /\ StateLine(2).value = point /\ StateLine(3).samples = samples
          /\ StateLine(4).samples = samples
          /\ StateLine(3).run = run /\ StateLine(4).run = run
          /\ RowLine.value = point /\ RowLine.samples = samples
      BY DEF StateLine, RowLine
    <3>3. Whole(file', fileptr + 5)
      <4> DEFINE Good(i) ==
            /\ file'[i].kind = "parameter" => i < fileptr + 5 /\ file'[i + 1].kind = "samples"
            /\ file'[i].kind = "state" => i > 1 /\ file'[i - 1].kind = "samples"
            /\ file'[i].kind = "samples" =>
                 /\ i > 3 /\ i < fileptr + 5
                 /\ file'[i - 3].kind = "row" /\ file'[i - 3].samples = file'[i].samples
                 /\ file'[i - 1].kind = "parameter"
                 /\ file'[i - 3].value = file'[i - 1].value
                 /\ file'[i + 1].kind = "state" /\ file'[i + 1].samples = file'[i].samples
                 /\ file'[i + 1].run = file'[i].run
      <4>1. \A i \in 1..fileptr : Good(i)
        BY <1>1, <2>2 DEF Whole
      <4>2. Good(fileptr + 1)
        BY <1>1, <3>1, LineKinds
      <4>3. Good(fileptr + 2)
        BY <1>1, <3>1, LineKinds
      <4>4. Good(fileptr + 3)
        BY <1>1, <3>1, LineKinds
      <4>5. Good(fileptr + 4)
        <5>1. /\ fileptr + 4 > 3 /\ fileptr + 4 < fileptr + 5
              /\ (fileptr + 4) - 3 = fileptr + 1 /\ (fileptr + 4) - 1 = fileptr + 3
              /\ (fileptr + 4) + 1 = fileptr + 5
          BY <1>1
        <5> QED BY <3>1, <3>2, <5>1, LineKinds
      <4>6. Good(fileptr + 5)
        <5>1. fileptr + 5 > 1 /\ (fileptr + 5) - 1 = fileptr + 4
          BY <1>1
        <5> QED BY <3>1, <5>1, LineKinds
      <4> HIDE DEF Good
      <4>7. \A i \in 1 .. fileptr + 5 : Good(i)
        <5> SUFFICES ASSUME NEW i \in 1 .. fileptr + 5
                     PROVE  Good(i)
          OBVIOUS
        <5>1. \/ i \in 1..fileptr \/ i = fileptr + 1 \/ i = fileptr + 2 \/ i = fileptr + 3
              \/ i = fileptr + 4 \/ i = fileptr + 5
          BY <1>1
        <5> QED BY <4>1, <4>2, <4>3, <4>4, <4>5, <4>6, <5>1
      <4> QED BY <4>7 DEF Good, Whole
    <3> QED BY <1>1, <2>2, <2>5, <3>3
  <2> QED BY <1>1, <2>3, <2>4, <2>5
<1> QED BY <1>5, <1>6, <1>7, <1>8, <1>10, <1>11 DEF FileInv

LEMMA EditStep ==
  ASSUME TypeOK, FileInv, Edit
  PROVE  TypeOK' /\ FileInv'
<1>1. /\ pc \in {"off", "run"} /\ pc \notin Writing /\ pc # "digest"
      /\ edits' = edits + 1 /\ edits \in Nat /\ edits' \in 0..MaxEdits
      /\ UNCHANGED <<pc, run, system, point, samples, headerwritten, fileptr, filedigest,
                     mode, pos, crashes>>
  BY Stages, BoundsAssumption DEF Edit, TypeOK
<1>2. WriteInv' /\ RowInv' /\ StateInv'
  BY <1>1, Stages DEF FileInv, WriteInv, RowInv, StateInv
<1>3. Numbered(filedigest)'
  BY <1>1 DEF FileInv, KeptInv, Numbered
<1>4. CASE file' = Append(file, Note(edits')) /\ kept' = kept \cup {Note(edits')}
  <2>1. Note(edits') \in Line /\ Note(edits').kind = "note" /\ Note(edits').value = edits'
    BY <1>1, LineTypes DEF Note
  <2>2. /\ file' \in Seq(Line) /\ Len(file') = Len(file) + 1
        /\ \A i \in 1..Len(file) : file'[i] = file[i]
        /\ file'[Len(file) + 1] = Note(edits')
    BY <1>4, <2>1, AppendProperties DEF TypeOK
  <2>3. TypeOK'
    BY <1>1, <1>4, <2>1, <2>2 DEF TypeOK
  <2>4. LinesKept'
    BY <1>4, <2>2 DEF FileInv, KeptInv, LinesKept, TypeOK
  <2>5. Numbered(file)'
    BY <1>1, <2>1, <2>2 DEF FileInv, KeptInv, Numbered, TypeOK
  <2>6. \A i \in 1..Len(filedigest) : filedigest[i] # Note(edits')
    BY <1>1, <2>1 DEF FileInv, KeptInv, Numbered
  <2>7. KeptInv'
    BY <1>1, <1>3, <1>4, <2>4, <2>5, <2>6 DEF FileInv, KeptInv
  <2>8. TornInv'
    BY <1>1, <2>1, <2>2 DEF FileInv, TornInv, Solid, TypeOK
  <2> QED BY <1>2, <2>3, <2>7, <2>8 DEF FileInv
<1>5. ASSUME NEW d \in 1..Len(file),
             file' = SubSeq(file, 1, d - 1) \o SubSeq(file, d + 1, Len(file)),
             kept' = kept \ {file[d]}
      PROVE  TypeOK' /\ FileInv'
  <2>1. /\ file' \in Seq(Line) /\ Len(file') = Len(file) - 1 /\ Len(file) \in Nat
        /\ \A i \in 1 .. Len(file) - 1 : file'[i] = file[IF i < d THEN i ELSE i + 1]
    <3>1. file \in Seq(Line) /\ Len(file) \in Nat
      BY DEF TypeOK
    <3> QED BY <1>5, <3>1, DeletedLine
  <2>2. TypeOK'
    BY <1>1, <1>5, <2>1 DEF TypeOK
  <2>3. LinesKept'
    <3> SUFFICES ASSUME NEW l \in kept, l # file[d]
                 PROVE  \E i \in 1..Len(file') : file'[i] = l
      BY <1>5 DEF LinesKept
    <3>1. PICK i \in 1..Len(file) : file[i] = l
      BY DEF FileInv, KeptInv, LinesKept
    <3>2. CASE i < d
      BY <2>1, <3>1, <3>2
    <3>3. CASE i > d
      <4>1. i - 1 \in 1 .. Len(file) - 1 /\ ~ (i - 1 < d) /\ (i - 1) + 1 = i
        BY <2>1, <3>3
      <4> QED BY <2>1, <3>1, <4>1
    <3> QED BY <3>1, <3>2, <3>3
  <2>4. \A i \in 1..Len(file') : \E j \in 1..Len(file) : file'[i] = file[j]
    BY <2>1
  <2>5. Numbered(file)'
    BY <1>1, <2>4 DEF FileInv, KeptInv, Numbered
  <2>6. KeptInv'
    BY <1>1, <1>3, <1>5, <2>3, <2>5 DEF FileInv, KeptInv
  <2>7. TornInv'
    BY <1>1, <2>4 DEF FileInv, TornInv, Solid
  <2> QED BY <1>2, <2>2, <2>6, <2>7 DEF FileInv
<1> QED BY <1>4, <1>5 DEF Edit

(***************************************************************************)
(* The theorems                                                            *)
(***************************************************************************)
LEMMA FileInvPreserved ==
  ASSUME TypeOK, FileInv, [Next]_vars
  PROVE  TypeOK' /\ FileInv'
<1>1. CASE StartRun
  BY <1>1, StartRunStep
<1>2. CASE SetupFile
  BY <1>2, SetupFileStep
<1>3. CASE Sample
  BY <1>3, SampleStep
<1>4. CASE \E m \in {"interim", "final", "finalstate"} : BeginWrite(m)
  BY <1>4, BeginWriteStep
<1>5. CASE WriteHeaderIfNeeded
  BY <1>5, WriteHeaderStep
<1>6. CASE WriteResults
  BY <1>6, WriteResultsStep
<1>7. CASE \E k \in 1..4 : WriteState(k)
  BY <1>7, WriteStateStep
<1>8. CASE Truncate
  BY <1>8, TruncateStep
<1>9. CASE UpdateDigest
  BY <1>9, UpdateDigestStep
<1>10. CASE EndRun \/ Crash
  BY <1>10, EndsStep
<1>11. CASE Edit
  BY <1>11, EditStep
<1>12. CASE Finished \/ UNCHANGED vars
  <2>1. UNCHANGED vars
    BY <1>12 DEF Finished
  <2>2. TypeOK'
    BY <2>1 DEF vars, TypeOK
  <2>3. WriteInv' /\ KeptInv' /\ TornInv'
    BY <2>1, Stages DEF vars, FileInv, WriteInv, KeptInv, LinesKept, FoundBy, Numbered,
       TornInv, Solid, WrittenLine, RowLine, StateLine
  <2>4. RowInv' /\ StateInv'
    BY <2>1 DEF vars, FileInv, RowInv, RowsKept, StateInv
  <2> QED BY <2>2, <2>3, <2>4 DEF FileInv
<1> QED BY <1>1, <1>2, <1>3, <1>4, <1>5, <1>6, <1>7, <1>8, <1>9, <1>10, <1>11, <1>12 DEF Next

LEMMA FileInvHolds == Spec => [](TypeOK /\ FileInv)
<1>1. Init => TypeOK /\ FileInv
  BY InitCorrect
<1>2. (TypeOK /\ FileInv) /\ [Next]_vars => (TypeOK /\ FileInv)'
  BY FileInvPreserved
<1> QED BY <1>1, <1>2, PTL DEF Spec

(* The file is a sequence of lines and every variable has its type.        *)
THEOREM FileTypeCorrect == Spec => []TypeOK
BY FileInvHolds, PTL

(* A final row and a line of the user's stay in the file: later writes, of *)
(* this run or another, start behind them, also after a crash and after    *)
(* modifications that checkformodifications finds.                         *)
THEOREM LinesAreKept == Spec => []LinesKept
<1>1. FileInv => LinesKept
  BY DEF FileInv, KeptInv
<1> QED BY <1>1, FileInvHolds, PTL

(* finishwithfile's truncation removes all that was left of covered lines. *)
THEOREM TruncationIsClean == Spec => []NoDetritus
<1>1. TypeOK /\ FileInv => NoDetritus
  BY Stages DEF FileInv, TornInv, Solid, NoDetritus
<1> QED BY <1>1, FileInvHolds, PTL

(* Left alone, the file holds no row that is not final, but for the last   *)
(* interim one of the estimate that is running.                            *)
THEOREM InterimRowsReplaced == Spec => []InterimReplaced
<1>1. ASSUME TypeOK, FileInv
      PROVE  InterimReplaced
  <2> DEFINE open == {i \in LinesOf("row") : file[i] \notin kept}
  <2> SUFFICES ASSUME crashes = 0, edits = 0, pc \in {"off", "setup", "run"}
               PROVE  Cardinality(open) <= IF pc = "run" THEN 1 ELSE 0
    BY DEF InterimReplaced
  <2>1. CASE pc = "run"
    <3>1. open \subseteq {fileptr + 1}
      <4>1. /\ RowsKept(fileptr) /\ fileptr \in Nat
            /\ \A i \in fileptr + 2 .. Len(file) : file[i].kind # "row"
        BY <1>1, <2>1 DEF TypeOK, FileInv, RowInv
      <4> QED BY <4>1 DEF RowsKept, LinesOf
    <3>2. IsFiniteSet({fileptr + 1}) /\ Cardinality({fileptr + 1}) = 1
      BY FS_Singleton
    <3> HIDE DEF open
    <3>3. Cardinality(open) <= 1
      BY <3>1, <3>2, FS_Subset
    <3> QED BY <2>1, <3>3
  <2>2. CASE pc # "run"
    <3>1. open = {}
      BY <1>1, <2>2 DEF FileInv, RowInv, RowsKept, LinesOf
    <3>2. Cardinality(open) = 0
      BY <3>1, FS_EmptySet
    <3> QED BY <2>2, <3>2
  <2> QED BY <2>1, <2>2
<1> QED BY <1>1, FileInvHolds, PTL

(* The saved state that lookforstate would find, line by line, is of one   *)
(* write, and its row is there.                                            *)
THEOREM SavedStatesAreWhole == Spec => []SavedStateWhole
<1>1. ASSUME TypeOK, FileInv
      PROVE  SavedStateWhole
  <2> SUFFICES ASSUME pc = "setup", LinesOf("parameter") # {}, LinesOf("samples") # {},
                      edits = 0, crashes = 0
               PROVE  /\ LinesOf("state") # {}
                      /\ LastOf("samples").samples = LastOf("state").samples
                      /\ LastOf("samples").run = LastOf("state").run
                      /\ \E i \in LinesOf("row") :
                           /\ file[i].value = LastOf("parameter").value
                           /\ file[i].samples = LastOf("samples").samples
    BY DEF SavedStateWhole, StateSaved
  <2> DEFINE Last(i, kind) == i \in LinesOf(kind) /\ \A j \in LinesOf(kind) : j <= i
  <2>1. Whole(file, Len(file)) /\ Len(file) \in Nat
    BY <1>1, Stages DEF FileInv, StateInv, TypeOK
  <2>2. ASSUME NEW kind, LinesOf(kind) # {}
        PROVE  \E i \in 1..Len(file) : Last(i, kind) /\ LastOf(kind) = file[i]
    <3>1. LinesOf(kind) \subseteq 1..Len(file)
      BY DEF LinesOf
    <3>2. \E i \in LinesOf(kind) : \A j \in LinesOf(kind) : j <= i
      BY <2>1, <2>2, <3>1, LargestMember
    <3> QED BY <3>1, <3>2 DEF LastOf
  <2>3. PICK s \in 1..Len(file) : Last(s, "samples") /\ LastOf("samples") = file[s]
    BY <2>2
  <2>4. PICK p \in 1..Len(file) : Last(p, "parameter") /\ LastOf("parameter") = file[p]
    BY <2>2
  <2>5. /\ s > 3 /\ s < Len(file) /\ file[s].kind = "samples"
        /\ file[s - 3].kind = "row" /\ file[s - 3].samples = file[s].samples
        /\ file[s - 1].kind = "parameter" /\ file[s - 3].value = file[s - 1].value
        /\ file[s + 1].kind = "state" /\ file[s + 1].samples = file[s].samples
        /\ file[s + 1].run = file[s].run
    BY <2>1, <2>3 DEF Whole, LinesOf
  <2>6. s + 1 \in LinesOf("state") /\ s - 1 \in LinesOf("parameter") /\ s - 3 \in LinesOf("row")
    <3>1. s + 1 \in 1..Len(file) /\ s - 1 \in 1..Len(file) /\ s - 3 \in 1..Len(file)
      BY <2>1, <2>5
    <3>2. s + 1 \in LinesOf("state")
      BY <2>5, <3>1 DEF LinesOf
    <3>3. s - 1 \in LinesOf("parameter")
      BY <2>5, <3>1 DEF LinesOf
    <3>4. s - 3 \in LinesOf("row")
      BY <2>5, <3>1 DEF LinesOf
    <3> QED BY <3>2, <3>3, <3>4
  <2>7. PICK t \in 1..Len(file) : Last(t, "state") /\ LastOf("state") = file[t]
    BY <2>2, <2>6
  <2>8. t = s + 1
    <3>1. t - 1 \in LinesOf("samples") /\ s + 1 <= t
      <4>1. file[t].kind = "state" /\ s + 1 <= t
        BY <2>6, <2>7 DEF LinesOf
      <4>2. t > 1 /\ file[t - 1].kind = "samples"
        BY <2>1, <4>1 DEF Whole
      <4> QED BY <2>1, <4>1, <4>2 DEF LinesOf
    <3> QED BY <2>3, <3>1
  <2>9. p = s - 1
    <3>1. p + 1 \in LinesOf("samples") /\ s - 1 <= p
      <4>1. file[p].kind = "parameter" /\ s - 1 <= p
        BY <2>4, <2>6 DEF LinesOf
      <4>2. p < Len(file) /\ file[p + 1].kind = "samples"
        BY <2>1, <4>1 DEF Whole
      <4> QED BY <2>1, <4>1, <4>2 DEF LinesOf
    <3> QED BY <2>3, <3>1
  <2>10. /\ file[s - 3].value = LastOf("parameter").value
         /\ file[s - 3].samples = LastOf("samples").samples
    BY <2>3, <2>4, <2>5, <2>9
  <2>11. /\ LastOf("samples").samples = LastOf("state").samples
         /\ LastOf("samples").run = LastOf("state").run
    BY <2>3, <2>5, <2>7, <2>8
  <2> QED BY <2>6, <2>10, <2>11
<1> QED BY <1>1, FileInvHolds, PTL
=============================================================================
