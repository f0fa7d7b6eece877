---------------------------- MODULE EvidenceProofs ----------------------------
(***************************************************************************)
(* What holds of the evidence log for any number of processes, threads,    *)
(* appends, crashes and refused renames.                                   *)
(***************************************************************************)
EXTENDS EvidenceLog, FiniteSetTheorems, FunctionTheorems, SequenceTheorems, TLAPS

(* The parts of TypeOK.                                                    *)
ThreadsOK ==
  /\ pc \in [Threads -> {"idle", "rotate", "open", "write"}]
  /\ DOMAIN rec = Threads
  /\ \A t \in Threads : IF pc[t] = "idle" THEN rec[t] = NoRec ELSE rec[t] \in Rec
  /\ handle \in [Threads -> {NoFile} \cup Inodes]
  /\ \A t \in Threads : pc[t] \in {"rotate", "write"} => handle[t] # NoFile

FilesOK ==
  /\ files \in Seq(Seq(Piece))
  /\ here \in {NoFile} \cup Inodes
  /\ old \in {NoFile} \cup Inodes
  /\ here = old => here = NoFile

RunsOK ==
  /\ runs \in Nat /\ seq \in [1..runs -> Nat]
  /\ run \in [Procs -> 1..runs]
  /\ acked \subseteq Rec /\ refused \in Nat /\ raced \in BOOLEAN

LEMMA TypeOKParts == TypeOK <=> ThreadsOK /\ FilesOK /\ RunsOK
BY DEF TypeOK, ThreadsOK, FilesOK, RunsOK

LEMMA TypeOKPartsNext == TypeOK' <=> ThreadsOK' /\ FilesOK' /\ RunsOK'
BY DEF TypeOK, ThreadsOK, FilesOK, RunsOK

(* Every process can be given a run id of its own.                         *)
LEMMA RunIds ==
  \E ids \in [Procs -> 1..Cardinality(Procs)] : \A p, q \in Procs : ids[p] = ids[q] => p = q
<1> DEFINE n == Cardinality(Procs)
<1>1. n \in Nat /\ ExistsBijection(1..n, Procs)
  BY EvidenceLogAssumption, FS_CardinalityType
<1>2. PICK f \in [1..n -> Procs] : \A p \in Procs : \E i \in 1..n : f[i] = p
  BY <1>1 DEF ExistsBijection, Bijection, Surjection
<1> DEFINE ids == [p \in Procs |-> CHOOSE i \in 1..n : f[i] = p]
<1>3. \A p \in Procs : ids[p] \in 1..n /\ f[ids[p]] = p
  BY <1>2
<1>4. ids \in [Procs -> 1..n]
  BY <1>3
<1>5. \A p, q \in Procs : ids[p] = ids[q] => p = q
  BY <1>3
<1> QED
  BY <1>4, <1>5

LEMMA InitTypes == Init => TypeOK
<1> SUFFICES ASSUME Init PROVE TypeOK
  OBVIOUS
<1>1. run \in [Procs -> 1..Cardinality(Procs)]
  BY RunIds DEF Init
<1>2. runs \in Nat /\ runs = Cardinality(Procs)
  BY EvidenceLogAssumption, FS_CardinalityType DEF Init
<1>3. RunsOK
  BY <1>1, <1>2 DEF Init, RunsOK
<1>4. ThreadsOK /\ FilesOK
  BY DEF Init, ThreadsOK, FilesOK, NoFile
<1> QED
  BY <1>3, <1>4, TypeOKParts

(* A thread takes a step, the others stay.                                 *)
LEMMA PutsTypes ==
  ASSUME FilesOK, NEW f \in Inodes, NEW piece \in Piece
  PROVE  /\ Puts(f, piece) \in Seq(Seq(Piece))
         /\ DOMAIN Puts(f, piece) = Inodes
         /\ Len(Puts(f, piece)[f]) = Len(files[f]) + 1
         /\ \A g \in Inodes : g # f => Puts(f, piece)[g] = files[g]
<1>1. files[f] \in Seq(Piece) /\ f \in 1..Len(files) /\ Inodes = 1..Len(files)
  BY DEF FilesOK, Inodes
<1>2. Append(files[f], piece) \in Seq(Piece) /\ Len(Append(files[f], piece)) = Len(files[f]) + 1
  BY <1>1
<1>3. Puts(f, piece) = [files EXCEPT ![f] = Append(files[f], piece)]
  BY DEF Puts
<1> QED
  BY <1>1, <1>2, <1>3, ExceptSeq DEF FilesOK, Inodes

LEMMA LeaveTypes ==
  ASSUME ThreadsOK, NEW t \in Threads, Leave(t), Inodes' = Inodes
  PROVE  ThreadsOK'
BY DEF ThreadsOK, Leave

LEMMA MeasureTypes ==
  ASSUME ThreadsOK, FilesOK, RunsOK, NEW t \in Threads, Measure(t)
  PROVE  ThreadsOK' /\ FilesOK' /\ RunsOK'
<1> DEFINE r == run[ProcOf[t]]
<1>1. r \in 1..runs /\ r \in Nat \ {0} /\ seq[r] \in Nat
  BY EvidenceLogAssumption DEF RunsOK
<1>2. /\ seq' = [seq EXCEPT ![r] = seq[r] + 1]
      /\ rec' = [rec EXCEPT ![t] = [run |-> r, seq |-> seq[r] + 1]]
      /\ handle' = [handle EXCEPT ![t] = here]
      /\ pc' = [pc EXCEPT ![t] = IF Large(here) THEN "rotate" ELSE "open"]
      /\ UNCHANGED <<fileVars, run, runs, histVars>>
  BY DEF Measure
<1>3. seq' \in [1..runs -> Nat]
  BY <1>1, <1>2 DEF RunsOK
<1>4. [run |-> r, seq |-> seq[r] + 1] \in Rec
  BY <1>1 DEF Rec
<1>5. UNCHANGED <<files, here, old>> /\ Inodes' = Inodes
  BY <1>2 DEF fileVars, Inodes
<1>6. pc'[t] = "rotate" => here # NoFile
  BY <1>2 DEF Large, ThreadsOK
<1> HIDE DEF r
<1>7. ThreadsOK'
  BY <1>2, <1>4, <1>5, <1>6 DEF ThreadsOK, FilesOK
<1> QED
  BY <1>2, <1>3, <1>5, <1>7 DEF FilesOK, RunsOK, histVars

LEMMA RotateTypes ==
  ASSUME ThreadsOK, FilesOK, RunsOK, NEW t \in Threads, Rotate(t) \/ RotateRefused(t)
  PROVE  ThreadsOK' /\ FilesOK' /\ RunsOK'
<1>1. /\ pc' = [pc EXCEPT ![t] = "open"] /\ pc[t] = "rotate"
      /\ UNCHANGED <<rec, handle, files, run, seq, runs, acked>>
      /\ refused' \in {refused, refused + 1}
  BY DEF Rotate, RotateRefused, fileVars, runVars
<1>2. Inodes' = Inodes
  BY <1>1 DEF Inodes
<1>3. FilesOK'
  BY <1>1, <1>2 DEF Rotate, RotateRefused, fileVars, FilesOK
<1>4. raced' \in BOOLEAN
  <2>1. raced' = raced \/ raced' = (raced \/ here # handle[t])
    BY DEF Rotate, RotateRefused
  <2> QED
    BY <2>1 DEF RunsOK
<1> QED
  BY <1>1, <1>2, <1>3, <1>4 DEF ThreadsOK, RunsOK

LEMMA OpenTypes ==
  ASSUME ThreadsOK, FilesOK, RunsOK, NEW t \in Threads, Open(t)
  PROVE  ThreadsOK' /\ FilesOK' /\ RunsOK'
<1>1. /\ pc[t] = "open" /\ pc' = [pc EXCEPT ![t] = "write"]
      /\ handle' = [handle EXCEPT ![t] = here']
      /\ UNCHANGED <<rec, old, runVars, histVars>>
  BY DEF Open, Opened
<1>2. /\ files' \in Seq(Seq(Piece)) /\ Inodes \subseteq Inodes'
      /\ here' \in Inodes' /\ here' # NoFile /\ here' # old
  <2>0. Inodes = 1..Len(files) /\ Len(files) \in Nat
    BY DEF FilesOK, Inodes
  <2>1. CASE here = NoFile
    <3>1. files' = Append(files, <<>>) /\ here' = Len(files) + 1
      BY <2>1 DEF Open
    <3>2. <<>> \in Seq(Piece)
      OBVIOUS
    <3>3. files' \in Seq(Seq(Piece)) /\ Len(files') = Len(files) + 1
      BY <3>1, <3>2 DEF FilesOK
    <3>4. Inodes' = 1..Len(files) + 1
      BY <3>3 DEF Inodes
    <3> QED
      BY <2>0, <3>1, <3>3, <3>4 DEF FilesOK, NoFile
  <2>2. CASE here # NoFile
    BY <2>2 DEF Open, FilesOK, Inodes
  <2> QED
    BY <2>1, <2>2
<1>3. FilesOK'
  BY <1>1, <1>2 DEF FilesOK
<1>4. ThreadsOK'
  BY <1>1, <1>2 DEF ThreadsOK
<1> QED
  BY <1>1, <1>3, <1>4 DEF RunsOK, runVars, histVars

LEMMA WriteTypes ==
  ASSUME ThreadsOK, FilesOK, RunsOK, NEW t \in Threads, Write(t) \/ WriteFails(t)
  PROVE  ThreadsOK' /\ FilesOK' /\ RunsOK'
<1>1. handle[t] \in Inodes /\ rec[t] \in Rec
  BY DEF Write, WriteFails, ThreadsOK
<1>2. \/ UNCHANGED files
      \/ \E kind \in {"line", "bare", "cut"} :
           files' = Puts(handle[t], [rec |-> rec[t], kind |-> kind])
  BY DEF Write, WriteFails, Line
<1>3. files' \in Seq(Seq(Piece)) /\ Inodes' = Inodes
  <2>1. CASE UNCHANGED files
    BY <2>1 DEF FilesOK, Inodes
  <2>2. ASSUME NEW kind \in {"line", "bare", "cut"},
               files' = Puts(handle[t], [rec |-> rec[t], kind |-> kind])
        PROVE  files' \in Seq(Seq(Piece)) /\ Inodes' = Inodes
    <3>1. [rec |-> rec[t], kind |-> kind] \in Piece
      BY <1>1 DEF Piece
    <3> QED
      BY <1>1, <2>2, <3>1, PutsTypes DEF Inodes
  <2> QED
    BY <1>2, <2>1, <2>2
<1>4. ThreadsOK'
  BY <1>3, LeaveTypes DEF Write, WriteFails
<1>5. FilesOK'
  BY <1>3 DEF Write, WriteFails, FilesOK
<1> QED
  BY <1>1, <1>4, <1>5 DEF Write, WriteFails, RunsOK, runVars, histVars

LEMMA CrashTypes ==
  ASSUME ThreadsOK, FilesOK, RunsOK, NEW p \in Procs, Crash(p)
  PROVE  ThreadsOK' /\ FilesOK' /\ RunsOK'
<1>1. files' \in Seq(Seq(Piece)) /\ Inodes' = Inodes
  <2>1. CASE UNCHANGED files
    BY <2>1 DEF FilesOK, Inodes
  <2>2. ASSUME NEW t \in Threads, NEW kind \in {"bare", "cut"}, pc[t] = "write",
               files' = Puts(handle[t], [rec |-> rec[t], kind |-> kind])
        PROVE  files' \in Seq(Seq(Piece)) /\ Inodes' = Inodes
    <3>1. handle[t] \in Inodes /\ [rec |-> rec[t], kind |-> kind] \in Piece
      BY <2>2 DEF ThreadsOK, Piece
    <3> QED
      BY <2>2, <3>1, PutsTypes DEF Inodes
  <2> QED
    BY <2>1, <2>2 DEF Crash
<1>2. ThreadsOK'
  BY <1>1 DEF Crash, ThreadsOK
<1>3. FilesOK'
  BY <1>1 DEF Crash, FilesOK
<1>4. runs' \in Nat /\ run' \in [Procs -> 1..runs']
  BY DEF Crash, RunsOK
<1>5. seq' \in [1..runs' -> Nat]
  <2>1. seq' = Append(seq, 0) /\ runs' = runs + 1
    BY DEF Crash
  <2>2. seq \in Seq(Nat) /\ Len(seq) = runs
    BY DEF RunsOK
  <2>3. Append(seq, 0) \in Seq(Nat) /\ Len(Append(seq, 0)) = runs + 1
    BY <2>2
  <2> QED
    BY <2>1, <2>3, LenProperties
<1> QED
  BY <1>2, <1>3, <1>4, <1>5 DEF Crash, RunsOK, histVars

LEMMA TypeOKStep ==
  ASSUME TypeOK, [Next]_vars
  PROVE  TypeOK'
<1> USE TypeOKParts, TypeOKPartsNext
<1>1. CASE UNCHANGED vars
  BY <1>1 DEF vars, threadVars, fileVars, runVars, histVars, ThreadsOK, FilesOK, RunsOK, Inodes
<1> QED
  BY <1>1, MeasureTypes, RotateTypes, OpenTypes, WriteTypes, CrashTypes DEF Next, AppendJsonl

(* A thread that writes has a file open, and the two paths never name the  *)
(* same one.                                                               *)
THEOREM LogWellTyped == Spec => []TypeOK
BY InitTypes, TypeOKStep, PTL DEF Spec

-----------------------------------------------------------------------------

(* Why a file stays near its limit: what it holds and what is still to be  *)
(* written to it go together.  A thread joins those who will write only    *)
(* when it has found room, or when its rotation was refused.               *)
Pending(f) ==
  {t \in Threads : (pc[t] = "write" /\ handle[t] = f) \/ (pc[t] = "open" /\ here = f)}

Fits(f) ==
  Len(files[f]) + Cardinality(Pending(f)) < MaxLines + Cardinality(Threads) + refused

AllFit == \A f \in Inodes : Fits(f)

(* What was measured large stays large.                                    *)
RotatesFull ==
  /\ \A t \in Threads : pc[t] = "rotate" => Len(files[handle[t]]) >= MaxLines
  /\ old # NoFile /\ ~raced => Len(files[old]) >= MaxLines

LEMMA PendingFinite ==
  ASSUME NEW T, T \subseteq Threads
  PROVE  /\ IsFiniteSet(T) /\ Cardinality(T) \in Nat
         /\ Cardinality(T) <= Cardinality(Threads) /\ Cardinality(Threads) \in Nat
BY EvidenceLogAssumption, FS_Subset, FS_CardinalityType

LEMMA LenTypes == TypeOK => \A f \in Inodes : Len(files[f]) \in Nat /\ f # NoFile
<1> SUFFICES ASSUME TypeOK, NEW f \in Inodes PROVE Len(files[f]) \in Nat /\ f # NoFile
  OBVIOUS
<1>1. files[f] \in Seq(Piece) /\ f # NoFile
  BY DEF TypeOK, Inodes, NoFile
<1> QED
  BY <1>1

(* Nothing is added to the file, and nobody to those who will write to it. *)
LEMMA FitsStill ==
  ASSUME TypeOK, TypeOK', NEW f \in Inodes, f \in Inodes', Fits(f), Pending(f)' \subseteq Pending(f),
         Len(files'[f]) = Len(files[f]), refused' >= refused
  PROVE  Fits(f)'
<1>1. Pending(f) \subseteq Threads
  BY DEF Pending
<1>2. Cardinality(Pending(f)') <= Cardinality(Pending(f))
  BY <1>1, PendingFinite, FS_Subset
<1>3. /\ Cardinality(Pending(f)') \in Nat /\ Cardinality(Pending(f)) \in Nat
      /\ Cardinality(Threads) \in Nat
  BY <1>1, PendingFinite
<1>4. refused \in Nat /\ refused' \in Nat /\ Len(files[f]) \in Nat
  BY LenTypes DEF TypeOK
<1> QED
  BY <1>2, <1>3, <1>4, EvidenceLogAssumption DEF Fits

(* One of them has written at most a line and is gone.                     *)
LEMMA FitsWritten ==
  ASSUME TypeOK, NEW f \in Inodes, Fits(f), NEW t \in Pending(f),
         Pending(f)' \subseteq Pending(f) \ {t},
         Len(files'[f]) = Len(files[f]) + 1, refused' = refused
  PROVE  Fits(f)'
<1>1. Pending(f) \subseteq Threads
  BY DEF Pending
<1>2. IsFiniteSet(Pending(f)) /\ IsFiniteSet(Pending(f) \ {t})
  BY <1>1, PendingFinite
<1>3. Cardinality(Pending(f) \ {t}) = Cardinality(Pending(f)) - 1
  BY <1>2, FS_RemoveElement
<1>4. Cardinality(Pending(f)') <= Cardinality(Pending(f) \ {t})
  BY <1>2, FS_Subset
<1>5. /\ Cardinality(Pending(f)') \in Nat /\ Cardinality(Pending(f)) \in Nat
      /\ Cardinality(Threads) \in Nat
  BY <1>1, PendingFinite
<1>6. refused \in Nat /\ Len(files[f]) \in Nat
  BY LenTypes DEF TypeOK
<1> QED
  BY <1>3, <1>4, <1>5, <1>6, EvidenceLogAssumption DEF Fits

(* There is room, whoever will write.                                      *)
LEMMA FitsRoom ==
  ASSUME TypeOK', NEW f, f \in Inodes', Len(files'[f]) < MaxLines
  PROVE  Fits(f)'
<1>1. Pending(f)' \subseteq Threads
  BY DEF Pending
<1>2. /\ Cardinality(Pending(f)') \in Nat /\ Cardinality(Threads) \in Nat
      /\ Cardinality(Pending(f)') <= Cardinality(Threads)
  BY <1>1, PendingFinite
<1>3. refused' \in Nat /\ Len(files'[f]) \in Nat
  <2>1. files'[f] \in Seq(Piece)
    BY DEF TypeOK, Inodes
  <2> QED
    BY <2>1 DEF TypeOK
<1> QED
  BY <1>2, <1>3, EvidenceLogAssumption DEF Fits

LEMMA MeasureFits ==
  ASSUME TypeOK, TypeOK', AllFit, NEW t \in Threads, Measure(t)
  PROVE  AllFit'
<1>1. /\ UNCHANGED <<files, here, refused>> /\ Inodes' = Inodes
      /\ \A u \in Threads : u # t => pc'[u] = pc[u] /\ handle'[u] = handle[u]
      /\ pc'[t] = IF Large(here) THEN "rotate" ELSE "open"
  BY DEF Measure, fileVars, histVars, Inodes, TypeOK
<1>2. refused' >= refused
  BY <1>1 DEF TypeOK
<1>3. ASSUME NEW f \in Inodes, Large(here) \/ f # here PROVE Fits(f)'
  <2>1. Pending(f)' \subseteq Pending(f)
    BY <1>1, <1>3 DEF Pending
  <2>2. f \in Inodes' /\ Fits(f) /\ Len(files'[f]) = Len(files[f])
    BY <1>1 DEF AllFit
  <2> QED
    BY <1>2, <2>1, <2>2, FitsStill
<1>4. ASSUME NEW f \in Inodes, f = here, ~Large(here) PROVE Fits(f)'
  <2>1. f # NoFile /\ Len(files[f]) \in Nat
    BY LenTypes
  <2>2. f \in Inodes' /\ Len(files'[f]) < MaxLines
    BY <1>1, <1>4, <2>1, EvidenceLogAssumption DEF Large
  <2> QED
    BY <2>2, FitsRoom
<1> QED
  BY <1>1, <1>3, <1>4 DEF AllFit

LEMMA RotateFits ==
  ASSUME TypeOK, TypeOK', AllFit, NEW t \in Threads, Rotate(t) \/ RotateRefused(t)
  PROVE  AllFit'
<1>1. /\ pc[t] = "rotate" /\ pc'[t] = "open" /\ UNCHANGED <<files, handle>> /\ Inodes' = Inodes
      /\ \A u \in Threads : u # t => pc'[u] = pc[u]
      /\ here' \in {here, NoFile}
  BY DEF Rotate, RotateRefused, fileVars, Inodes, TypeOK
<1>2. \A f \in Inodes : f # NoFile
  BY DEF TypeOK, Inodes, NoFile
<1>3. refused' = refused \/ (refused' = refused + 1 /\ here' = here)
  BY DEF Rotate, RotateRefused, fileVars
<1>4. refused' >= refused /\ refused \in Nat
  BY <1>3 DEF TypeOK
<1>5. ASSUME NEW f \in Inodes, here' # f PROVE Fits(f)'
  <2>1. Pending(f)' \subseteq Pending(f)
    BY <1>1, <1>2, <1>5 DEF Pending
  <2>2. f \in Inodes' /\ Fits(f) /\ Len(files'[f]) = Len(files[f])
    BY <1>1 DEF AllFit
  <2> QED
    BY <1>4, <2>1, <2>2, FitsStill
<1>6. ASSUME NEW f \in Inodes, here' = f PROVE Fits(f)'
  <2>1. here = f /\ refused' = refused + 1
    BY <1>1, <1>2, <1>6 DEF Rotate, RotateRefused
  <2>2. Pending(f)' \subseteq Pending(f) \cup {t}
    BY <1>1, <1>6, <2>1 DEF Pending
  <2>3. Pending(f) \subseteq Threads /\ Pending(f) \cup {t} \subseteq Threads
    BY DEF Pending
  <2>4. IsFiniteSet(Pending(f)) /\ IsFiniteSet(Pending(f) \cup {t})
    BY <2>3, PendingFinite
  <2>5. Cardinality(Pending(f) \cup {t}) <= Cardinality(Pending(f)) + 1
    BY <2>3, <2>4, FS_AddElement, PendingFinite
  <2>6. Cardinality(Pending(f)') <= Cardinality(Pending(f) \cup {t})
    BY <2>2, <2>4, FS_Subset
  <2>7. Pending(f)' \subseteq Threads
    BY DEF Pending
  <2>8. /\ Cardinality(Pending(f)') \in Nat /\ Cardinality(Pending(f)) \in Nat
        /\ Cardinality(Pending(f) \cup {t}) \in Nat /\ Cardinality(Threads) \in Nat
    BY <2>3, <2>7, PendingFinite
  <2>9. Len(files[f]) \in Nat /\ Len(files'[f]) = Len(files[f]) /\ Fits(f)
    BY <1>1, LenTypes DEF AllFit
  <2> QED
    BY <1>4, <2>1, <2>5, <2>6, <2>8, <2>9, EvidenceLogAssumption DEF Fits
<1> QED
  BY <1>1, <1>5, <1>6 DEF AllFit

LEMMA OpenFits ==
  ASSUME TypeOK, TypeOK', AllFit, NEW t \in Threads, Open(t)
  PROVE  AllFit'
<1>1. /\ pc[t] = "open" /\ pc'[t] = "write" /\ handle'[t] = here' /\ refused' = refused
      /\ \A u \in Threads : u # t => pc'[u] = pc[u] /\ handle'[u] = handle[u]
  BY DEF Open, Opened, histVars, TypeOK
<1>2. refused' >= refused
  BY <1>1 DEF TypeOK
<1>3. CASE here = NoFile
  <2>1. files' = Append(files, <<>>) /\ here' = Len(files) + 1
    BY <1>3 DEF Open
  <2>2. Inodes = 1..Len(files) /\ Len(files) \in Nat /\ files \in Seq(Seq(Piece))
    BY DEF TypeOK, Inodes
  <2>3. <<>> \in Seq(Piece)
    OBVIOUS
  <2>4. /\ Inodes' = 1..Len(files) + 1 /\ files'[here'] = <<>>
        /\ \A f \in Inodes : files'[f] = files[f]
    BY <2>1, <2>2, <2>3 DEF Inodes
  <2>5. ASSUME NEW f \in Inodes PROVE Fits(f)'
    <3>1. f # here' /\ f # NoFile
      BY <2>1, <2>2 DEF NoFile
    <3>2. Pending(f)' \subseteq Pending(f)
      BY <1>1, <3>1 DEF Pending
    <3>3. f \in Inodes' /\ Fits(f) /\ Len(files'[f]) = Len(files[f])
      BY <2>2, <2>4 DEF AllFit
    <3> QED
      BY <1>2, <3>2, <3>3, FitsStill
  <2>6. ASSUME NEW f \in Inodes', f = here' PROVE Fits(f)'
    <3>1. Len(files'[f]) < MaxLines
      BY <2>4, <2>6, EvidenceLogAssumption
    <3> QED
      BY <3>1, FitsRoom
  <2> QED
    BY <2>1, <2>2, <2>4, <2>5, <2>6 DEF AllFit
<1>4. CASE here # NoFile
  <2>1. UNCHANGED <<files, here>> /\ Inodes' = Inodes
    BY <1>4 DEF Open, Inodes
  <2>2. ASSUME NEW f \in Inodes PROVE Fits(f)'
    <3>1. Pending(f)' \subseteq Pending(f)
      BY <1>1, <2>1 DEF Pending
    <3>2. f \in Inodes' /\ Fits(f) /\ Len(files'[f]) = Len(files[f])
      BY <2>1 DEF AllFit
    <3> QED
      BY <1>2, <3>1, <3>2, FitsStill
  <2> QED
    BY <2>1, <2>2 DEF AllFit
<1> QED
  BY <1>3, <1>4

(* Some threads leave; one of them may have written.                       *)
LEMMA LeaveFits ==
  ASSUME TypeOK, TypeOK', AllFit, NEW T, T \subseteq Threads, refused' = refused, here' = here,
         \A u \in T : pc'[u] = "idle",
         \A u \in Threads \ T : pc'[u] = pc[u] /\ handle'[u] = handle[u],
         \/ UNCHANGED files
         \/ \E t \in T : \E piece \in Piece :
              pc[t] = "write" /\ handle[t] \in Inodes /\ files' = Puts(handle[t], piece)
  PROVE  AllFit'
<1>1. \A f : Pending(f)' \subseteq Pending(f) \ T
  BY DEF Pending
<1>2. refused' >= refused
  BY DEF TypeOK
<1>3. CASE UNCHANGED files
  <2>1. ASSUME NEW f \in Inodes PROVE Fits(f)'
    <3>1. f \in Inodes' /\ Fits(f) /\ Len(files'[f]) = Len(files[f])
      BY <1>3 DEF AllFit, Inodes
    <3>2. Pending(f)' \subseteq Pending(f)
      BY <1>1
    <3> QED
      BY <1>2, <3>1, <3>2, FitsStill
  <2> QED
    BY <1>3, <2>1 DEF AllFit, Inodes
<1>4. ASSUME NEW t \in T, NEW piece \in Piece, pc[t] = "write", handle[t] \in Inodes,
             files' = Puts(handle[t], piece)
      PROVE  AllFit'
  <2>1. FilesOK
    BY TypeOKParts
  <2>2. /\ Inodes' = Inodes /\ Len(files'[handle[t]]) = Len(files[handle[t]]) + 1
        /\ \A g \in Inodes : g # handle[t] => files'[g] = files[g]
    BY <1>4, <2>1, PutsTypes DEF Inodes
  <2>3. ASSUME NEW f \in Inodes PROVE Fits(f)'
    <3>1. f \in Inodes' /\ Fits(f)
      BY <2>2 DEF AllFit
    <3>2. CASE f # handle[t]
      <4>1. Len(files'[f]) = Len(files[f]) /\ Pending(f)' \subseteq Pending(f)
        BY <1>1, <2>2, <3>2
      <4> QED
        BY <1>2, <3>1, <4>1, FitsStill
    <3>3. CASE f = handle[t]
      <4>1. t \in Pending(f) /\ Pending(f)' \subseteq Pending(f) \ {t}
        BY <1>1, <1>4, <3>3 DEF Pending
      <4>2. Len(files'[f]) = Len(files[f]) + 1
        BY <2>2, <3>3
      <4> QED
        BY <3>1, <4>1, <4>2, FitsWritten
    <3> QED
      BY <3>2, <3>3
  <2> QED
    BY <2>2, <2>3 DEF AllFit
<1> QED
  BY <1>3, <1>4

LEMMA WriteFits ==
  ASSUME TypeOK, TypeOK', AllFit, NEW t \in Threads, Write(t) \/ WriteFails(t)
  PROVE  AllFit'
<1>1. handle[t] \in Inodes /\ rec[t] \in Rec /\ pc[t] = "write"
  BY DEF Write, WriteFails, TypeOK
<1>2. \/ UNCHANGED files
      \/ \E kind \in {"line", "bare", "cut"} :
           files' = Puts(handle[t], [rec |-> rec[t], kind |-> kind])
  BY DEF Write, WriteFails, Line
<1>3. \A kind \in {"line", "bare", "cut"} : [rec |-> rec[t], kind |-> kind] \in Piece
  BY <1>1 DEF Piece
<1>4. UNCHANGED files \/ \E piece \in Piece : files' = Puts(handle[t], piece)
  BY <1>2, <1>3
<1>5. /\ refused' = refused /\ here' = here /\ pc'[t] = "idle"
      /\ \A u \in Threads \ {t} : pc'[u] = pc[u] /\ handle'[u] = handle[u]
  BY DEF Write, WriteFails, Leave, histVars, TypeOK
<1>6. {t} \subseteq Threads
  OBVIOUS
<1> QED
  BY <1>1, <1>4, <1>5, <1>6, LeaveFits

LEMMA CrashFits ==
  ASSUME TypeOK, TypeOK', AllFit, NEW p \in Procs, Crash(p)
  PROVE  AllFit'
<1> DEFINE T == {u \in Threads : ProcOf[u] = p}
<1>1. /\ refused' = refused /\ here' = here
      /\ \A u \in T : pc'[u] = "idle"
      /\ \A u \in Threads \ T : pc'[u] = pc[u] /\ handle'[u] = handle[u]
  BY DEF Crash, histVars, TypeOK
<1>2. ASSUME ~UNCHANGED files
      PROVE  \E t \in T : \E piece \in Piece :
               pc[t] = "write" /\ handle[t] \in Inodes /\ files' = Puts(handle[t], piece)
  <2>1. PICK t \in Threads, kind \in {"bare", "cut"} :
          /\ ProcOf[t] = p /\ pc[t] = "write"
          /\ files' = Puts(handle[t], [rec |-> rec[t], kind |-> kind])
    BY <1>2 DEF Crash
  <2>2. handle[t] \in Inodes /\ rec[t] \in Rec
    BY <2>1 DEF TypeOK
  <2>3. [rec |-> rec[t], kind |-> kind] \in Piece
    BY <2>2 DEF Piece
  <2> QED
    BY <2>1, <2>2, <2>3
<1>3. T \subseteq Threads
  OBVIOUS
<1> HIDE DEF T
<1> QED
  BY <1>1, <1>2, <1>3, LeaveFits

-----------------------------------------------------------------------------

(* No step shortens a file.                                                *)
LEMMA PutsGrow ==
  ASSUME TypeOK, NEW f \in Inodes, NEW piece \in Piece, files' = Puts(f, piece)
  PROVE  Inodes' = Inodes /\ \A g \in Inodes : Len(files'[g]) >= Len(files[g])
<1>1. FilesOK
  BY TypeOKParts
<1>2. /\ Inodes' = Inodes /\ Len(files'[f]) = Len(files[f]) + 1
      /\ \A g \in Inodes : g # f => files'[g] = files[g]
  BY <1>1, PutsTypes DEF Inodes
<1>3. \A g \in Inodes : Len(files[g]) \in Nat
  BY LenTypes
<1>4. ASSUME NEW g \in Inodes PROVE Len(files'[g]) >= Len(files[g])
  <2>1. CASE g = f
    BY <1>2, <1>3, <2>1
  <2>2. CASE g # f
    BY <1>2, <1>3, <2>2
  <2> QED
    BY <2>1, <2>2
<1> QED
  BY <1>2, <1>4

LEMMA FilesGrow ==
  ASSUME TypeOK, [Next]_vars
  PROVE  \A f \in Inodes : f \in Inodes' /\ Len(files'[f]) >= Len(files[f])
<1>1. CASE UNCHANGED files
  <2>1. \A f \in Inodes : Len(files[f]) \in Nat
    BY LenTypes
  <2> QED
    BY <1>1, <2>1 DEF Inodes
<1>2. ASSUME NEW t \in Threads, Open(t), here = NoFile
      PROVE  \A f \in Inodes : f \in Inodes' /\ Len(files'[f]) >= Len(files[f])
  <2>1. files' = Append(files, <<>>) /\ Inodes = 1..Len(files) /\ files \in Seq(Seq(Piece))
    BY <1>2 DEF Open, TypeOK, Inodes
  <2>2. <<>> \in Seq(Piece)
    OBVIOUS
  <2>3. Inodes' = 1..Len(files) + 1 /\ \A f \in Inodes : files'[f] = files[f]
    BY <2>1, <2>2 DEF Inodes
  <2>4. \A f \in Inodes : Len(files[f]) \in Nat
    BY LenTypes
  <2> QED
    BY <2>1, <2>3, <2>4
<1>3. ASSUME NEW t \in Threads, NEW kind \in {"line", "bare", "cut"}, pc[t] = "write",
             files' = Puts(handle[t], [rec |-> rec[t], kind |-> kind])
      PROVE  \A f \in Inodes : f \in Inodes' /\ Len(files'[f]) >= Len(files[f])
  <2>1. handle[t] \in Inodes /\ rec[t] \in Rec
    BY <1>3 DEF TypeOK
  <2>2. [rec |-> rec[t], kind |-> kind] \in Piece
    BY <2>1 DEF Piece
  <2> QED
    BY <1>3, <2>1, <2>2, PutsGrow
<1>4. ASSUME NEW t \in Threads, AppendJsonl(t)
      PROVE  \A f \in Inodes : f \in Inodes' /\ Len(files'[f]) >= Len(files[f])
  BY <1>1, <1>2, <1>3, <1>4 DEF AppendJsonl, Measure, Rotate, RotateRefused, Open, Write, WriteFails,
     Line, fileVars
<1>5. ASSUME NEW p \in Procs, Crash(p)
      PROVE  \A f \in Inodes : f \in Inodes' /\ Len(files'[f]) >= Len(files[f])
  BY <1>1, <1>3, <1>5 DEF Crash
<1>6. UNCHANGED vars => UNCHANGED files
  BY DEF vars, fileVars
<1> QED
  BY <1>1, <1>4, <1>5, <1>6 DEF Next

(* A thread that is about to rotate has measured a full file, and only it  *)
(* goes away, unless the path changed hands in between.                    *)
LEMMA RotatesFullStep ==
  ASSUME TypeOK, TypeOK', RotatesFull, [Next]_vars
  PROVE  RotatesFull'
<1>1. ASSUME NEW f \in Inodes, Len(files[f]) >= MaxLines PROVE Len(files'[f]) >= MaxLines
  <2>1. f \in Inodes' /\ Len(files'[f]) >= Len(files[f])
    BY FilesGrow
  <2>2. Len(files'[f]) \in Nat /\ Len(files[f]) \in Nat
    <3>1. files'[f] \in Seq(Piece)
      BY <2>1 DEF TypeOK, Inodes
    <3> QED
      BY <3>1, LenTypes
  <2> QED
    BY <1>1, <2>1, <2>2, EvidenceLogAssumption
<1>2. ASSUME NEW u \in Threads, pc'[u] = "rotate"
      PROVE  handle'[u] \in Inodes /\ Len(files[handle'[u]]) >= MaxLines
  <2>1. CASE pc[u] = "rotate" /\ handle'[u] = handle[u]
    BY <2>1 DEF RotatesFull, TypeOK
  <2>2. CASE Measure(u)
    <3>1. Large(here) /\ handle'[u] = here
      BY <1>2, <2>2 DEF Measure, TypeOK
    <3> QED
      BY <3>1 DEF Large, TypeOK
  <2>3. ASSUME NEW t \in Threads, AppendJsonl(t), u # t
        PROVE  pc[u] = "rotate" /\ handle'[u] = handle[u]
    BY <1>2, <2>3 DEF AppendJsonl, Measure, Rotate, RotateRefused, Open, Write, WriteFails, Leave, TypeOK
  <2>4. AppendJsonl(u) => Measure(u)
    BY <1>2 DEF AppendJsonl, Rotate, RotateRefused, Open, Write, WriteFails, Leave, TypeOK
  <2>5. ASSUME NEW p \in Procs, Crash(p) PROVE pc[u] = "rotate" /\ handle'[u] = handle[u]
    BY <1>2, <2>5 DEF Crash, TypeOK
  <2>6. UNCHANGED vars => pc[u] = "rotate" /\ handle'[u] = handle[u]
    BY <1>2 DEF vars, threadVars
  <2> QED
    BY <2>1, <2>2, <2>3, <2>4, <2>5, <2>6 DEF Next
<1>3. \A u \in Threads : pc'[u] = "rotate" => Len(files'[handle'[u]]) >= MaxLines
  BY <1>1, <1>2
<1>4. ASSUME old' # NoFile, ~raced' PROVE Len(files'[old']) >= MaxLines
  <2>1. CASE old' = old /\ raced' = raced
    <3>1. old \in Inodes /\ Len(files[old]) >= MaxLines
      <4>1. ~raced /\ old # NoFile
        BY <1>4, <2>1
      <4> QED
        BY <4>1 DEF RotatesFull, TypeOK
    <3> QED
      BY <1>1, <2>1, <3>1
  <2>2. ASSUME NEW t \in Threads, Rotate(t) PROVE Len(files'[old']) >= MaxLines
    <3>1. pc[t] = "rotate" /\ here # NoFile /\ old' = here
      BY <2>2 DEF Rotate
    <3>2. here = handle[t]
      BY <1>4, <2>2 DEF Rotate
    <3>3. old' = handle[t] /\ handle[t] \in Inodes /\ Len(files[handle[t]]) >= MaxLines
      BY <3>1, <3>2 DEF RotatesFull, TypeOK
    <3> QED
      BY <1>1, <3>3
  <2>3. ASSUME NEW t \in Threads, AppendJsonl(t), ~Rotate(t) PROVE old' = old /\ raced' = raced
    BY <2>3 DEF AppendJsonl, Measure, RotateRefused, Open, Write, WriteFails, fileVars, histVars
  <2>4. ASSUME NEW p \in Procs, Crash(p) PROVE old' = old /\ raced' = raced
    BY <2>4 DEF Crash, histVars
  <2>5. UNCHANGED vars => old' = old /\ raced' = raced
    BY DEF vars, fileVars, histVars
  <2> QED
    BY <2>1, <2>2, <2>3, <2>4, <2>5 DEF Next
<1> QED
  BY <1>3, <1>4 DEF RotatesFull

-----------------------------------------------------------------------------

LogIInv == TypeOK /\ AllFit /\ RotatesFull

LEMMA LogInit == Init => LogIInv
<1> SUFFICES ASSUME Init PROVE LogIInv
  OBVIOUS
<1>1. AllFit
  BY DEF Init, AllFit, Inodes
<1>2. RotatesFull
  BY DEF Init, RotatesFull, NoFile
<1> QED
  BY <1>1, <1>2, InitTypes DEF LogIInv

LEMMA LogStep ==
  ASSUME LogIInv, [Next]_vars
  PROVE  LogIInv'
<1> USE DEF LogIInv
<1>1. TypeOK'
  BY TypeOKStep
<1>2. RotatesFull'
  BY <1>1, RotatesFullStep
<1>3. AllFit'
  <2>1. CASE UNCHANGED vars
    BY <2>1 DEF vars, threadVars, fileVars, histVars, AllFit, Fits, Pending, Inodes
  <2> QED
    BY <1>1, <2>1, MeasureFits, RotateFits, OpenFits, WriteFits, CrashFits DEF Next, AppendJsonl
<1> QED
  BY <1>1, <1>2, <1>3

LEMMA LogSized == LogIInv => RotatedWhenFull
<1> SUFFICES ASSUME LogIInv PROVE RotatedWhenFull
  OBVIOUS
<1>1. ASSUME NEW f \in Inodes
      PROVE  Len(files[f]) < MaxLines + Cardinality(Threads) + refused
  <2>1. Pending(f) \subseteq Threads
    BY DEF Pending
  <2>2. Cardinality(Pending(f)) \in Nat /\ Cardinality(Threads) \in Nat
    BY <2>1, PendingFinite
  <2>3. Fits(f) /\ Len(files[f]) \in Nat /\ refused \in Nat
    BY LenTypes DEF LogIInv, AllFit, TypeOK
  <2> QED
    BY <2>2, <2>3, EvidenceLogAssumption DEF Fits
<1> QED
  BY <1>1 DEF LogIInv, RotatesFull, RotatedWhenFull

(* "rotating once it gets large so a long-lived install can't fill a       *)
(* disk": whatever the number of writers, a file never exceeds its limit   *)
(* by more than one line for each of them and one for each refused rename, *)
(* and the file kept beside the log is a full one.                         *)
THEOREM LogStaysSmall == Spec => []RotatedWhenFull
BY LogInit, LogStep, LogSized, PTL DEF Spec

-----------------------------------------------------------------------------
(* The evidence of a session.                                              *)

(* Who was handed to the log has the run and the number of it.             *)
Handed(r) == r.run \in 1..runs /\ r.seq <= seq[r.run]

AllHanded ==
  /\ \A t \in Threads : pc[t] # "idle" => Handed(rec[t])
  /\ \A f \in Inodes : \A i \in DOMAIN files[f] : Handed(files[f][i].rec)
  /\ \A r \in acked : Handed(r)

(* A record lies in one place: with the thread that appends it, or once in *)
(* a file.                                                                 *)
OnlyOnce ==
  /\ \A t, u \in Threads : pc[t] # "idle" /\ pc[u] # "idle" /\ t # u => rec[t] # rec[u]
  /\ \A t \in Threads : pc[t] # "idle" =>
       /\ rec[t] \notin acked
       /\ \A f \in Inodes : \A i \in DOMAIN files[f] : files[f][i].rec # rec[t]
  /\ \A f \in Inodes : \A i, j \in DOMAIN files[f] : files[f][i].rec = files[f][j].rec => i = j

(* What append_jsonl said it wrote is a whole line.                        *)
AckedWhole ==
  \A f \in Inodes : \A i \in DOMAIN files[f] :
    files[f][i].rec \in acked => files[f][i].kind = "line"

RecordsInv == AllHanded /\ OnlyOnce /\ AckedWhole

(* How many records a run has handed over never goes back.                 *)
LEMMA HandedStays ==
  ASSUME RunsOK, RunsOK', NEW r \in Rec, Handed(r), runs' \in Nat, runs' >= runs,
         \A n \in 1..runs : seq'[n] >= seq[n]
  PROVE  Handed(r)'
<1>1. r.run \in 1..runs /\ r.seq \in Nat /\ r.seq <= seq[r.run]
  BY DEF Handed, Rec
<1>2. r.run \in 1..runs' /\ seq[r.run] \in Nat /\ seq'[r.run] \in Nat
  BY <1>1 DEF RunsOK
<1> QED
  BY <1>1, <1>2 DEF Handed

(* What is where, in the terms of the types.                               *)
LEMMA RecordTypes ==
  ASSUME TypeOK
  PROVE  /\ \A t \in Threads : pc[t] # "idle" => rec[t] \in Rec
         /\ \A f \in Inodes : \A i \in DOMAIN files[f] :
              files[f][i] \in Piece /\ files[f][i].rec \in Rec
         /\ \A r \in acked : r \in Rec
<1>1. ASSUME NEW f \in Inodes, NEW i \in DOMAIN files[f]
      PROVE  files[f][i] \in Piece /\ files[f][i].rec \in Rec
  <2>1. files[f] \in Seq(Piece)
    BY DEF TypeOK, Inodes
  <2>2. files[f][i] \in Piece
    BY <2>1
  <2> QED
    BY <2>2 DEF Piece
<1> QED
  BY <1>1 DEF TypeOK

(* A thread is handed the next record of its run.                          *)
LEMMA MeasureRecords ==
  ASSUME TypeOK, TypeOK', RecordsInv, NEW t \in Threads, Measure(t)
  PROVE  RecordsInv'
<1> DEFINE r == run[ProcOf[t]]
           new == [run |-> r, seq |-> seq[r] + 1]
<1>0. RunsOK /\ RunsOK'
  BY TypeOKParts, TypeOKPartsNext
<1>1. r \in 1..runs /\ r \in Nat \ {0} /\ seq[r] \in Nat
  BY EvidenceLogAssumption, <1>0 DEF RunsOK
<1>2. /\ seq' = [seq EXCEPT ![r] = seq[r] + 1]
      /\ rec' = [rec EXCEPT ![t] = new]
      /\ pc[t] = "idle" /\ pc'[t] \in {"rotate", "open"}
      /\ \A u \in Threads : u # t => pc'[u] = pc[u] /\ rec'[u] = rec[u]
      /\ rec'[t] = new
      /\ UNCHANGED <<files, run, runs, acked>>
  BY DEF Measure, TypeOK, fileVars, histVars
<1>3. new \in Rec /\ new.run = r /\ new.seq = seq[r] + 1
  BY <1>1 DEF Rec
<1> HIDE DEF r, new
<1>4. /\ \A n \in 1..runs : seq'[n] >= seq[n]
      /\ seq'[r] = seq[r] + 1
      /\ Inodes' = Inodes
  BY <1>0, <1>1, <1>2 DEF RunsOK, Inodes
<1> DEFINE Later(x) == x.run \in 1..runs' /\ x.seq <= seq'[x.run]
<1>5. ASSUME NEW x \in Rec, Handed(x) PROVE Later(x) /\ x # new
  <2>1. runs' \in Nat /\ runs' >= runs
    BY <1>0, <1>2 DEF RunsOK
  <2>2. Handed(x)'
    BY <1>0, <1>4, <1>5, <2>1, HandedStays
  <2>3. x # new
    <3>1. x = new => seq[r] + 1 <= seq[r]
      BY <1>3, <1>5 DEF Handed
    <3> QED
      BY <1>1, <3>1
  <2> QED
    BY <2>2, <2>3 DEF Handed
<1>6. Later(new)
  <2>1. new.seq <= seq'[r] /\ r \in 1..runs'
    BY <1>1, <1>2, <1>3, <1>4
  <2> QED
    BY <1>3, <2>1
<1> HIDE DEF Later
<1>7. /\ \A u \in Threads : pc[u] # "idle" => Later(rec[u]) /\ rec[u] # new
      /\ \A f \in Inodes : \A i \in DOMAIN files[f] :
           Later(files[f][i].rec) /\ files[f][i].rec # new
      /\ \A x \in acked : Later(x) /\ x # new
  BY <1>5, RecordTypes DEF RecordsInv, AllHanded
<1>8. AllHanded'
  <2>1. \A u \in Threads : pc'[u] # "idle" => Later(rec'[u])
    BY <1>2, <1>6, <1>7
  <2>2. \A f \in Inodes' : \A i \in DOMAIN files'[f] : Later(files'[f][i].rec)
    BY <1>2, <1>4, <1>7
  <2>3. \A x \in acked' : Later(x)
    BY <1>2, <1>7
  <2> QED
    BY <2>1, <2>2, <2>3 DEF AllHanded, Handed, Later
<1>9. OnlyOnce'
  BY <1>2, <1>4, <1>7 DEF RecordsInv, OnlyOnce
<1>10. AckedWhole'
  BY <1>2, <1>4 DEF RecordsInv, AckedWhole
<1> QED
  BY <1>8, <1>9, <1>10 DEF RecordsInv

(* Nobody's record changes, and no file.                                   *)
LEMMA SameRecords ==
  ASSUME RecordsInv, UNCHANGED <<files, rec, run, seq, runs, acked>>,
         \A t \in Threads : pc'[t] = "idle" <=> pc[t] = "idle"
  PROVE  RecordsInv'
<1>1. Inodes' = Inodes
  BY DEF Inodes
<1>2. AllHanded'
  BY <1>1 DEF RecordsInv, AllHanded, Handed
<1>3. OnlyOnce'
  BY <1>1 DEF RecordsInv, OnlyOnce
<1>4. AckedWhole'
  BY <1>1 DEF RecordsInv, AckedWhole
<1> QED
  BY <1>2, <1>3, <1>4 DEF RecordsInv

LEMMA OpenRecords ==
  ASSUME TypeOK, RecordsInv, NEW t \in Threads, Open(t)
  PROVE  RecordsInv'
<1>1. /\ pc[t] = "open" /\ pc'[t] = "write"
      /\ \A u \in Threads : u # t => pc'[u] = pc[u]
      /\ UNCHANGED <<rec, run, seq, runs, acked>>
  BY DEF Open, TypeOK, runVars, histVars
<1>2. CASE here # NoFile
  BY <1>1, <1>2, SameRecords DEF Open
<1>3. CASE here = NoFile
  <2>1. files' = Append(files, <<>>) /\ Inodes = 1..Len(files) /\ files \in Seq(Seq(Piece))
    BY <1>3 DEF Open, TypeOK, Inodes
  <2>2. <<>> \in Seq(Piece)
    OBVIOUS
  <2>3. /\ Inodes' = 1..Len(files) + 1 /\ \A f \in Inodes : files'[f] = files[f]
        /\ files'[Len(files) + 1] = <<>>
    BY <2>1, <2>2 DEF Inodes
  <2>4. \A f \in Inodes' : (f \in Inodes /\ files'[f] = files[f]) \/ DOMAIN files'[f] = {}
    BY <2>1, <2>3
  <2> HIDE DEF Inodes
  <2>5. AllHanded'
    BY <1>1, <2>4 DEF RecordsInv, AllHanded, Handed
  <2>6. OnlyOnce'
    BY <1>1, <2>4 DEF RecordsInv, OnlyOnce
  <2>7. AckedWhole'
    BY <1>1, <2>4 DEF RecordsInv, AckedWhole
  <2> QED
    BY <2>5, <2>6, <2>7 DEF RecordsInv
<1> QED
  BY <1>2, <1>3

(* Some threads leave; one of them may have left a piece of its record in  *)
(* the file it has open, and is told so only if it is the whole line.      *)
LEMMA LeaveRecords ==
  ASSUME TypeOK, TypeOK', RecordsInv, NEW T, T \subseteq Threads,
         runs' >= runs, \A n \in 1..runs : seq'[n] >= seq[n],
         \A u \in T : pc'[u] = "idle",
         \A u \in Threads \ T : pc'[u] = pc[u] /\ rec'[u] = rec[u],
         \/ UNCHANGED <<files, acked>>
         \/ \E t \in T : \E piece \in Piece :
              /\ pc[t] = "write" /\ handle[t] \in Inodes /\ piece.rec = rec[t]
              /\ files' = Puts(handle[t], piece)
              /\ \/ acked' = acked
                 \/ acked' = acked \cup {rec[t]} /\ piece.kind = "line"
  PROVE  RecordsInv'
<1> DEFINE Later(x) == x.run \in 1..runs' /\ x.seq <= seq'[x.run]
<1>0. RunsOK /\ RunsOK' /\ FilesOK
  BY TypeOKParts, TypeOKPartsNext
<1>1. ASSUME NEW x \in Rec, Handed(x) PROVE Later(x)
  <2>1. runs' \in Nat
    BY <1>0 DEF RunsOK
  <2>2. Handed(x)'
    BY <1>0, <1>1, <2>1, HandedStays
  <2> QED
    BY <2>2 DEF Handed
<1> HIDE DEF Later
<1>2. /\ \A u \in Threads : pc[u] # "idle" => Later(rec[u])
      /\ \A f \in Inodes : \A i \in DOMAIN files[f] : Later(files[f][i].rec)
      /\ \A x \in acked : Later(x)
  BY <1>1, RecordTypes DEF RecordsInv, AllHanded
<1>3. \A u \in Threads : pc'[u] # "idle" => u \notin T /\ pc[u] # "idle" /\ rec'[u] = rec[u]
  OBVIOUS
<1>4. CASE UNCHANGED <<files, acked>>
  <2>1. Inodes' = Inodes
    BY <1>4 DEF Inodes
  <2>2. AllHanded'
    <3>1. \A u \in Threads : pc'[u] # "idle" => Later(rec'[u])
      BY <1>2, <1>3
    <3> QED
      BY <1>2, <1>4, <2>1, <3>1 DEF AllHanded, Handed, Later
  <2>3. OnlyOnce'
    BY <1>3, <1>4, <2>1 DEF RecordsInv, OnlyOnce
  <2>4. AckedWhole'
    BY <1>4, <2>1 DEF RecordsInv, AckedWhole
  <2> QED
    BY <2>2, <2>3, <2>4 DEF RecordsInv
<1>5. ASSUME NEW t \in T, NEW piece \in Piece, pc[t] = "write", handle[t] \in Inodes,
             piece.rec = rec[t], files' = Puts(handle[t], piece),
             acked' = acked \/ (acked' = acked \cup {rec[t]} /\ piece.kind = "line")
      PROVE  RecordsInv'
  <2> DEFINE g == handle[t]
             n == Len(files[g]) + 1
  <2>1. /\ Inodes' = Inodes
        /\ \A f \in Inodes : f # g => files'[f] = files[f]
        /\ files'[g] = Append(files[g], piece)
        /\ files[g] \in Seq(Piece)
    <3>1. files[g] \in Seq(Piece) /\ files \in Seq(Seq(Piece)) /\ g \in 1..Len(files)
      BY <1>0, <1>5 DEF FilesOK, Inodes
    <3>2. files' = [files EXCEPT ![g] = Append(files[g], piece)]
      BY <1>5 DEF Puts
    <3> QED
      BY <1>0, <1>5, <3>1, <3>2, PutsTypes DEF Inodes
  <2>2. /\ n \in Nat /\ DOMAIN files[g] = 1..(n - 1) /\ DOMAIN files'[g] = 1..n
        /\ n \notin DOMAIN files[g]
        /\ files'[g][n] = piece /\ \A i \in DOMAIN files[g] : files'[g][i] = files[g][i]
    BY <2>1
  <2>3. ASSUME NEW f \in Inodes', NEW i \in DOMAIN files'[f]
        PROVE  /\ f \in Inodes
               /\ \/ i \in DOMAIN files[f] /\ files'[f][i] = files[f][i]
                  \/ f = g /\ i = n /\ files'[f][i] = piece
    <3>1. f \in Inodes
      BY <2>1
    <3>2. CASE f # g
      BY <2>1, <3>1, <3>2
    <3>3. CASE f = g
      <4>1. i \in 1..n /\ (i = n \/ i \in 1..(n - 1))
        BY <2>2, <3>3
      <4> QED
        BY <2>2, <3>1, <3>3, <4>1
    <3> QED
      BY <3>1, <3>2, <3>3
  <2> HIDE DEF g, n
  <2>4. t \in Threads /\ pc[t] # "idle"
    BY <1>5
  <2>5. AllHanded'
    <3>1. \A u \in Threads : pc'[u] # "idle" => Later(rec'[u])
      BY <1>2, <1>3
    <3>2. \A f \in Inodes' : \A i \in DOMAIN files'[f] : Later(files'[f][i].rec)
      BY <1>2, <1>5, <2>3, <2>4
    <3>3. \A x \in acked' : Later(x)
      BY <1>2, <1>5, <2>4
    <3> QED
      BY <3>1, <3>2, <3>3 DEF AllHanded, Handed, Later
  <2>6. OnlyOnce'
    <3>1. \A u, v \in Threads : pc'[u] # "idle" /\ pc'[v] # "idle" /\ u # v => rec'[u] # rec'[v]
      BY <1>3 DEF RecordsInv, OnlyOnce
    <3>2. ASSUME NEW u \in Threads, pc'[u] # "idle"
          PROVE  /\ rec'[u] \notin acked'
                 /\ \A f \in Inodes' : \A i \in DOMAIN files'[f] : files'[f][i].rec # rec'[u]
      <4>1. u # t /\ rec'[u] = rec[u] /\ rec[u] # rec[t] /\ pc[u] # "idle"
        BY <1>3, <1>5, <2>4, <3>2 DEF RecordsInv, OnlyOnce
      <4> QED
        BY <1>5, <2>3, <4>1 DEF RecordsInv, OnlyOnce
    <3>3. ASSUME NEW f \in Inodes', NEW i \in DOMAIN files'[f], NEW j \in DOMAIN files'[f],
                 files'[f][i].rec = files'[f][j].rec
          PROVE  i = j
      <4>1. \A k \in DOMAIN files[f] : files[f][k].rec # rec[t]
        BY <2>3, <2>4 DEF RecordsInv, OnlyOnce
      <4>2. \A k, l \in DOMAIN files[f] : files[f][k].rec = files[f][l].rec => k = l
        BY <2>3 DEF RecordsInv, OnlyOnce
      <4>3. /\ \/ i \in DOMAIN files[f] /\ files'[f][i] = files[f][i]
               \/ i = n /\ files'[f][i].rec = rec[t]
            /\ \/ j \in DOMAIN files[f] /\ files'[f][j] = files[f][j]
               \/ j = n /\ files'[f][j].rec = rec[t]
        BY <1>5, <2>3
      <4> QED
        BY <3>3, <4>1, <4>2, <4>3
    <3> QED
      BY <3>1, <3>2, <3>3 DEF OnlyOnce
  <2>7. AckedWhole'
    <3>1. ASSUME NEW f \in Inodes', NEW i \in DOMAIN files'[f], files'[f][i].rec \in acked'
          PROVE  files'[f][i].kind = "line"
      <4>1. rec[t] \notin acked
            /\ \A h \in Inodes : \A k \in DOMAIN files[h] : files[h][k].rec # rec[t]
        BY <2>4 DEF RecordsInv, OnlyOnce
      <4>2. CASE i \in DOMAIN files[f] /\ files'[f][i] = files[f][i]
        BY <1>5, <2>3, <3>1, <4>1, <4>2 DEF RecordsInv, AckedWhole
      <4>3. CASE files'[f][i] = piece
        BY <1>5, <3>1, <4>1, <4>3
      <4> QED
        BY <2>3, <4>2, <4>3
    <3> QED
      BY <3>1 DEF AckedWhole
  <2> QED
    BY <2>5, <2>6, <2>7 DEF RecordsInv
<1> QED
  BY <1>4, <1>5

LEMMA WriteRecords ==
  ASSUME TypeOK, TypeOK', RecordsInv, NEW t \in Threads, Write(t) \/ WriteFails(t)
  PROVE  RecordsInv'
<1>1. handle[t] \in Inodes /\ rec[t] \in Rec /\ pc[t] = "write"
  BY DEF Write, WriteFails, TypeOK
<1>2. \A kind \in {"line", "bare", "cut"} : [rec |-> rec[t], kind |-> kind] \in Piece
  BY <1>1 DEF Piece
<1>3. /\ UNCHANGED <<run, seq, runs>> /\ pc'[t] = "idle"
      /\ \A u \in Threads \ {t} : pc'[u] = pc[u] /\ rec'[u] = rec[u]
  BY DEF Write, WriteFails, Leave, runVars, TypeOK
<1>4. runs' >= runs /\ \A n \in 1..runs : seq'[n] >= seq[n]
  BY <1>3 DEF TypeOK
<1>5. \/ UNCHANGED <<files, acked>>
      \/ \E piece \in Piece :
           /\ piece.rec = rec[t] /\ files' = Puts(handle[t], piece)
           /\ \/ acked' = acked
              \/ acked' = acked \cup {rec[t]} /\ piece.kind = "line"
  BY <1>2 DEF Write, WriteFails, Line, histVars
<1>6. {t} \subseteq Threads
  OBVIOUS
<1> QED
  BY <1>1, <1>3, <1>4, <1>5, <1>6, LeaveRecords

LEMMA CrashRecords ==
  ASSUME TypeOK, TypeOK', RecordsInv, NEW p \in Procs, Crash(p)
  PROVE  RecordsInv'
<1> DEFINE T == {u \in Threads : ProcOf[u] = p}
<1>1. /\ \A u \in T : pc'[u] = "idle"
      /\ \A u \in Threads \ T : pc'[u] = pc[u] /\ rec'[u] = rec[u]
      /\ acked' = acked
  BY DEF Crash, histVars, TypeOK
<1>2. runs' >= runs /\ \A n \in 1..runs : seq'[n] >= seq[n]
  <2>0. RunsOK
    BY TypeOKParts
  <2>1. seq \in Seq(Nat) /\ Len(seq) = runs /\ runs \in Nat
    BY <2>0 DEF RunsOK
  <2>2. seq' = Append(seq, 0) /\ runs' = runs + 1
    BY DEF Crash
  <2>3. \A n \in 1..runs : seq'[n] = seq[n] /\ seq[n] \in Nat
    BY <2>1, <2>2
  <2> QED
    BY <2>1, <2>2, <2>3
<1>3. ASSUME ~UNCHANGED files
      PROVE  \E t \in T : \E piece \in Piece :
               /\ pc[t] = "write" /\ handle[t] \in Inodes /\ piece.rec = rec[t]
               /\ files' = Puts(handle[t], piece)
  <2>1. PICK t \in Threads, kind \in {"bare", "cut"} :
          /\ ProcOf[t] = p /\ pc[t] = "write"
          /\ files' = Puts(handle[t], [rec |-> rec[t], kind |-> kind])
    BY <1>3 DEF Crash
  <2>2. handle[t] \in Inodes /\ rec[t] \in Rec
    BY <2>1 DEF TypeOK
  <2>3. [rec |-> rec[t], kind |-> kind] \in Piece
    BY <2>2 DEF Piece
  <2> QED
    BY <2>1, <2>2, <2>3
<1>4. T \subseteq Threads
  OBVIOUS
<1> HIDE DEF T
<1>5. \/ UNCHANGED <<files, acked>>
      \/ \E t \in T : \E piece \in Piece :
           /\ pc[t] = "write" /\ handle[t] \in Inodes /\ piece.rec = rec[t]
           /\ files' = Puts(handle[t], piece)
           /\ acked' = acked
  BY <1>1, <1>3
<1> QED
  BY <1>1, <1>2, <1>4, <1>5, LeaveRecords

LEMMA RecordsStep ==
  ASSUME TypeOK, TypeOK', RecordsInv, [Next]_vars
  PROVE  RecordsInv'
<1>1. CASE UNCHANGED vars
  BY <1>1, SameRecords DEF vars, threadVars, fileVars, runVars, histVars
<1>2. ASSUME NEW t \in Threads, Rotate(t) \/ RotateRefused(t) PROVE RecordsInv'
  <2>1. /\ UNCHANGED <<files, rec, run, seq, runs, acked>>
        /\ \A u \in Threads : pc'[u] = "idle" <=> pc[u] = "idle"
    BY <1>2 DEF Rotate, RotateRefused, fileVars, runVars, TypeOK
  <2> QED
    BY <2>1, SameRecords
<1> QED
  BY <1>1, <1>2, MeasureRecords, OpenRecords, WriteRecords, CrashRecords DEF Next, AppendJsonl

-----------------------------------------------------------------------------

(* An acknowledged record that cannot be read lies behind a piece that is  *)
(* not a line, and what that piece was of is not acknowledged: so each     *)
(* record lost has a torn one before it, of its own.                       *)
LEMMA DamageStaysThere == TypeOK /\ RecordsInv => DamageContained
<1> SUFFICES ASSUME TypeOK, RecordsInv, NEW f \in Inodes
             PROVE  LET read == {files[f][i].rec : i \in Readable(files[f])}
                        lost == {i \in DOMAIN files[f] :
                                   files[f][i].rec \in acked /\ files[f][i].rec \notin read}
                    IN  Cardinality(lost) <= Cardinality(Torn(f))
  BY DEF DamageContained
<1> DEFINE read == {files[f][i].rec : i \in Readable(files[f])}
           lost == {i \in DOMAIN files[f] :
                      files[f][i].rec \in acked /\ files[f][i].rec \notin read}
           before == [i \in lost |-> i - 1]
<1>1. files[f] \in Seq(Piece) /\ DOMAIN files[f] = 1..Len(files[f]) /\ Len(files[f]) \in Nat
  <2>1. files[f] \in Seq(Piece)
    BY DEF TypeOK, Inodes
  <2> QED
    BY <2>1
<1>2. ASSUME NEW i \in lost PROVE i \in Nat /\ i - 1 \in Torn(f)
  <2>1. i \in 1..Len(files[f]) /\ files[f][i].rec \in acked /\ i \notin Readable(files[f])
    BY <1>1
  <2>2. files[f][i].kind = "line"
    BY <1>1, <2>1 DEF RecordsInv, AckedWhole
  <2>3. i # 1 /\ files[f][i - 1].kind # "line"
    BY <1>1, <2>1, <2>2 DEF Readable
  <2>4. i - 1 \in DOMAIN files[f]
    BY <1>1, <2>1, <2>3
  <2>5. files[f][i - 1].rec \notin acked
    BY <2>3, <2>4 DEF RecordsInv, AckedWhole
  <2> QED
    BY <2>1, <2>4, <2>5 DEF Torn
<1>3. lost \subseteq 1..Len(files[f]) /\ Torn(f) \subseteq 1..Len(files[f])
  BY <1>1 DEF Torn
<1>4. IsFiniteSet(1..Len(files[f]))
  <2>1. 1 \in Int /\ Len(files[f]) \in Int
    BY <1>1
  <2> QED
    BY ONLY <2>1, FS_Interval
<1>5. IsFiniteSet(lost) /\ IsFiniteSet(Torn(f))
  BY <1>3, <1>4, FS_Subset
<1>6. before \in [lost -> Torn(f)] /\ \A i, j \in lost : before[i] = before[j] => i = j
  BY <1>2
<1> HIDE DEF before
<1>7. before \in Injection(lost, Torn(f))
  BY <1>6 DEF Injection, IsInjective
<1>8. Cardinality(lost) <= Cardinality(Torn(f))
  BY <1>5, <1>7, FS_Injection
<1> QED
  BY <1>8

-----------------------------------------------------------------------------
(* What is read back.                                                      *)

(* A set of numbers that holds 0 and each successor holds them all.        *)
LEMMA Induct ==
  ASSUME NEW S, 0 \in S, \A n \in Nat : n \in S => n + 1 \in S
  PROVE  \A n \in Nat : n \in S
<1> SUFFICES ASSUME NEW n \in Nat, n \notin S PROVE FALSE
  OBVIOUS
<1> DEFINE T == {i \in 0..n : i \in S}
           up == [i \in T |-> i + 1]
<1>1. T \subseteq 0..n /\ 0 \in T
  OBVIOUS
<1>2. \A i \in T : i \in Nat /\ i + 1 \in T \ {0}
  OBVIOUS
<1>3. up \in [T -> T \ {0}] /\ \A i, j \in T : up[i] = up[j] => i = j
  BY <1>2
<1> HIDE DEF T, up
<1>4. IsFiniteSet(T) /\ Cardinality(T) \in Nat
  <2>1. IsFiniteSet(0..n)
    BY FS_Interval
  <2> QED
    BY <1>1, <2>1, FS_Subset, FS_CardinalityType
<1>5. IsFiniteSet(T \ {0}) /\ Cardinality(T \ {0}) = Cardinality(T) - 1
  BY <1>1, <1>4, FS_RemoveElement
<1>6. up \in Injection(T, T \ {0})
  BY <1>3 DEF Injection, IsInjective
<1>7. Cardinality(T) <= Cardinality(T \ {0})
  BY <1>5, <1>6, FS_Injection
<1> QED
  BY <1>4, <1>5, <1>7


(* Those keeps the order: its elements lie at increasing places, all of I. *)
InOrder(s, I, n, out, at) ==
  /\ at \in [1..Len(out) -> {i \in I : i <= n}]
  /\ \A i \in I : i <= n => \E k \in 1..Len(out) : at[k] = i
  /\ \A j, k \in 1..Len(out) : j < k => at[j] < at[k]
  /\ \A k \in 1..Len(out) : out[k] = s[at[k]]

LEMMA OneMoreInOrder ==
  ASSUME NEW T, NEW s \in Seq(T), NEW I, I \subseteq 1..Len(s),
         NEW n \in Nat, n + 1 <= Len(s),
         NEW out \in Seq(T), \E at : InOrder(s, I, n, out, at)
  PROVE  \E at : InOrder(s, I, n + 1, IF n + 1 \in I THEN Append(out, s[n + 1]) ELSE out, at)
<1>1. PICK at : InOrder(s, I, n, out, at)
  OBVIOUS
<1>2. Len(out) \in Nat /\ Len(s) \in Nat
  OBVIOUS
<1>3. CASE n + 1 \notin I
  <2>1. \A i \in I : i <= n + 1 <=> i <= n
    BY <1>2, <1>3
  <2>2. {i \in I : i <= n + 1} = {i \in I : i <= n}
    BY <2>1
  <2>3. InOrder(s, I, n + 1, out, at)
    BY <1>1, <2>1, <2>2 DEF InOrder
  <2> QED
    BY <1>3, <2>3
<1>4. CASE n + 1 \in I
  <2> DEFINE L == Len(out) + 1
             more == Append(out, s[n + 1])
             up == [k \in 1..L |-> IF k = L THEN n + 1 ELSE at[k]]
  <2>1. /\ more \in Seq(T) /\ Len(more) = L /\ more[L] = s[n + 1] /\ L \in Nat
        /\ \A k \in 1..Len(out) : more[k] = out[k]
    BY <1>2
  <2>2. \A k \in 1..L : k = L \/ (k \in 1..Len(out) /\ k # L)
    BY <1>2
  <2>3. /\ \A k \in 1..Len(out) : k \in 1..L /\ k < L /\ L \in 1..L
        /\ L \in 1..L
    BY <1>2
  <2>4. \A k \in 1..Len(out) : at[k] \in I /\ at[k] <= n
    BY <1>1 DEF InOrder
  <2>5. /\ \A i \in I : i \in Nat
        /\ \A k \in 1..Len(out) : at[k] \in Nat /\ at[k] < n + 1 /\ at[k] <= n + 1
    <3>1. \A i \in I : i \in Nat
      BY <1>2
    <3>2. \A i \in Nat : i <= n => i < n + 1 /\ i <= n + 1
      OBVIOUS
    <3> QED
      BY <2>4, <3>1, <3>2
  <2> HIDE DEF L, more
  <2>6. up[L] = n + 1 /\ \A k \in 1..Len(out) : up[k] = at[k]
    BY <2>3
  <2>7. up \in [1..L -> {i \in I : i <= n + 1}]
    <3>1. ASSUME NEW k \in 1..L PROVE up[k] \in {i \in I : i <= n + 1}
      <4>1. CASE k = L
        BY <1>4, <2>6, <4>1
      <4>2. CASE k \in 1..Len(out)
        BY <2>4, <2>5, <2>6, <4>2
      <4> QED
        BY <2>2, <4>1, <4>2
    <3> QED
      BY <3>1
  <2> HIDE DEF up
  <2>8. ASSUME NEW i \in I, i <= n + 1 PROVE \E k \in 1..L : up[k] = i
    <3>1. CASE i = n + 1
      BY <2>3, <2>6, <3>1
    <3>2. CASE i # n + 1
      <4>1. i <= n
        BY <2>5, <2>8, <3>2
      <4>2. PICK k \in 1..Len(out) : at[k] = i
        BY <1>1, <4>1 DEF InOrder
      <4> QED
        BY <2>3, <2>6, <4>2
    <3> QED
      BY <3>1, <3>2
  <2>9. ASSUME NEW j \in 1..L, NEW k \in 1..L, j < k PROVE up[j] < up[k]
    <3>1. j \in 1..Len(out)
      BY <2>1, <2>2, <2>9
    <3>2. CASE k = L
      BY <2>4, <2>5, <2>6, <3>1, <3>2
    <3>3. CASE k \in 1..Len(out)
      BY <1>1, <2>6, <2>9, <3>1, <3>3 DEF InOrder
    <3> QED
      BY <2>2, <3>2, <3>3
  <2>10. \A k \in 1..L : more[k] = s[up[k]]
    <3>1. ASSUME NEW k \in 1..Len(out) PROVE more[k] = s[up[k]]
      BY <1>1, <2>1, <2>6 DEF InOrder
    <3> QED
      BY <2>1, <2>2, <2>6, <3>1
  <2>11. InOrder(s, I, n + 1, more, up)
    BY <2>1, <2>7, <2>8, <2>9, <2>10 DEF InOrder
  <2> QED
    BY <1>4, <2>11 DEF more
<1> QED
  BY <1>3, <1>4

LEMMA ThoseInOrder ==
  ASSUME NEW T, NEW s \in Seq(T), NEW I, I \subseteq 1..Len(s)
  PROVE  /\ Those(s, I) \in Seq(T)
         /\ \E at : InOrder(s, I, Len(s), Those(s, I), at)
<1> DEFINE L == Len(s)
           Step(g, n) == IF n = 0 THEN <<>>
                         ELSE IF n \in I THEN Append(g[n - 1], s[n]) ELSE g[n - 1]
           Fine(n, g) == /\ g \in [0..n -> Seq(T)]
                         /\ \A i \in 0..n : g[i] = Step(g, i)
                         /\ \A i \in 0..n : \E at : InOrder(s, I, i, g[i], at)
           Reached == {n \in Nat : n <= L => \E g : Fine(n, g)}
<1>0. L \in Nat /\ \A i \in 1..L : s[i] \in T
  OBVIOUS
<1> HIDE DEF L
<1>1. \E g : Fine(0, g)
  <2> DEFINE g == [i \in 0..0 |-> <<>>]
             none == [k \in {} |-> 0]
  <2>1. InOrder(s, I, 0, <<>>, none)
    BY <1>0 DEF InOrder, L
  <2>2. g[0] = <<>> /\ g \in [0..0 -> Seq(T)]
    OBVIOUS
  <2>3. \A i \in 0..0 : i = 0
    OBVIOUS
  <2> HIDE DEF g, none
  <2>4. Fine(0, g)
    BY <2>1, <2>2, <2>3
  <2> QED
    BY <2>4
<1>2. ASSUME NEW n \in Nat, n + 1 <= L, NEW g, Fine(n, g) PROVE \E h : Fine(n + 1, h)
  <2> DEFINE top == Step(g, n + 1)
             h == [i \in 0..(n + 1) |-> IF i = n + 1 THEN top ELSE g[i]]
  <2>1. g[n] \in Seq(T) /\ s[n + 1] \in T /\ \E at : InOrder(s, I, n, g[n], at)
    BY <1>0, <1>2
  <2>2. top = IF n + 1 \in I THEN Append(g[n], s[n + 1]) ELSE g[n]
    OBVIOUS
  <2> HIDE DEF top
  <2>3. top \in Seq(T)
    BY <2>1, <2>2
  <2>4. \E at : InOrder(s, I, n + 1, top, at)
    <3>1. n + 1 <= Len(s)
      BY <1>2 DEF L
    <3> QED
      BY <2>1, <2>2, <3>1, OneMoreInOrder
  <2>5. h \in [0..(n + 1) -> Seq(T)]
    BY <1>2, <2>3
  <2>6. h[n + 1] = Step(h, n + 1) /\ h[n + 1] = top
    BY <2>2
  <2>7. ASSUME NEW i \in 0..n
        PROVE  h[i] = Step(h, i) /\ \E at : InOrder(s, I, i, h[i], at)
    <3>1. h[i] = g[i] /\ (i # 0 => h[i - 1] = g[i - 1])
      OBVIOUS
    <3> QED
      BY <1>2, <3>1
  <2>8. \A i \in 0..(n + 1) : i \in 0..n \/ i = n + 1
    OBVIOUS
  <2> HIDE DEF h, Step
  <2>9. Fine(n + 1, h)
    BY <2>4, <2>5, <2>6, <2>7, <2>8
  <2> QED
    BY <2>9
<1>3. PICK g : Fine(L, g)
  <2> HIDE DEF Fine
  <2>1. 0 \in Reached /\ \A n \in Nat : n \in Reached => n + 1 \in Reached
    BY <1>0, <1>1, <1>2
  <2> HIDE DEF Reached
  <2>2. L \in Reached
    BY <1>0, <2>1, Induct
  <2> QED
    BY <1>0, <2>2 DEF Reached
<1> DEFINE upto == CHOOSE f : f = [n \in 0..L |-> Step(f, n)]
<1>4. upto = [n \in 0..L |-> Step(upto, n)]
  <2>1. g = [n \in 0..L |-> Step(g, n)]
    BY <1>3
  <2> QED
    BY <2>1
<1> HIDE DEF upto
<1>5. Those(s, I) = upto[L]
  BY DEF Those, upto, L
<1> DEFINE Same == {n \in Nat : n <= L => upto[n] = g[n]}
<1>6. 0 \in Same
  BY <1>0, <1>3, <1>4
<1>7. ASSUME NEW n \in Nat, n + 1 <= L, upto[n] = g[n] PROVE upto[n + 1] = g[n + 1]
  <2>1. n + 1 \in 0..L
    BY <1>0, <1>7
  <2>2. upto[n + 1] = Step(upto, n + 1) /\ g[n + 1] = Step(g, n + 1)
    BY <1>3, <1>4, <2>1
  <2> QED
    BY <1>7, <2>2
<1>8. \A n \in Nat : n \in Same => n + 1 \in Same
  BY <1>0, <1>7
<1> HIDE DEF Same
<1>9. L \in Same
  BY <1>0, <1>6, <1>8, Induct
<1>10. Those(s, I) = g[L] /\ L \in 0..L
  BY <1>0, <1>5, <1>9 DEF Same
<1> QED
  BY <1>3, <1>10 DEF L

LEMMA LastOfIsTail ==
  ASSUME NEW T, NEW rs \in Seq(T), rs # <<>>
  PROVE  /\ LastOf(rs) \in Seq(T) /\ Len(LastOf(rs)) \in Nat \ {0}
         /\ LastOf(rs)[Len(LastOf(rs))] = rs[Len(rs)]
         /\ \E d \in Nat : \A k \in 1..Len(LastOf(rs)) :
              k + d \in 1..Len(rs) /\ LastOf(rs)[k] = rs[k + d]
<1> DEFINE L == Len(rs)
           m == IF L < Limit THEN 1 ELSE L - Limit + 1
           out == SubSeq(rs, m, L)
<1>1. L \in Nat /\ L # 0
  BY EmptySeq
<1>2. m \in 1..L
  BY <1>1, EvidenceLogAssumption
<1> HIDE DEF m
<1>3. /\ out \in Seq(T) /\ Len(out) = L - m + 1
      /\ \A k \in 1..(L - m + 1) : out[k] = rs[m + k - 1]
  BY <1>1, <1>2, SubSeqProperties
<1>4. LastOf(rs) = out
  BY DEF LastOf, m
<1> HIDE DEF out, L
<1>5. m - 1 \in Nat /\ L - m + 1 \in Nat \ {0}
  BY <1>1, <1>2
<1>6. \A k \in 1..(L - m + 1) : k + (m - 1) = m + k - 1 /\ k + (m - 1) \in 1..L
  BY <1>1, <1>2
<1>7. m + (L - m + 1) - 1 = L /\ L - m + 1 \in 1..(L - m + 1)
  BY <1>1, <1>2
<1>8. \A k \in 1..Len(out) : k + (m - 1) \in 1..L /\ out[k] = rs[k + (m - 1)]
  BY <1>3, <1>6
<1>9. out[Len(out)] = rs[L]
  BY <1>3, <1>7
<1> QED
  BY <1>3, <1>4, <1>5, <1>8, <1>9 DEF L

(* Distinct elements stay distinct in what is read and in what is shown of *)
(* it, and the last one stays the last.                                    *)
LEMMA SessionIsGenuine == TypeOK /\ RecordsInv => SessionGenuine
<1> SUFFICES ASSUME TypeOK, RecordsInv, here # NoFile
             PROVE  LET all   == RecordsIn(files[here])
                        shown == LastSessionRecords(here)
                    IN  /\ Cardinality(ToSet(shown)) = Len(shown)
                        /\ \A i \in DOMAIN shown :
                             /\ shown[i].run = all[Len(all)].run
                             /\ shown[i].seq <= seq[shown[i].run]
                        /\ all # <<>> => shown # <<>> /\ Last(shown) = Last(all)
  BY DEF SessionGenuine
<1> DEFINE ps == files[here]
           recs == [i \in DOMAIN ps |-> ps[i].rec]
           all == RecordsIn(ps)
           rs == LastOf(all)
           I == {i \in DOMAIN rs : rs[i].run = rs[Len(rs)].run}
           shown == LastSessionRecords(here)
<1>1. here \in Inodes /\ ps \in Seq(Piece) /\ DOMAIN ps = 1..Len(ps) /\ Len(ps) \in Nat
  <2>1. here \in Inodes /\ files[here] \in Seq(Piece)
    BY DEF TypeOK, Inodes
  <2> QED
    BY <2>1
<1>2. recs \in Seq(Rec) /\ Len(recs) = Len(ps)
  BY <1>1, RecordTypes
<1>3. /\ \A i, j \in 1..Len(recs) : recs[i] = recs[j] => i = j
      /\ \A i \in 1..Len(recs) : recs[i].seq <= seq[recs[i].run]
  BY <1>1, <1>2 DEF RecordsInv, OnlyOnce, AllHanded, Handed
<1>4. Readable(ps) \subseteq 1..Len(recs)
  BY <1>1, <1>2 DEF Readable
<1>5. all = Those(recs, Readable(ps))
  BY DEF RecordsIn
<1> HIDE DEF recs, all, ps
<1>6. PICK at : all \in Seq(Rec) /\ InOrder(recs, Readable(ps), Len(recs), all, at)
  BY <1>2, <1>4, <1>5, ThoseInOrder
<1>7. \A k \in 1..Len(all) : at[k] \in 1..Len(recs) /\ all[k] = recs[at[k]]
  BY <1>4, <1>6 DEF InOrder
<1>8. /\ \A j, k \in 1..Len(all) : all[j] = all[k] => j = k
      /\ \A k \in 1..Len(all) : all[k].seq <= seq[all[k].run]
  <2>1. ASSUME NEW j \in 1..Len(all), NEW k \in 1..Len(all), all[j] = all[k] PROVE j = k
    <3>1. at[j] = at[k] /\ at[j] \in Nat
      BY <1>2, <1>3, <1>7, <2>1
    <3>2. ~(j < k) /\ ~(k < j)
      BY <1>6, <3>1 DEF InOrder
    <3> QED
      BY <3>2
  <2> QED
    BY <1>3, <1>7, <2>1
<1>9. shown = IF rs = <<>> THEN <<>> ELSE Those(rs, I)
  BY DEF LastSessionRecords, ReadJsonl, all, ps
<1>10. CASE all = <<>>
  <2>1. rs = <<>>
    <3>1. Len(all) = 0 /\ \A m, n \in Int : n < m => SubSeq(all, m, n) = <<>>
      BY <1>10, SubSeqEmpty
    <3> QED
      BY <3>1, EvidenceLogAssumption DEF LastOf
  <2>2. shown = <<>>
    BY <1>9, <2>1
  <2>3. ToSet(shown) = {} /\ Len(shown) = 0 /\ DOMAIN shown = {}
    BY <2>2 DEF ToSet
  <2>4. Cardinality(ToSet(shown)) = Len(shown)
    BY <2>3, FS_EmptySet
  <2> QED
    BY <1>10, <2>3, <2>4 DEF all, ps
<1>11. CASE all # <<>>
  <2> HIDE DEF rs, I, shown
  <2>1. PICK d \in Nat : \A k \in 1..Len(rs) : k + d \in 1..Len(all) /\ rs[k] = all[k + d]
    BY <1>6, <1>11, LastOfIsTail DEF rs
  <2>2. /\ rs \in Seq(Rec) /\ Len(rs) \in Nat \ {0} /\ rs[Len(rs)] = all[Len(all)]
        /\ DOMAIN rs = 1..Len(rs) /\ rs # <<>>
    <3>1. rs \in Seq(Rec) /\ Len(rs) \in Nat \ {0} /\ rs[Len(rs)] = all[Len(all)]
      BY <1>6, <1>11, LastOfIsTail DEF rs
    <3>2. rs # <<>>
      BY <3>1, EmptySeq
    <3> QED
      BY <3>1, <3>2
  <2>3. /\ \A j, k \in 1..Len(rs) : rs[j] = rs[k] => j = k
        /\ \A k \in 1..Len(rs) : rs[k].seq <= seq[rs[k].run]
    <3>1. ASSUME NEW j \in 1..Len(rs), NEW k \in 1..Len(rs), rs[j] = rs[k] PROVE j = k
      <4>1. j + d = k + d
        BY <1>8, <2>1, <3>1
      <4> QED
        BY <4>1
    <3> QED
      BY <1>8, <2>1, <3>1
  <2>4. /\ I \subseteq 1..Len(rs) /\ Len(rs) \in I
        /\ \A i \in I : rs[i].run = rs[Len(rs)].run
    BY <2>2 DEF I
  <2>5. PICK to : shown \in Seq(Rec) /\ InOrder(rs, I, Len(rs), shown, to)
    BY <1>9, <2>2, <2>4, ThoseInOrder
  <2>6. /\ Len(shown) \in Nat /\ DOMAIN shown = 1..Len(shown)
        /\ \A k \in 1..Len(shown) :
             to[k] \in I /\ to[k] \in 1..Len(rs) /\ shown[k] = rs[to[k]]
    <3>1. Len(shown) \in Nat /\ DOMAIN shown = 1..Len(shown)
      BY <2>5
    <3>2. \A k \in 1..Len(shown) : to[k] \in I /\ shown[k] = rs[to[k]]
      BY <2>5 DEF InOrder
    <3> QED
      BY <2>4, <3>1, <3>2
  <2>7. ASSUME NEW j \in 1..Len(shown), NEW k \in 1..Len(shown), shown[j] = shown[k] PROVE j = k
    <3>1. to[j] = to[k] /\ to[j] \in Nat
      BY <2>3, <2>6, <2>7
    <3>2. ~(j < k) /\ ~(k < j)
      BY <2>5, <3>1 DEF InOrder
    <3> QED
      BY <3>2
  <2>8. Cardinality(ToSet(shown)) = Len(shown)
    <3> DEFINE el == [k \in 1..Len(shown) |-> shown[k]]
    <3>1. el \in [1..Len(shown) -> ToSet(shown)]
      BY <2>6 DEF ToSet
    <3>2. \A e \in ToSet(shown) : \E k \in 1..Len(shown) : el[k] = e
      BY <2>6 DEF ToSet
    <3>3. \A j, k \in 1..Len(shown) : el[j] = el[k] => j = k
      BY <2>7
    <3> HIDE DEF el
    <3>4. el \in Bijection(1..Len(shown), ToSet(shown))
      BY <3>1, <3>2, <3>3 DEF Bijection, Injection, Surjection, IsInjective
    <3>5. ExistsBijection(1..Len(shown), ToSet(shown))
      BY <3>4 DEF ExistsBijection
    <3> QED
      BY <2>6, <3>5, FS_CountingElements
  <2>9. PICK k \in 1..Len(shown) : to[k] = Len(rs)
    BY <2>2, <2>4, <2>5 DEF InOrder
  <2>10. k = Len(shown)
    <3>1. ~(k < Len(shown))
      <4>1. ASSUME k < Len(shown) PROVE FALSE
        <5>1. to[k] < to[Len(shown)] /\ to[Len(shown)] \in I
          BY <2>5, <2>6, <4>1 DEF InOrder
        <5>2. to[Len(shown)] \in 1..Len(rs)
          BY <2>4, <5>1
        <5> QED
          BY <2>2, <2>9, <5>1, <5>2
      <4> QED
        BY <4>1
    <3>2. k \in Nat /\ k <= Len(shown) /\ Len(shown) \in Nat
      BY <2>6
    <3> QED
      BY ONLY <3>1, <3>2
  <2>11. shown # <<>> /\ shown[Len(shown)] = all[Len(all)]
    BY <2>2, <2>6, <2>9, <2>10
  <2>12. \A i \in DOMAIN shown :
           shown[i].run = all[Len(all)].run /\ shown[i].seq <= seq[shown[i].run]
    <3>1. ASSUME NEW i \in 1..Len(shown)
          PROVE  shown[i].run = all[Len(all)].run /\ shown[i].seq <= seq[shown[i].run]
      <4>1. to[i] \in I /\ to[i] \in 1..Len(rs) /\ shown[i] = rs[to[i]]
        BY <2>6
      <4> QED
        BY <2>2, <2>3, <2>4, <4>1
    <3> QED
      BY <2>6, <3>1
  <2> QED
    BY <2>8, <2>11, <2>12 DEF Last, all, ps, shown
<1> QED
  BY <1>10, <1>11

-----------------------------------------------------------------------------

SessionIInv == TypeOK /\ RecordsInv

LEMMA SessionInit == Init => SessionIInv
<1> SUFFICES ASSUME Init PROVE SessionIInv
  OBVIOUS
<1>1. \A t \in Threads : pc[t] = "idle"
  BY DEF Init
<1>2. Inodes = {} /\ acked = {}
  BY DEF Init, Inodes
<1>3. RecordsInv
  BY <1>1, <1>2 DEF RecordsInv, AllHanded, OnlyOnce, AckedWhole
<1> QED
  BY <1>3, InitTypes DEF SessionIInv

LEMMA SessionStep == SessionIInv /\ [Next]_vars => SessionIInv'
BY TypeOKStep, RecordsStep DEF SessionIInv

(* "Malformed lines are skipped, not fatal": whatever is torn, by however  *)
(* many crashes and full disks, it costs at most the record that lands on  *)
(* it; every other record append_jsonl said it wrote can be read.          *)
THEOREM DamageStaysContained == Spec => []DamageContained
BY SessionInit, SessionStep, DamageStaysThere, PTL DEF Spec, SessionIInv

(* What --last-session shows is one run's, the newest that can be read,    *)
(* each record once and none the run did not make; for any limit of        *)
(* read_jsonl.                                                             *)
THEOREM SessionsAreGenuine == Spec => []SessionGenuine
BY SessionInit, SessionStep, SessionIsGenuine, PTL DEF Spec, SessionIInv
=============================================================================
