---------------------------- MODULE EvidenceLog ----------------------------
(***************************************************************************)
(* The rolling evidence log: append_jsonl as its callers run it, from      *)
(* several threads of several processes that share one path, and what      *)
(* read_jsonl and last_session_records make of the file afterwards.        *)
(*                                                                         *)
(* append_jsonl holds no lock.  It measures the file, rotates it away if   *)
(* it has grown large, opens the path for appending and writes one line,   *)
(* and every one of these steps can fall between two steps of another      *)
(* writer.  A file is an inode: a writer that has opened one keeps writing *)
(* to it when it is renamed.  A write cut short by a crash or a full disk  *)
(* leaves a piece of a line behind, on which the next line lands.          *)
(***************************************************************************)
EXTENDS Naturals, Sequences, SequencesExt, FiniteSets, Functions

CONSTANTS
  Procs,       \* console processes: a window, a headless run
  Threads,     \* threads that append
  ProcOf,      \* the process of each thread
  MaxLines,    \* max_bytes, in lines
  Limit,       \* the limit of read_jsonl, in records
  MaxAppends   \* bound: calls of append_jsonl in one behaviour

ASSUME EvidenceLogAssumption ==
  /\ IsFiniteSet(Threads) /\ IsFiniteSet(Procs)
  /\ ProcOf \in [Threads -> Procs]
  /\ MaxLines \in Nat \ {0}
  /\ Limit \in Nat \ {0}
  /\ MaxAppends \in Nat

VARIABLES
  pc,       \* where each thread is in append_jsonl
  rec,      \* the record it is appending
  handle,   \* the inode it has open
  files,    \* what each inode holds
  here,     \* the inode at path, or NoFile
  old,      \* the inode at path.1, or NoFile
  run,      \* the run id of each process
  seq,      \* how many records each run has handed to the log
  runs,     \* history: how many run ids were given out
  acked,    \* history: records for which append_jsonl returned True
  refused,  \* history: rotations the system refused
  raced     \* history: a rotation hit another file than the one measured

threadVars == <<pc, rec, handle>>
fileVars   == <<files, here, old>>
runVars    == <<run, seq, runs>>
histVars   == <<acked, refused, raced>>
vars == <<threadVars, fileVars, runVars, histVars>>

-----------------------------------------------------------------------------

NoFile == 0
NoRec  == [run |-> 0, seq |-> 0]

Rec == [run : Nat \ {0}, seq : Nat \ {0}]

(* What one write left in a file: a line, a line that lacks only its       *)
(* newline, or less than that.                                             *)
Piece == [rec : Rec, kind : {"line", "bare", "cut"}]

Inodes == DOMAIN files

Init ==
  /\ pc = [t \in Threads |-> "idle"]
  /\ rec = [t \in Threads |-> NoRec]
  /\ handle = [t \in Threads |-> NoFile]
  /\ files = <<>>
  /\ here = NoFile
  /\ old = NoFile
  /\ run = CHOOSE ids \in [Procs -> 1..Cardinality(Procs)] :
             \A p, q \in Procs : ids[p] = ids[q] => p = q
  /\ runs = Cardinality(Procs)
  /\ seq = [r \in 1..runs |-> 0]
  /\ acked = {}
  /\ refused = 0
  /\ raced = FALSE

-----------------------------------------------------------------------------
(* append_jsonl.                                                           *)

(* Mutant: the file is rotated only once it is larger than the limit.      *)
LargeBeyond(f) == f # NoFile /\ Len(files[f]) > MaxLines

(* os.path.getsize(path) >= max_bytes; no file, no size.                   *)
Large(f) == f # NoFile /\ Len(files[f]) >= MaxLines

(* Records handed to the log so far. *)
Appended == FoldFunction(LAMBDA n, m : n + m, 0, seq)

(* A record of the thread's run is handed over and the file is measured.   *)
Measure(t) ==
  LET r == run[ProcOf[t]]
  IN  /\ pc[t] = "idle"
      /\ Appended < MaxAppends
      /\ seq' = [seq EXCEPT ![r] = @ + 1]
      /\ rec' = [rec EXCEPT ![t] = [run |-> r, seq |-> seq[r] + 1]]
      /\ handle' = [handle EXCEPT ![t] = here]
      /\ pc' = [pc EXCEPT ![t] = IF Large(here) THEN "rotate" ELSE "open"]
      /\ UNCHANGED <<fileVars, run, runs, histVars>>

IsOpen(f) == \E u \in Threads : pc[u] = "write" /\ handle[u] = f

(* os.replace(path, path + ".1").  Whatever is at path by now goes; POSIX   *)
(* renames a file that somebody has open, too.                             *)
Rotate(t) ==
  /\ pc[t] = "rotate"
  /\ here # NoFile
  /\ old' = here
  /\ here' = NoFile
  /\ raced' = (raced \/ here # handle[t])
  /\ pc' = [pc EXCEPT ![t] = "open"]
  /\ UNCHANGED <<rec, handle, files, runVars, acked, refused>>

(* It fails, which append_jsonl ignores: nothing is at path any more, or   *)
(* the system (Windows) will not rename a file that somebody has open.     *)
RotateRefused(t) ==
  /\ pc[t] = "rotate"
  /\ \/ here = NoFile /\ UNCHANGED refused
     \/ here # NoFile /\ IsOpen(here) /\ refused' = refused + 1
  /\ pc' = [pc EXCEPT ![t] = "open"]
  /\ UNCHANGED <<rec, handle, fileVars, runVars, acked, raced>>

Opened(f) == f

(* open(path, "a").                                                        *)
Open(t) ==
  /\ pc[t] = "open"
  /\ IF here = NoFile
     THEN files' = Append(files, <<>>) /\ here' = Len(files) + 1
     ELSE UNCHANGED <<files, here>>
  /\ handle' = [handle EXCEPT ![t] = Opened(here')]
  /\ pc' = [pc EXCEPT ![t] = "write"]
  /\ UNCHANGED <<rec, old, runVars, histVars>>

Leave(t) ==
  /\ pc' = [pc EXCEPT ![t] = "idle"]
  /\ rec' = [rec EXCEPT ![t] = NoRec]
  /\ handle' = [handle EXCEPT ![t] = NoFile]

(* Mutant: the newline is left to the next write.                          *)
WithoutNewline(r) == [rec |-> r, kind |-> "bare"]

Line(r) == [rec |-> r, kind |-> "line"]

Puts(f, piece) == [files EXCEPT ![f] = Append(@, piece)]

(* The line and its newline are written and the file is closed.            *)
Write(t) ==
  /\ pc[t] = "write"
  /\ files' = Puts(handle[t], Line(rec[t]))
  /\ acked' = acked \cup {rec[t]}
  /\ Leave(t)
  /\ UNCHANGED <<here, old, runVars, refused, raced>>

(* The disk is full: nothing or a piece is written, False is returned.     *)
WriteFails(t) ==
  /\ pc[t] = "write"
  /\ \/ UNCHANGED files
     \/ \E kind \in {"bare", "cut"} :
          files' = Puts(handle[t], [rec |-> rec[t], kind |-> kind])
  /\ Leave(t)
  /\ UNCHANGED <<here, old, runVars, histVars>>

(* A process dies, with all its threads wherever they are; one of them may *)
(* be in the middle of its write.  It is started again under a new run id. *)
Crash(p) ==
  /\ \E t \in Threads : ProcOf[t] = p /\ pc[t] # "idle"
  /\ \/ UNCHANGED files
     \/ \E t \in Threads, kind \in {"bare", "cut"} :
          /\ ProcOf[t] = p
          /\ pc[t] = "write"
          /\ files' = Puts(handle[t], [rec |-> rec[t], kind |-> kind])
  /\ pc' = [t \in Threads |-> IF ProcOf[t] = p THEN "idle" ELSE pc[t]]
  /\ rec' = [t \in Threads |-> IF ProcOf[t] = p THEN NoRec ELSE rec[t]]
  /\ handle' = [t \in Threads |-> IF ProcOf[t] = p THEN NoFile ELSE handle[t]]
  /\ runs' = runs + 1
  /\ run' = [run EXCEPT ![p] = runs + 1]
  /\ seq' = Append(seq, 0)
  /\ UNCHANGED <<here, old, histVars>>

AppendJsonl(t) ==
  \/ Measure(t)
  \/ Rotate(t)
  \/ RotateRefused(t)
  \/ Open(t)
  \/ Write(t)
  \/ WriteFails(t)

Next ==
  \/ \E t \in Threads : AppendJsonl(t)
  \/ \E p \in Procs : Crash(p)

Spec == Init /\ [][Next]_vars

-----------------------------------------------------------------------------
(* Reading back.                                                           *)

(* read_jsonl skips a line that is not one JSON document: one that is cut, *)
(* and one made of several pieces.  A newline at the very end is optional. *)
Readable(ps) ==
  {i \in DOMAIN ps : /\ i = 1 \/ ps[i - 1].kind = "line"
                     /\ \/ ps[i].kind = "line"
                        \/ ps[i].kind = "bare" /\ i = Len(ps)}

(* The elements of s at the places in I, in their order.                   *)
Those(s, I) ==
  LET upto[n \in 0..Len(s)] ==
        IF n = 0 THEN <<>>
        ELSE IF n \in I THEN Append(upto[n - 1], s[n]) ELSE upto[n - 1]
  IN  upto[Len(s)]

RecordsIn(ps) == Those([i \in DOMAIN ps |-> ps[i].rec], Readable(ps))

(* Mutant: the first records are kept, not the last.                       *)
FirstOf(rs) == SubSeq(rs, 1, IF Len(rs) < Limit THEN Len(rs) ELSE Limit)

(* out[-limit:]                                                            *)
LastOf(rs) == SubSeq(rs, IF Len(rs) < Limit THEN 1 ELSE Len(rs) - Limit + 1, Len(rs))

ReadJsonl(f) == IF f = NoFile THEN <<>> ELSE LastOf(RecordsIn(files[f]))

LastSessionRecords(f) ==
  LET rs == ReadJsonl(f)
  IN  IF rs = <<>> THEN <<>>
      ELSE Those(rs, {i \in DOMAIN rs : rs[i].run = rs[Len(rs)].run})

-----------------------------------------------------------------------------
(* Properties.                                                             *)

(* Every variable holds what the code can hold there: a thread that writes *)
(* has an open file, and the two paths never name the same one.            *)
TypeOK ==
  /\ pc \in [Threads -> {"idle", "rotate", "open", "write"}]
  /\ DOMAIN rec = Threads
  /\ \A t \in Threads : IF pc[t] = "idle" THEN rec[t] = NoRec ELSE rec[t] \in Rec
  /\ handle \in [Threads -> {NoFile} \cup Inodes]
  /\ \A t \in Threads : pc[t] \in {"rotate", "write"} => handle[t] # NoFile
  /\ files \in Seq(Seq(Piece))
  /\ here \in {NoFile} \cup Inodes
  /\ old \in {NoFile} \cup Inodes
  /\ here = old => here = NoFile
  /\ runs \in Nat /\ seq \in [1..runs -> Nat]
  /\ run \in [Procs -> 1..runs]
  /\ acked \subseteq Rec /\ refused \in Nat /\ raced \in BOOLEAN

(* "rotating once it gets large so a long-lived install can't fill a       *)
(* disk": with several unsynchronised writers, crashes and refused         *)
(* renames, a file overshoots its limit by no more than one line for each  *)
(* other writer caught between measuring and writing, and one for each     *)
(* rotation the system refused.  And no rotation comes early: the file     *)
(* kept beside the log is a full one, so the last MaxLines writes survive, *)
(* unless it hit a file another writer had started since it measured.      *)
RotatedWhenFull ==
  /\ \A f \in Inodes : Len(files[f]) < MaxLines + Cardinality(Threads) + refused
  /\ old # NoFile /\ ~raced => Len(files[old]) >= MaxLines

Torn(f) == {i \in DOMAIN files[f] : files[f][i].rec \notin acked}

(* A torn write costs the record it tore and the one that lands on it:     *)
(* every other acknowledged record of the file can still be read.          *)
DamageContained ==
  \A f \in Inodes :
    LET read == {files[f][i].rec : i \in Readable(files[f])}
        lost == {i \in DOMAIN files[f] :
                   files[f][i].rec \in acked /\ files[f][i].rec \notin read}
    IN  Cardinality(lost) <= Cardinality(Torn(f))

(* What --last-session shows belongs to one run, shows no record twice,    *)
(* and shows the run of the newest record that can be read.                *)
SessionGenuine ==
  here # NoFile =>
    LET all   == RecordsIn(files[here])
        shown == LastSessionRecords(here)
    IN  /\ Cardinality(ToSet(shown)) = Len(shown)
        /\ \A i \in DOMAIN shown :
             shown[i].run = all[Len(all)].run /\ shown[i].seq <= seq[shown[i].run]
        /\ all # <<>> => shown # <<>> /\ Last(shown) = Last(all)
=============================================================================
