------------------------------ MODULE Decoding ------------------------------
(***************************************************************************)
(* How report, encode and plot read results: decoder() opens the files and *)
(* detects their encodings, and a loop waits for a signal or a tick and    *)
(* decodes one result after the other with the round-robin decoder.  The   *)
(* first file is written by an attack command, which may have ended before *)
(* it is opened or still be writing into a pipe.                           *)
(*                                                                         *)
(* An entry of a file is a result, or damaged: "bad" fails before it sets  *)
(* a field, "half" after it set the timestamp and the code, as the fields  *)
(* of a CSV record are parsed one after the other.                         *)
(***************************************************************************)
EXTENDS Integers, Sequences, FiniteSets, SequencesExt

CONSTANTS Commands,   \* the commands to run, with their flags
          FileLists,  \* the lists of files to read, by command
          Errors      \* the errors of results, "none" for the empty string

ResultSet ==
  [attack : Nat, seq : Nat, ts : Nat, code : Nat, latency : Nat, in : Nat,
   error : Errors]
FileSet ==
  [format : {"gob", "json", "csv"}, eol : BOOLEAN,
   entries : Seq([kind : {"ok", "bad", "half"}, res : ResultSet])]

\* The commands read standard input if no file is named.
ASSUME DecodingAssumption ==
  /\ "none" \in Errors
  /\ \A c \in Commands : FileLists[c.name] \subseteq Seq(FileSet) \ {<<>>}

VARIABLES cmd,      \* the command
          files,    \* the files: their encoding and entries
          avail,    \* how many entries of the first were written so far
          writer,   \* the process that writes it: "writing" or "closed"
          opened,   \* how many files decoder() has opened
          pos,      \* how many entries of each file were read
          seq,      \* the counter of the round-robin decoder
          tries,    \* how many decoders it has tried in this call
          r,        \* the Result the caller passed
          sigch,    \* whether a signal is in sigch
          ticks,    \* whether a tick of -every is in ticks
          stage,    \* where the command is
          outcome,  \* how it ended: "ok", "error", "refused" or "panic"
          cause,    \* what ended its loop: "eof" or "signal"
          added     \* history: the results decoded

pipeVars == <<cmd, files, avail, writer>>
decVars == <<opened, pos, seq, tries, r>>
loopVars == <<sigch, ticks, stage, outcome, cause>>
decodingVars == <<pipeVars, decVars, loopVars, added>>

Zero == [attack |-> 0, seq |-> 0, ts |-> 0, code |-> 0, latency |-> 0,
         in |-> 0, error |-> "none"]

\* What is in file f so far, and what of it has ended: the newline of the
\* last line may be missing, or not be written yet.
Size(f) == IF f = 1 THEN avail ELSE Len(files[f].entries)
Whole(f) == f # 1 \/ writer = "closed"
Ended(f) ==
  IF files[f].format # "gob" /\ ~files[f].eol THEN Size(f) - 1 ELSE Size(f)

\* What can be read of a whole file: a JSON line counts only with its
\* newline.  Before its end a reader waits for the newline of a CSV record
\* too.
Readable(f) == IF files[f].format = "json" THEN Ended(f) ELSE Size(f)

AtEnd(f) == Whole(f) /\ pos[f] >= Readable(f)
Ready(f) == pos[f] < Ended(f) \/ Whole(f)
Entry(f) == files[f].entries[pos[f] + 1]

\* Decode into a Result that holds x: gob leaves a field alone whose value
\* in the stream is zero, the others set every field.  (So they do of the
\* fields of ResultSet.  Headers are not among them: a CSV record without
\* headers leaves those of the Result alone.)
Filled(f, x) ==
  LET e == Entry(f)
  IN CASE e.kind = "bad" -> x
       [] e.kind = "half" -> [x EXCEPT !.ts = e.res.ts, !.code = e.res.code]
       [] OTHER -> IF files[f].format # "gob" THEN e.res
                   ELSE [a \in DOMAIN x |->
                           IF e.res[a] = Zero[a] THEN x[a] ELSE e.res[a]]

-----------------------------------------------------------------------------
DecodingInit ==
  /\ cmd \in Commands
  /\ files \in FileLists[cmd.name]
  /\ avail = 0
  /\ writer = "writing"
  /\ opened = 0
  /\ pos = [f \in DOMAIN files |-> 0]
  /\ seq = 0
  /\ tries = 0
  /\ r = Zero
  /\ sigch = FALSE
  /\ ticks = FALSE
  /\ stage = "open"
  /\ outcome = "none"
  /\ cause = "none"
  /\ added = <<>>

\* The process at the other end of the pipe writes a result, or ends.
Write ==
  /\ writer = "writing"
  /\ avail < Len(files[1].entries)
  /\ avail' = avail + 1
  /\ UNCHANGED <<cmd, files, writer, decVars, loopVars, added>>

WriterEnds ==
  /\ writer = "writing"
  /\ writer' = "closed"
  /\ UNCHANGED <<cmd, files, avail, decVars, loopVars, added>>

\* A second signal finds the channel full and is dropped; before the files
\* are open no signal is caught.
Signal ==
  /\ stage \notin {"open", "done"}
  /\ sigch' = TRUE
  /\ UNCHANGED <<pipeVars, decVars, ticks, stage, outcome, cause, added>>

Done(o) == stage' = "done" /\ outcome' = o

\* DecoderFor: the first entry must decode; nothing of it is consumed.
Open ==
  LET f == opened + 1
  IN /\ stage = "open"
     /\ Ready(f)
     /\ IF ~AtEnd(f) /\ Entry(f).kind = "ok"
        THEN /\ opened' = f
             /\ stage' = IF f = Len(files) THEN "select" ELSE "open"
             /\ UNCHANGED outcome
        ELSE Done("refused") /\ UNCHANGED opened
     /\ UNCHANGED <<pipeVars, pos, seq, tries, r, sigch, ticks, cause, added>>

\* Mutant: break leaves the select, and not the loop.
SelectSignalBreak ==
  /\ stage = "select"
  /\ sigch
  /\ sigch' = FALSE
  /\ UNCHANGED <<pipeVars, decVars, ticks, stage, outcome, cause, added>>

\* The loop takes a signal.
SelectSignal ==
  /\ stage = "select"
  /\ sigch
  /\ sigch' = FALSE
  /\ stage' = "close"
  /\ cause' = "signal"
  /\ UNCHANGED <<pipeVars, decVars, ticks, outcome, added>>

\* The default case, with a new Result.
SelectDecode ==
  /\ stage = "select"
  /\ ~sigch /\ ~ticks
  /\ stage' = "decode"
  /\ tries' = 0
  /\ r' = Zero
  /\ UNCHANGED <<pipeVars, opened, pos, seq, sigch, ticks, outcome, cause,
                 added>>

\* Mutant: the round-robin decoder returns at the first end of a file.
MissedFirst(e) ==
  IF e = "EOF" \/ tries + 1 = Len(files)
  THEN /\ IF e = "EOF" THEN stage' = "close" /\ cause' = "eof" /\ UNCHANGED outcome
          ELSE Done("error") /\ UNCHANGED cause
       /\ UNCHANGED tries
  ELSE tries' = tries + 1 /\ UNCHANGED <<stage, outcome, cause>>

\* A decoder failed with e: the next one is tried; the error of the last is
\* returned to the loop, which ends at io.EOF and returns any other.
Missed(e) ==
  IF tries + 1 = Len(files)
  THEN /\ IF e = "EOF" THEN stage' = "close" /\ cause' = "eof" /\ UNCHANGED outcome
          ELSE Done("error") /\ UNCHANGED cause
       /\ UNCHANGED tries
  ELSE tries' = tries + 1 /\ UNCHANGED <<stage, outcome, cause>>

\* One decoder of the round-robin decoder; with a single file it is the
\* decoder itself.
Decode ==
  LET f == (seq % Len(files)) + 1
  IN /\ stage = "decode"
     /\ Ready(f)
     /\ seq' = (seq + 1) % Len(files)
     /\ IF AtEnd(f)
        THEN Missed("EOF") /\ UNCHANGED <<pos, r, added>>
        ELSE /\ pos' = [pos EXCEPT ![f] = @ + 1]
             /\ r' = Filled(f, r)
             /\ IF Entry(f).kind # "ok"
                THEN Missed("error") /\ UNCHANGED added
                ELSE /\ added' = Append(added, [file |-> f, n |-> pos'[f],
                                                res |-> r'])
                     /\ stage' = "select"
                     /\ UNCHANGED <<tries, outcome, cause>>
     /\ UNCHANGED <<pipeVars, opened, sigch, ticks>>

-----------------------------------------------------------------------------
\* The entries of the files that are results, whether all are, and those of
\* them that are read when nothing goes wrong.
Results == {p \in UNION {{<<f, n>> : n \in 1..Size(f)} : f \in DOMAIN files} :
              files[p[1]].entries[p[2]].kind = "ok"}
Damaged == \E f \in DOMAIN files :
             \E n \in 1..Size(f) : files[f].entries[n].kind # "ok"
ReadableResults == {p \in Results : p[2] <= Readable(p[1])}
Read == {<<added[k].file, added[k].n>> : k \in DOMAIN added}

(* Whatever the files, their encodings and the pace of the writer, results *)
(* and nothing else are read, each at most once, each file in its order    *)
(* and without a gap, and as they were written (only gob can inherit       *)
(* fields of a damaged entry); and a command that ends at the end of its   *)
(* input has read all results of all files but an unterminated last line   *)
(* of JSON, which does not cost any other, unless one of several files is  *)
(* damaged.                                                                *)
ReadComplete ==
  /\ Cardinality(Read) = Len(added)
  /\ Read \subseteq Results
  /\ \A p \in Read : \A q \in Results :
       q[1] = p[1] /\ q[2] < p[2] => q \in Read
  /\ \A k \in DOMAIN added :
       LET a == added[k]
       IN \/ a.res = files[a.file].entries[a.n].res
          \/ files[a.file].format = "gob" /\ Damaged /\ Len(files) > 1
  /\ cause = "eof" /\ outcome # "error" =>
       ReadableResults \subseteq Read \/ (Damaged /\ Len(files) > 1)

=============================================================================
