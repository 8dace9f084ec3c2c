---------------------------- MODULE ReportProofs ----------------------------
(***************************************************************************)
(* Proofs about Decoding and Report: every result of the files is read at  *)
(* most once, as it was written, and none is left out at the end of the    *)
(* input; a report says what the results read so far say; the exporter     *)
(* counts what was written; and the page of a plot is in order and shows   *)
(* every series as the threshold allows.                                   *)
(***************************************************************************)
EXTENDS Report, FiniteSetTheorems, NaturalsInduction, WellFoundedInduction, TLAPS

N == Len(files)

(* The files, how far they are read and what was read.                     *)
ReadType ==
  /\ files \in Seq(FileSet)
  /\ N > 0
  /\ avail \in 0..Len(files[1].entries)
  /\ pos \in [DOMAIN files -> Nat]
  /\ seq \in 0..(N - 1)
  /\ tries \in 0..(N - 1)
  /\ opened \in 0..N
  /\ stage = "open" => opened < N
  /\ r \in ResultSet
  /\ added \in Seq([file : DOMAIN files, n : Nat, res : ResultSet])

(* What was read is what was passed over, but for the damaged entries.     *)
OrderInv ==
  /\ \A f \in DOMAIN files : pos[f] <= Size(f)
  /\ \A p \in Read : p[1] \in DOMAIN files /\ p[2] \in 1..pos[p[1]]
                       /\ files[p[1]].entries[p[2]].kind = "ok"
  /\ \A f \in DOMAIN files : \A n \in 1..pos[f] :
       files[f].entries[n].kind = "ok" => <<f, n>> \in Read
  /\ IsFiniteSet(Read)
  /\ Cardinality(Read) = Len(added)

(* One of several files is damaged: its error may be lost when the next    *)
(* file has a result, and the Result it touched is passed on.              *)
Spoilt == Damaged /\ N > 1

ValueInv ==
  /\ \A k \in DOMAIN added :
       LET a == added[k]
       IN \/ a.res = files[a.file].entries[a.n].res
          \/ files[a.file].format = "gob" /\ Spoilt
  /\ stage = "decode" => r = Zero \/ Spoilt

(* File f is among the N - t files the round-robin decoder tries next.     *)
Coming(f, t) ==
  \E j \in 0..(N - 1 - t) : f = seq + j + 1 \/ f = seq + j + 1 - N

(* A file that was tried in vain in this call has ended.                   *)
EndInv ==
  /\ stage = "decode" =>
       Spoilt \/ \A f \in DOMAIN files : AtEnd(f) \/ Coming(f, tries)
  /\ stage \in {"open", "select", "decode"} => cause # "eof"
  /\ cause = "eof" => Spoilt \/ \A f \in DOMAIN files : AtEnd(f)

ReadInv == ReadType /\ OrderInv /\ ValueInv /\ EndInv

-----------------------------------------------------------------------------
(* The files and their sizes.                                              *)
LEMMA FileFacts ==
  ASSUME ReadType
  PROVE  /\ N \in Nat /\ DOMAIN files = 1..N
         /\ \A f \in DOMAIN files :
              /\ files[f] \in FileSet
              /\ Len(files[f].entries) \in Nat
              /\ Size(f) \in 0..Len(files[f].entries)
              /\ Readable(f) \in {Size(f), Size(f) - 1}
              /\ \A k \in 1..Len(files[f].entries) :
                   files[f].entries[k] \in [kind : {"ok", "bad", "half"}, res : ResultSet]
<1>1. N \in Nat /\ DOMAIN files = 1..N
  BY DEF ReadType, N
<1>2. ASSUME NEW f \in DOMAIN files
      PROVE  /\ files[f] \in FileSet
             /\ Len(files[f].entries) \in Nat
             /\ Size(f) \in 0..Len(files[f].entries)
             /\ Readable(f) \in {Size(f), Size(f) - 1}
             /\ \A k \in 1..Len(files[f].entries) :
                  files[f].entries[k] \in [kind : {"ok", "bad", "half"}, res : ResultSet]
  <2>1. files[f] \in FileSet
    BY <1>1 DEF ReadType
  <2>2. files[f].entries \in Seq([kind : {"ok", "bad", "half"}, res : ResultSet])
    BY <2>1 DEF FileSet
  <2>3. Len(files[f].entries) \in Nat
    BY <2>2
  <2>4. Size(f) \in 0..Len(files[f].entries)
    BY <2>3 DEF Size, ReadType
  <2>5. Readable(f) \in {Size(f), Size(f) - 1}
    BY DEF Readable, Ended
  <2>6. \A k \in 1..Len(files[f].entries) :
          files[f].entries[k] \in [kind : {"ok", "bad", "half"}, res : ResultSet]
    <3> DEFINE E == [kind : {"ok", "bad", "half"}, res : ResultSet]
               es == files[f].entries
    <3>1. es \in Seq(E)
      BY <2>2
    <3> HIDE DEF E, es
    <3>2. \A k \in 1..Len(es) : es[k] \in E
      BY <3>1
    <3>3. QED
      BY <3>2 DEF E, es
  <2>7. QED
    BY <2>1, <2>3, <2>4, <2>5, <2>6
<1>3. QED
  BY <1>1, <1>2

(* What a step may do to the files: the writer appends to the first.       *)
PipeGrows ==
  /\ files' = files
  /\ avail' \in {avail, avail + 1}
  /\ avail' # avail => writer = "writing"
  /\ writer = "closed" => writer' = "closed"

(* The end of a file and damage are for good.                              *)
LEMMA Monotone ==
  ASSUME ReadType, ReadType', PipeGrows
  PROVE  /\ N' = N
         /\ \A f \in DOMAIN files :
              /\ Size(f)' >= Size(f)
              /\ pos'[f] = pos[f] /\ AtEnd(f) => AtEnd(f)'
         /\ Spoilt => Spoilt'
<1> USE DEF PipeGrows
<1>1. N' = N
  BY DEF N
<1>2. \A f \in DOMAIN files :
        /\ Size(f) \in Nat /\ Size(f)' \in Nat
        /\ Size(f)' >= Size(f)
        /\ Whole(f) => Whole(f)' /\ Size(f)' = Size(f)
  <2> SUFFICES ASSUME NEW f \in DOMAIN files
               PROVE  /\ Size(f) \in Nat /\ Size(f)' \in Nat
                      /\ Size(f)' >= Size(f)
                      /\ Whole(f) => Whole(f)' /\ Size(f)' = Size(f)
    OBVIOUS
  <2>1. Len(files[f].entries) \in Nat /\ avail \in Nat
    <3>1. 1 \in DOMAIN files
      BY FileFacts DEF ReadType
    <3>2. Len(files[1].entries) \in Nat /\ Len(files[f].entries) \in Nat
      BY <3>1, FileFacts
    <3>3. QED
      BY <3>2 DEF ReadType
  <2>2. QED
    BY <2>1 DEF Size, Whole
<1>3. ASSUME NEW f \in DOMAIN files, pos'[f] = pos[f], AtEnd(f)
      PROVE  AtEnd(f)'
  <2>1. Whole(f)' /\ Size(f)' = Size(f)
    BY <1>2, <1>3 DEF AtEnd
  <2>2. Readable(f)' = Readable(f)
    BY <2>1 DEF Readable, Ended
  <2>3. QED
    BY <1>3, <2>1, <2>2 DEF AtEnd
<1>4. Damaged => Damaged'
  <2> SUFFICES ASSUME NEW f \in DOMAIN files, NEW k \in 1..Size(f),
                      files[f].entries[k].kind # "ok"
               PROVE  Damaged'
    BY DEF Damaged
  <2>1. k \in 1..Size(f)'
    BY <1>2
  <2>2. QED
    BY <2>1 DEF Damaged
<1>5. QED
  BY <1>1, <1>2, <1>3, <1>4 DEF Spoilt

(* A step that decodes nothing.                                            *)
LEMMA NothingDecoded ==
  ASSUME ReadInv, PipeGrows, ReadType',
         UNCHANGED <<pos, seq, tries, r, added>>,
         stage' = stage \/ stage' # "decode",
         stage' \in {"open", "select", "decode"} =>
           stage \in {"open", "select", "decode"} /\ cause' # "eof",
         cause' = "eof" => cause = "eof"
  PROVE  ReadInv'
<1> USE DEF ReadInv
<1>1. /\ N' = N /\ Read' = Read /\ files' = files
      /\ \A f \in DOMAIN files : Size(f)' >= Size(f) /\ (AtEnd(f) => AtEnd(f)')
      /\ Spoilt => Spoilt'
  BY Monotone DEF Read, PipeGrows
<1>2. OrderInv'
  <2>1. \A f \in DOMAIN files : pos[f] \in Nat /\ Size(f) \in Nat /\ Size(f)' \in Nat
    BY FileFacts, <1>1, SMTT(60) DEF ReadType, Size
  <2>2. \A f \in DOMAIN files : pos[f] <= Size(f)'
    BY <1>1, <2>1 DEF OrderInv
  <2>3. QED
    BY <1>1, <2>2 DEF OrderInv
<1>3. ValueInv'
  BY <1>1 DEF ValueInv
<1>4. EndInv'
  BY <1>1 DEF EndInv, Coming
<1>5. QED
  BY <1>2, <1>3, <1>4

(* Filling a Result.                                                       *)
LEMMA FilledFacts ==
  ASSUME ReadType, NEW f \in DOMAIN files, pos[f] < Len(files[f].entries)
  PROVE  /\ Entry(f) \in [kind : {"ok", "bad", "half"}, res : ResultSet]
         /\ Filled(f, r) \in ResultSet
         /\ Entry(f).kind = "ok" =>
              (Filled(f, r) = Entry(f).res \/ (files[f].format = "gob" /\ r # Zero))
<1>1. pos[f] \in Nat /\ pos[f] + 1 \in 1..Len(files[f].entries)
  <2>1. pos[f] \in Nat
    BY DEF ReadType
  <2>2. Len(files[f].entries) \in Nat
    BY FileFacts
  <2>3. QED
    BY <2>1, <2>2
<1>2. Entry(f) \in [kind : {"ok", "bad", "half"}, res : ResultSet]
  BY <1>1, FileFacts DEF Entry
<1>3. Entry(f).res \in ResultSet /\ r \in ResultSet
  BY <1>2 DEF ReadType
<1>4. CASE Entry(f).kind = "bad"
  BY <1>2, <1>3, <1>4 DEF Filled
<1>5. CASE Entry(f).kind = "half"
  <2>1. Filled(f, r) = [r EXCEPT !.ts = Entry(f).res.ts, !.code = Entry(f).res.code]
    BY <1>5 DEF Filled
  <2>2. QED
    BY <1>2, <1>3, <1>5, <2>1 DEF ResultSet
<1>6. CASE Entry(f).kind = "ok" /\ files[f].format # "gob"
  <2>1. Filled(f, r) = Entry(f).res
    BY <1>6 DEF Filled
  <2>2. QED
    BY <1>2, <1>3, <2>1
<1>7. CASE Entry(f).kind = "ok" /\ files[f].format = "gob"
  <2> DEFINE e == Entry(f).res
  <2>1. Filled(f, r) = [a \in DOMAIN r |-> IF e[a] = Zero[a] THEN r[a] ELSE e[a]]
    BY <1>7 DEF Filled
  <2> HIDE DEF e
  <2>2. e \in ResultSet
    BY <1>3 DEF e
  <2>3. Filled(f, r) \in ResultSet
    BY <1>3, <2>1, <2>2 DEF ResultSet
  <2>4. r = Zero => Filled(f, r) = e
    BY <1>3, <2>1, <2>2 DEF ResultSet
  <2>5. r # Zero \/ Filled(f, r) = Entry(f).res
    BY <2>4 DEF e
  <2>6. QED
    BY <1>2, <1>7, <2>3, <2>5
<1>8. QED
  BY <1>2, <1>4, <1>5, <1>6, <1>7

-----------------------------------------------------------------------------
(* The file a call of the decoder looks at next.                           *)
NextFile == (seq % N) + 1

LEMMA RoundRobin ==
  ASSUME ReadType
  PROVE  /\ NextFile = seq + 1 /\ NextFile \in DOMAIN files
         /\ (seq + 1) % N = (IF seq + 1 = N THEN 0 ELSE seq + 1)
<1>1. N \in Nat /\ N > 0 /\ seq \in 0..(N - 1) /\ DOMAIN files = 1..N
  BY FileFacts DEF ReadType
<1>2. seq % N = seq /\ (seq + 1 < N => (seq + 1) % N = seq + 1) /\ N % N = 0
  BY <1>1
<1>3. QED
  BY <1>1, <1>2 DEF NextFile

(* The file looked at leaves the ones to come, and no other does; after N  *)
(* files in vain none is to come; and all are when a call begins.          *)
LEMMA ComingStep ==
  ASSUME ReadType, NEW f \in DOMAIN files, NEW t \in 0..(N - 1),
         Coming(f, t), f # NextFile, seq' = (seq + 1) % N, files' = files
  PROVE  t + 1 \in 0..(N - 1) /\ Coming(f, t + 1)'
<1>1. /\ N \in Nat /\ N > 0 /\ seq \in 0..(N - 1) /\ f \in 1..N
      /\ NextFile = seq + 1 /\ seq' = (IF seq + 1 = N THEN 0 ELSE seq + 1)
  BY FileFacts, RoundRobin DEF ReadType
<1>2. PICK j \in 0..(N - 1 - t) : f = seq + j + 1 \/ f = seq + j + 1 - N
  BY DEF Coming
<1>3. j > 0
  BY <1>1, <1>2
<1>4. j - 1 \in 0..(N - 1 - (t + 1)) /\ t + 1 \in 0..(N - 1)
  BY <1>1, <1>2, <1>3
<1>5. f = seq' + (j - 1) + 1 \/ f = seq' + (j - 1) + 1 - N
  BY <1>1, <1>2, <1>3
<1>6. N' = N
  BY DEF N
<1>7. QED
  BY <1>4, <1>5, <1>6 DEF Coming

LEMMA AllComing ==
  ASSUME ReadType, NEW f \in DOMAIN files
  PROVE  Coming(f, 0)
<1>1. N \in Nat /\ N > 0 /\ seq \in 0..(N - 1) /\ f \in 1..N
  BY FileFacts DEF ReadType
<1>2. CASE f > seq
  <2>1. f - seq - 1 \in 0..(N - 1 - 0) /\ f = seq + (f - seq - 1) + 1
    BY <1>1, <1>2
  <2>2. QED
    BY <2>1 DEF Coming
<1>3. CASE f <= seq
  <2>1. f - seq - 1 + N \in 0..(N - 1 - 0) /\ f = seq + (f - seq - 1 + N) + 1 - N
    BY <1>1, <1>3
  <2>2. QED
    BY <2>1 DEF Coming
<1>4. QED
  BY <1>1, <1>2, <1>3

(* A call begins with a new Result.                                        *)
LEMMA SelectDecodeStep ==
  ASSUME ReadInv, SelectDecode
  PROVE  ReadInv'
<1> USE DEF ReadInv, SelectDecode, pipeVars
<1>1. ReadType'
  <2>1. Zero \in ResultSet
    BY DecodingAssumption DEF ResultSet, Zero
  <2>2. N' = N /\ N \in Nat /\ N > 0
    BY FileFacts DEF N, ReadType
  <2>3. QED
    BY <2>1, <2>2 DEF ReadType
<1>2. PipeGrows
  BY DEF PipeGrows
<1>3. /\ N' = N /\ Read' = Read
      /\ \A f \in DOMAIN files : Size(f)' = Size(f)
  BY DEF N, Read, Size
<1>4. OrderInv'
  BY <1>3 DEF OrderInv
<1>5. Spoilt => Spoilt'
  BY <1>1, <1>2, Monotone
<1>6. ValueInv'
  BY <1>5 DEF ValueInv
<1>7. EndInv'
  <2>1. \A f \in DOMAIN files' : Coming(f, 0)'
    BY <1>1, AllComing, <1>3 DEF Coming
  <2>2. QED
    BY <2>1 DEF EndInv
<1>8. QED
  BY <1>1, <1>4, <1>6, <1>7

-----------------------------------------------------------------------------
(* What every step of the decoder leaves alone, and what it may read.      *)
LEMMA DecodeFacts ==
  ASSUME ReadInv, Decode
  PROVE  /\ NextFile \in DOMAIN files /\ PipeGrows /\ N' = N /\ N \in Nat /\ N > 0
         /\ stage = "decode" /\ cause # "eof"
         /\ UNCHANGED <<cmd, files, avail, writer, opened>>
         /\ seq' = (seq + 1) % N /\ seq' \in 0..(N - 1)
         /\ \A f \in DOMAIN files : Size(f)' = Size(f) /\ pos[f] \in Nat
         /\ ~AtEnd(NextFile) => pos[NextFile] < Size(NextFile)
<1> USE DEF ReadInv
<1> DEFINE f == NextFile
<1>1. /\ f \in DOMAIN files
      /\ (seq + 1) % N \in 0..(N - 1) /\ N \in Nat /\ N > 0
  <2>1. N \in Nat /\ N > 0 /\ seq \in 0..(N - 1)
    BY FileFacts DEF ReadType
  <2>2. (seq + 1) % N = (IF seq + 1 = N THEN 0 ELSE seq + 1) /\ f \in DOMAIN files
    BY RoundRobin
  <2>3. QED
    BY <2>1, <2>2
<1>2. /\ UNCHANGED <<cmd, files, avail, writer, opened>>
      /\ stage = "decode"
      /\ Ready(f)
      /\ seq' = (seq + 1) % N
  BY DEF Decode, pipeVars, NextFile, N
<1>3. PipeGrows /\ N' = N
  BY <1>2 DEF PipeGrows, N
<1>4. \A g \in DOMAIN files : Size(g)' = Size(g) /\ pos[g] \in Nat
  BY <1>2 DEF Size, ReadType
<1>5. ~AtEnd(f) => pos[f] < Size(f)
  <2>1. Size(f) \in Nat /\ pos[f] \in Nat /\ Readable(f) \in {Size(f), Size(f) - 1}
    BY FileFacts, <1>1, <1>4
  <2>2. QED
    BY <1>2, <2>1 DEF AtEnd, Ready, Ended
<1>6. cause # "eof"
  BY <1>2 DEF EndInv
<1>7. QED
  BY <1>1, <1>2, <1>3, <1>4, <1>5, <1>6

(* A file at its end: the next is tried, or the loop ends.                 *)
LEMMA AtEndStep ==
  ASSUME ReadInv, Decode, AtEnd(NextFile)
  PROVE  ReadInv'
<1> USE DEF ReadInv
<1> DEFINE f == NextFile
<1>1. Missed("EOF") /\ UNCHANGED <<pos, r, added>>
  BY DEF Decode, NextFile, N
<1>2. /\ \/ /\ tries + 1 = N /\ tries' = tries
            /\ stage' = "close" /\ cause' = "eof"
         \/ /\ tries + 1 # N /\ tries' = tries + 1
            /\ stage' = stage /\ cause' = cause
  BY <1>1 DEF Missed, N
<1>3. ReadType'
  <2>1. tries' \in 0..(N - 1)
    <3>1. N \in Nat /\ tries \in 0..(N - 1)
      BY DecodeFacts DEF ReadType
    <3>2. QED
      BY <1>2, <3>1
  <2>2. stage' # "open"
    BY <1>2, DecodeFacts
  <2>3. /\ UNCHANGED <<pos, r, added, files, avail, opened>>
        /\ N' = N /\ seq' \in 0..(N - 1)
    BY <1>1, DecodeFacts
  <2>4. QED
    BY <2>1, <2>2, <2>3 DEF ReadType
<1>4. /\ Read' = Read /\ (Spoilt => Spoilt')
      /\ \A g \in DOMAIN files : AtEnd(g) => AtEnd(g)'
  BY <1>1, <1>3, DecodeFacts, Monotone DEF Read
<1>5. OrderInv'
  BY <1>1, <1>4, DecodeFacts DEF OrderInv
<1>6. ValueInv'
  BY <1>1, <1>4, DecodeFacts DEF ValueInv
<1>7. EndInv'
  <2>1. PICK t \in 0..(N - 1) : t = tries
    BY DEF ReadType
  <2>2. ASSUME ~Spoilt, NEW g \in DOMAIN files
        PROVE  \/ AtEnd(g)'
               \/ t + 1 \in 0..(N - 1) /\ Coming(g, t + 1)'
    <3>1. CASE AtEnd(g)
      BY <1>4, <3>1
    <3>2. CASE g # f /\ ~AtEnd(g)
      <4>1. Coming(g, t)
        BY <2>1, <2>2, <3>2, DecodeFacts DEF EndInv
      <4>2. seq' = (seq + 1) % N /\ files' = files
        BY DecodeFacts
      <4>3. QED
        BY <3>2, <4>1, <4>2, ComingStep
    <3>3. QED
      BY <3>1, <3>2
  <2>3. CASE tries + 1 = N /\ stage' = "close" /\ cause' = "eof"
    <3>1. ~(t + 1 \in 0..(N - 1))
      BY <2>1, <2>3, DecodeFacts
    <3>2. files' = files
      BY DecodeFacts
    <3>3. QED
      BY <2>2, <2>3, <3>1, <3>2, <1>4 DEF EndInv
  <2>4. CASE tries' = tries + 1 /\ stage' = stage /\ cause' = cause
    <3>1. \A g : Coming(g, t + 1)' => Coming(g, tries)'
      BY <2>1, <2>4 DEF Coming
    <3>2. files' = files /\ cause # "eof"
      BY DecodeFacts
    <3>3. QED
      BY <2>2, <2>4, <3>1, <3>2, <1>4 DEF EndInv
  <2>5. QED
    BY <1>2, <2>3, <2>4
<1>8. QED
  BY <1>3, <1>5, <1>6, <1>7

(* The decoder passes over an entry: it is counted if it is a result.      *)
LEMMA PassedStep ==
  ASSUME ReadInv, ReadType', Decode, ~AtEnd(NextFile),
         pos' = [pos EXCEPT ![NextFile] = @ + 1],
         \/ Entry(NextFile).kind # "ok" /\ added' = added
         \/ /\ Entry(NextFile).kind = "ok"
            /\ \E x \in ResultSet :
                 added' = Append(added, [file |-> NextFile,
                                         n |-> pos[NextFile] + 1, res |-> x])
  PROVE  OrderInv'
<1> USE DEF ReadInv
<1> DEFINE f == NextFile
           p == <<NextFile, pos[NextFile] + 1>>
<1>1. /\ f \in DOMAIN files /\ files' = files
      /\ \A g \in DOMAIN files : Size(g)' = Size(g) /\ pos[g] \in Nat /\ Size(g) \in Nat
      /\ pos[f] < Size(f)
  BY DecodeFacts, FileFacts
<1>2. \A g \in DOMAIN files : pos'[g] = IF g = f THEN pos[g] + 1 ELSE pos[g]
  BY <1>1 DEF ReadType
<1>3. \A g \in DOMAIN files : pos'[g] <= Size(g)'
  BY <1>1, <1>2 DEF OrderInv
<1>4. CASE Entry(f).kind # "ok" /\ added' = added
  <2>1. Read' = Read
    BY <1>4 DEF Read
  <2>2. \A q \in Read : q[1] \in DOMAIN files /\ q[2] \in 1..pos'[q[1]]
                          /\ files[q[1]].entries[q[2]].kind = "ok"
    <3> TAKE q \in Read
    <3>1. q[1] \in DOMAIN files /\ q[2] \in 1..pos[q[1]]
            /\ files[q[1]].entries[q[2]].kind = "ok"
      BY DEF OrderInv
    <3>2. QED
      BY <3>1, <1>1, <1>2
  <2>3. ASSUME NEW g \in DOMAIN files, NEW n \in 1..pos'[g],
               files[g].entries[n].kind = "ok"
        PROVE  <<g, n>> \in Read
    <3>1. n \in 1..pos[g]
      BY <2>3, <1>1, <1>2, <1>4 DEF Entry
    <3>2. QED
      BY <2>3, <3>1 DEF OrderInv
  <2>4. QED
    BY <1>1, <1>3, <1>4, <2>1, <2>2, <2>3 DEF OrderInv
<1>5. CASE /\ Entry(f).kind = "ok"
           /\ \E x \in ResultSet :
                added' = Append(added, [file |-> f, n |-> pos[f] + 1, res |-> x])
  <2>1. PICK x \in ResultSet :
          added' = Append(added, [file |-> f, n |-> pos[f] + 1, res |-> x])
    BY <1>5
  <2> DEFINE a == [file |-> f, n |-> pos[f] + 1, res |-> x]
             A == [file : DOMAIN files, n : Nat, res : ResultSet]
  <2>2. /\ added \in Seq(A) /\ Len(added) \in Nat
        /\ added' = Append(added, a) /\ a \in A
    BY <1>1, <2>1 DEF ReadType
  <2>3. a.file = f /\ a.n = pos[f] + 1
    OBVIOUS
  <2> HIDE DEF a, A
  <2>4. /\ DOMAIN added = 1..Len(added) /\ DOMAIN added' = 1..(Len(added) + 1)
        /\ \A k \in DOMAIN added : added'[k] = added[k]
        /\ added'[Len(added) + 1] = a
        /\ Len(added') = Len(added) + 1
    BY <2>2
  <2>11. \A k : k \in DOMAIN added' <=> k \in DOMAIN added \/ k = Len(added) + 1
    <3>1. DOMAIN added = 1..Len(added) /\ DOMAIN added' = 1..(Len(added) + 1)
      BY <2>4
    <3>2. Len(added) \in Nat
      BY <2>2
    <3>3. QED
      BY <3>1, <3>2
  <2>5. Read' = Read \cup {p}
    <3>1. ASSUME NEW q \in Read' PROVE q \in Read \cup {p}
      <4>1. PICK k \in DOMAIN added' : q = <<added'[k].file, added'[k].n>>
        BY DEF Read
      <4>2. CASE k = Len(added) + 1
        BY <4>1, <4>2, <2>3, <2>4
      <4>3. CASE k \in DOMAIN added
        BY <4>1, <4>3, <2>4 DEF Read
      <4>4. k = Len(added) + 1 \/ k \in DOMAIN added
        BY <2>11
      <4>5. QED
        BY <4>2, <4>3, <4>4
    <3>2. ASSUME NEW q \in Read PROVE q \in Read'
      <4>1. PICK k \in DOMAIN added : q = <<added[k].file, added[k].n>>
        BY DEF Read
      <4>2. k \in DOMAIN added' /\ added'[k] = added[k]
        BY <4>1, <2>11, <2>4
      <4>3. QED
        BY <4>1, <4>2 DEF Read
    <3>3. p \in Read'
      <4>1. Len(added) + 1 \in DOMAIN added'
        BY <2>11
      <4>2. p = <<added'[Len(added) + 1].file, added'[Len(added) + 1].n>>
        BY <2>3, <2>4
      <4>3. QED
        BY <4>1, <4>2 DEF Read
    <3>4. QED
      BY <3>1, <3>2, <3>3
  <2>6. p \notin Read
    <3>1. \A q \in Read : q[2] \in 1..pos[q[1]]
      BY DEF OrderInv
    <3>2. ~(pos[f] + 1 \in 1..pos[f])
      BY <1>1
    <3>3. QED
      BY <3>1, <3>2
  <2>7. IsFiniteSet(Read') /\ Cardinality(Read') = Len(added')
    <3>1. IsFiniteSet(Read) /\ Cardinality(Read) = Len(added)
      BY DEF OrderInv
    <3> HIDE DEF p
    <3>2. QED
      BY <3>1, <2>4, <2>5, <2>6, FS_AddElement
  <2>8. \A q \in Read' : q[1] \in DOMAIN files /\ q[2] \in 1..pos'[q[1]]
                           /\ files[q[1]].entries[q[2]].kind = "ok"
    <3> TAKE q \in Read'
    <3>1. CASE q \in Read
      <4>1. q[1] \in DOMAIN files /\ q[2] \in 1..pos[q[1]]
              /\ files[q[1]].entries[q[2]].kind = "ok"
        BY <3>1 DEF OrderInv
      <4>2. QED
        BY <4>1, <1>1, <1>2
    <3>2. CASE q = p
      BY <3>2, <1>1, <1>2, <1>5 DEF Entry
    <3>3. QED
      BY <2>5, <3>1, <3>2
  <2>9. ASSUME NEW g \in DOMAIN files, NEW n \in 1..pos'[g],
               files[g].entries[n].kind = "ok"
        PROVE  <<g, n>> \in Read'
    <3>1. n \in 1..pos[g] \/ <<g, n>> = p
      BY <2>9, <1>1, <1>2
    <3>2. QED
      BY <2>5, <2>9, <3>1 DEF OrderInv
  <2>10. QED
    BY <1>1, <1>3, <2>7, <2>8, <2>9 DEF OrderInv
<1>6. QED
  BY <1>4, <1>5

(* A damaged entry: the next file is tried with what it left in the        *)
(* Result, or the command fails.                                           *)
LEMMA DamagedStep ==
  ASSUME ReadInv, Decode, ~AtEnd(NextFile), Entry(NextFile).kind # "ok"
  PROVE  ReadInv'
<1> USE DEF ReadInv
<1> DEFINE f == NextFile
<1>1. /\ pos' = [pos EXCEPT ![f] = @ + 1] /\ r' = Filled(f, r)
      /\ Missed("error") /\ added' = added
  BY DEF Decode, NextFile, N
<1>2. /\ \/ /\ tries + 1 = N /\ tries' = tries
            /\ stage' = "done" /\ cause' = cause
         \/ /\ tries + 1 # N /\ tries' = tries + 1
            /\ stage' = stage /\ cause' = cause
  BY <1>1 DEF Missed, N, Done
<1>3. /\ f \in DOMAIN files /\ pos[f] \in Nat /\ pos[f] < Size(f)
      /\ Size(f) \in 0..Len(files[f].entries) /\ Len(files[f].entries) \in Nat
  BY DecodeFacts, FileFacts
<1>4. N \in Nat /\ tries \in 0..(N - 1) /\ N' = N
  BY DecodeFacts DEF ReadType
<1>5. ReadType'
  <2>1. tries' \in 0..(N - 1)
    BY <1>2, <1>4
  <2>2. stage' # "open"
    BY <1>2, DecodeFacts
  <2>3. pos' \in [DOMAIN files -> Nat]
    BY <1>1, <1>3 DEF ReadType
  <2>4. pos[f] < Len(files[f].entries)
    BY <1>3
  <2>5. r' \in ResultSet
    BY <1>1, <1>3, <2>4, FilledFacts
  <2>6. /\ UNCHANGED <<added, files, avail, opened>>
        /\ N' = N /\ seq' \in 0..(N - 1)
    BY <1>1, DecodeFacts
  <2>7. QED
    BY <2>1, <2>2, <2>3, <2>5, <2>6 DEF ReadType
<1>6. OrderInv'
  BY <1>1, <1>5, PassedStep
<1>7. Spoilt => Spoilt'
  BY <1>5, DecodeFacts, Monotone
<1>8. tries + 1 # N => Spoilt'
  <2>1. PICK g \in DOMAIN files : g = f
    BY <1>3
  <2>2. Damaged'
    <3>1. Size(g)' = Size(g) /\ files' = files
      BY DecodeFacts
    <3>2. pos[g] + 1 \in 1..Size(g)' /\ files[g].entries[pos[g] + 1].kind # "ok"
      BY <1>3, <2>1, <3>1 DEF Entry
    <3>3. QED
      BY <3>1, <3>2 DEF Damaged
  <2>3. tries + 1 # N => N > 1
    BY <1>4
  <2>4. QED
    BY <1>4, <2>2, <2>3 DEF Spoilt
<1>9. ValueInv'
  BY <1>1, <1>2, <1>7, <1>8, DecodeFacts DEF ValueInv
<1>10. EndInv'
  BY <1>2, <1>8, DecodeFacts DEF EndInv
<1>11. QED
  BY <1>5, <1>6, <1>9, <1>10

(* A result is decoded.                                                    *)
LEMMA ResultStep ==
  ASSUME ReadInv, Decode, ~AtEnd(NextFile), Entry(NextFile).kind = "ok"
  PROVE  ReadInv'
<1> USE DEF ReadInv
<1> DEFINE f == NextFile
           a == [file |-> f, n |-> pos[f] + 1, res |-> Filled(f, r)]
<1>1. /\ f \in DOMAIN files /\ pos[f] \in Nat /\ pos[f] < Size(f)
      /\ Size(f) \in 0..Len(files[f].entries) /\ Len(files[f].entries) \in Nat
      /\ pos[f] < Len(files[f].entries)
  <2>1. /\ f \in DOMAIN files /\ pos[f] \in Nat /\ pos[f] < Size(f)
        /\ Size(f) \in 0..Len(files[f].entries) /\ Len(files[f].entries) \in Nat
    BY DecodeFacts, FileFacts
  <2>2. QED
    BY <2>1
<1>2. /\ pos' = [pos EXCEPT ![f] = @ + 1] /\ r' = Filled(f, r)
      /\ added' = Append(added, [file |-> f, n |-> pos'[f], res |-> r'])
      /\ stage' = "select" /\ UNCHANGED <<tries, outcome, cause>>
  BY DEF Decode, NextFile, N
<1>3. added' = Append(added, a)
  <2>1. pos'[f] = pos[f] + 1
    BY <1>1, <1>2 DEF ReadType
  <2>2. QED
    BY <1>2, <2>1
<1>4. /\ Filled(f, r) \in ResultSet
      /\ Filled(f, r) = Entry(f).res \/ (files[f].format = "gob" /\ r # Zero)
  BY <1>1, FilledFacts
<1>5. a \in [file : DOMAIN files, n : Nat, res : ResultSet]
  BY <1>1, <1>4
<1>6. ReadType'
  <2>1. pos' \in [DOMAIN files -> Nat]
    BY <1>1, <1>2, SMTT(60) DEF ReadType
  <2>2. added' \in Seq([file : DOMAIN files, n : Nat, res : ResultSet])
    <3> DEFINE A == [file : DOMAIN files, n : Nat, res : ResultSet]
    <3>1. added \in Seq(A) /\ a \in A
      BY <1>5 DEF ReadType
    <3> HIDE DEF A, a
    <3>2. added' \in Seq(A)
      BY <1>3, <3>1
    <3>3. QED
      BY <3>2 DEF A
  <2>3. /\ UNCHANGED <<tries, files, avail, opened>>
        /\ N' = N /\ seq' \in 0..(N - 1)
    BY <1>2, DecodeFacts
  <2>4. r' \in ResultSet /\ stage' # "open"
    BY <1>2, <1>4
  <2>5. QED
    BY <2>1, <2>2, <2>3, <2>4 DEF ReadType
<1>7. OrderInv'
  BY <1>2, <1>3, <1>4, <1>6, PassedStep
<1>8. Spoilt => Spoilt'
  BY <1>6, DecodeFacts, Monotone
<1>9. ValueInv'
  <2>1. \/ a.res = files[a.file].entries[a.n].res
        \/ files[a.file].format = "gob" /\ Spoilt
    <3>1. r = Zero \/ Spoilt
      BY DecodeFacts DEF ValueInv
    <3>2. a.file = f /\ a.n = pos[f] + 1 /\ a.res = Filled(f, r)
      OBVIOUS
    <3>3. QED
      BY <1>4, <3>1, <3>2 DEF Entry
  <2> DEFINE A == [file : DOMAIN files, n : Nat, res : ResultSet]
  <2>2. added \in Seq(A) /\ Len(added) \in Nat
    BY DEF ReadType
  <2> HIDE DEF a, A
  <2>3. DOMAIN added' = 1..(Len(added) + 1) /\ DOMAIN added = 1..Len(added)
    BY <1>3, <2>2
  <2>4. /\ \A k \in DOMAIN added : added'[k] = added[k]
        /\ added'[Len(added) + 1] = a
    BY <1>3, <2>2
  <2>5. Len(added) \in Nat
    BY <2>2
  <2>6. \A k \in DOMAIN added' : k \in DOMAIN added \/ k = Len(added) + 1
    BY <2>3, <2>5
  <2>7. files' = files
    BY DecodeFacts
  <2>8. ASSUME NEW k \in DOMAIN added'
        PROVE  \/ added'[k].res = files[added'[k].file].entries[added'[k].n].res
               \/ files[added'[k].file].format = "gob" /\ Spoilt'
    <3>1. CASE k = Len(added) + 1
      <4>1. added'[k] = a
        BY <2>4, <3>1
      <4>2. QED
        BY <2>1, <4>1, <1>8
    <3>2. CASE k \in DOMAIN added
      BY <2>4, <3>2, <1>8 DEF ValueInv
    <3>3. QED
      BY <2>6, <3>1, <3>2
  <2>9. QED
    BY <1>2, <2>7, <2>8 DEF ValueInv
<1>10. EndInv'
  BY <1>2, DecodeFacts DEF EndInv
<1>11. QED
  BY <1>6, <1>7, <1>9, <1>10

LEMMA DecodeStep ==
  ASSUME ReadInv, Decode
  PROVE  ReadInv'
BY AtEndStep, DamagedStep, ResultStep

-----------------------------------------------------------------------------
(* The writer at the other end of the pipe.                                *)
LEMMA WriterStep ==
  ASSUME ReadInv, Write \/ WriterEnds
  PROVE  ReadInv'
<1> USE DEF ReadInv
<1>1. UNCHANGED <<cmd, files, opened, pos, seq, tries, r, stage, outcome, cause, added>>
  BY DEF Write, WriterEnds, decVars, loopVars
<1>2. PipeGrows
  BY DEF Write, WriterEnds, PipeGrows
<1>3. ReadType'
  <2>1. avail' \in 0..Len(files[1].entries)
    <3>1. Len(files[1].entries) \in Nat
      BY FileFacts DEF ReadType
    <3>2. QED
      BY <3>1 DEF Write, WriterEnds, ReadType
  <2>2. N' = N
    BY <1>1 DEF N
  <2>3. QED
    BY <1>1, <2>1, <2>2 DEF ReadType
<1>4. QED
  BY <1>1, <1>2, <1>3, NothingDecoded DEF EndInv

(* A step of the command that leaves the decoder alone.                    *)
LEMMA QuietStep ==
  ASSUME ReadInv, UNCHANGED <<pipeVars, decVars, added>>,
         \/ stage' = stage /\ cause' = cause
         \/ stage' \in {"close", "draw", "done"} /\ cause' \in {cause, "signal"}
  PROVE  ReadInv'
<1> USE DEF ReadInv
<1>1. UNCHANGED <<cmd, files, avail, writer, opened, pos, seq, tries, r, added>>
  BY DEF pipeVars, decVars
<1>2. PipeGrows /\ N' = N
  BY <1>1 DEF PipeGrows, N
<1>3. ReadType'
  BY <1>1, <1>2 DEF ReadType
<1>4. QED
  BY <1>1, <1>2, <1>3, NothingDecoded DEF EndInv

(* The files are opened one after the other, and nothing is consumed.      *)
LEMMA OpenStep ==
  ASSUME ReadInv, Open
  PROVE  ReadInv'
<1> USE DEF ReadInv
<1>1. /\ UNCHANGED <<cmd, files, avail, writer, pos, seq, tries, r, cause, added>>
      /\ stage = "open"
      /\ \/ opened' = opened + 1 /\ stage' = IF opened + 1 = N THEN "select" ELSE "open"
         \/ opened' = opened /\ stage' = "done"
  BY DEF Open, Done, pipeVars, N
<1>2. PipeGrows /\ N' = N
  BY <1>1 DEF PipeGrows, N
<1>3. ReadType'
  <2>1. N \in Nat /\ opened \in 0..N /\ opened < N
    BY <1>1, FileFacts DEF ReadType
  <2>2. opened' \in 0..N /\ (stage' = "open" => opened' < N)
    BY <1>1, <2>1
  <2>3. QED
    BY <1>1, <1>2, <2>2 DEF ReadType
<1>4. QED
  BY <1>1, <1>2, <1>3, NothingDecoded DEF EndInv

(* Reading starts with nothing read.                                       *)
LEMMA ReadInit ==
  ASSUME ReportInit
  PROVE  ReadInv
<1> USE DEF ReportInit, DecodingInit
<1>1. files \in Seq(FileSet) /\ files # <<>>
  BY DecodingAssumption
<1>2. N \in Nat /\ N > 0 /\ DOMAIN files = 1..N
  BY <1>1 DEF N
<1>3. Zero \in ResultSet
  BY DecodingAssumption DEF ResultSet, Zero
<1>4. Len(files[1].entries) \in Nat
  <2>1. files[1] \in FileSet
    BY <1>1, <1>2
  <2>2. files[1].entries \in Seq([kind : {"ok", "bad", "half"}, res : ResultSet])
    BY <2>1 DEF FileSet
  <2>3. QED
    BY <2>2
<1>5. ReadType
  BY <1>1, <1>2, <1>3, <1>4 DEF ReadType
<1>6. Read = {}
  BY DEF Read
<1>7. OrderInv
  <2>1. \A f \in DOMAIN files : pos[f] = 0 /\ Size(f) \in Nat
    BY <1>5, FileFacts
  <2>2. IsFiniteSet(Read) /\ Cardinality(Read) = Len(added)
    BY <1>6, FS_EmptySet
  <2>3. QED
    BY <1>6, <2>1, <2>2 DEF OrderInv
<1>8. ValueInv /\ EndInv
  BY DEF ValueInv, EndInv
<1>9. QED
  BY <1>5, <1>7, <1>8 DEF ReadInv

LEMMA ReadNext ==
  ASSUME ReadInv, [ReportNext]_vars
  PROVE  ReadInv'
<1>1. CASE Writer
  <2>1. Write \/ WriterEnds
    BY <1>1 DEF Writer, WriteResult, WriteResultFails, WriterStops
  <2>2. QED
    BY <2>1, WriterStep
<1>2. CASE Signal
  BY <1>2, QuietStep DEF Signal
<1>3. CASE Tick
  BY <1>3, QuietStep DEF Tick
<1>4. CASE Open
  BY <1>4, OpenStep
<1>5. CASE SelectDecode
  BY <1>5, SelectDecodeStep
<1>6. CASE DecodeAndAdd
  BY <1>6, DecodeStep DEF DecodeAndAdd
<1>7. CASE SelectTick
  <2>1. /\ UNCHANGED <<pipeVars, decVars, cause, added>>
        /\ stage' = stage \/ stage' = "done"
    BY <1>7 DEF SelectTick, Done
  <2>2. QED
    BY <2>1, QuietStep
<1>8. CASE Close
  <2>1. /\ UNCHANGED <<pipeVars, decVars, cause, added>>
        /\ stage' \in {"done", "draw"}
    BY <1>8 DEF Close, Done
  <2>2. QED
    BY <2>1, QuietStep
<1>9. CASE DrawSeries
  <2>1. /\ UNCHANGED <<pipeVars, decVars, cause, added>>
        /\ stage' = stage \/ stage' = "done"
    BY <1>9, Zenon DEF DrawSeries, Done
  <2>2. QED
    BY <2>1, QuietStep
<1>10. CASE DrawSample
  <2>1. UNCHANGED <<pipeVars, decVars, stage, cause, added>>
    BY <1>10 DEF DrawSample, loopVars
  <2>2. QED
    BY <2>1, QuietStep
<1>11. CASE WritePage
  <2>1. UNCHANGED <<pipeVars, decVars, cause, added>> /\ stage' = "done"
    BY <1>11 DEF WritePage, Done
  <2>2. QED
    BY <2>1, QuietStep
<1>12. CASE EncodeFails
  <2>1. UNCHANGED <<pipeVars, decVars, cause, added>> /\ stage' = "done"
    BY <1>12 DEF EncodeFails, Done
  <2>2. QED
    BY <2>1, QuietStep
<1>13. CASE TakeSignal
  <2>1. /\ UNCHANGED <<pipeVars, decVars, added>>
        /\ stage' = "close" /\ cause' = "signal"
    BY <1>13 DEF TakeSignal, SelectSignal
  <2>2. QED
    BY <2>1, QuietStep
<1>14. CASE UNCHANGED vars
  <2>1. UNCHANGED <<pipeVars, decVars, stage, cause, added>>
    BY <1>14 DEF vars, decodingVars, loopVars
  <2>2. QED
    BY <2>1, QuietStep
<1>15. QED
  BY <1>1, <1>2, <1>3, <1>4, <1>5, <1>6, <1>7, <1>8, <1>9, <1>10, <1>11,
     <1>12, <1>13, <1>14 DEF ReportNext, Program

(* In every run of report, encode and plot, the entries passed over are    *)
(* the ones read, and every file tried in vain has ended (lib/results.go   *)
(* NewRoundRobinDecoder).                                                  *)
THEOREM ReadInvariant == ReportSpec => []ReadInv
<1>1. ReportInit => ReadInv
  BY ReadInit
<1>2. ReadInv /\ [ReportNext]_vars => ReadInv'
  BY ReadNext
<1>3. QED
  BY <1>1, <1>2, PTL DEF ReportSpec

(* Whatever the files and the pace of the writer, results are read once,   *)
(* in order, without a gap and as they were written, and at the end of the *)
(* input none is left out but an unterminated last line.                   *)
THEOREM ReadsComplete == ReportSpec => []ReadComplete
<1>1. ReadInv => ReadComplete
  <2> SUFFICES ASSUME ReadInv PROVE ReadComplete
    OBVIOUS
  <2> USE DEF ReadInv
  <2>1. Cardinality(Read) = Len(added)
    BY DEF OrderInv
  <2>2. ASSUME NEW p \in Read, NEW q \in Results, q[1] = p[1], q[2] < p[2]
        PROVE  q \in Read
    <3>1. PICK f \in DOMAIN files : \E n \in 1..Size(f) : q = <<f, n>>
      BY DEF Results
    <3>2. PICK n \in 1..Size(f) : q = <<f, n>>
      BY <3>1
    <3>3. files[f].entries[n].kind = "ok"
      BY <3>2 DEF Results
    <3>4. p[2] \in 1..pos[f] /\ pos[f] \in Nat
      BY <2>2, <3>2 DEF OrderInv, ReadType
    <3>5. n \in 1..pos[f]
      <4>1. Size(f) \in Nat
        BY FileFacts
      <4>2. n < p[2]
        BY <2>2, <3>2
      <4>3. QED
        BY <3>4, <4>1, <4>2
    <3>6. QED
      BY <3>2, <3>3, <3>5 DEF OrderInv
  <2>3. \A k \in DOMAIN added :
          LET a == added[k]
          IN \/ a.res = files[a.file].entries[a.n].res
             \/ files[a.file].format = "gob" /\ Damaged /\ Len(files) > 1
    BY DEF ValueInv, Spoilt, N
  <2>4. ASSUME NEW p \in Read PROVE p \in Results
    <3>1. PICK k \in DOMAIN added : p = <<added[k].file, added[k].n>>
      BY DEF Read
    <3>2. p[1] \in DOMAIN files /\ p[2] \in 1..pos[p[1]]
            /\ files[p[1]].entries[p[2]].kind = "ok"
      BY DEF OrderInv
    <3>3. /\ pos[p[1]] \in Nat /\ Size(p[1]) \in Nat
          /\ pos[p[1]] <= Size(p[1])
      <4>1. \A f \in DOMAIN files : Len(files[f].entries) \in Nat
                                      /\ Size(f) \in 0..Len(files[f].entries)
        BY FileFacts
      <4>2. \A f \in DOMAIN files : pos[f] \in Nat /\ pos[f] <= Size(f)
        BY DEF OrderInv, ReadType
      <4>3. QED
        BY <3>2, <4>1, <4>2
    <3>4. p = <<p[1], p[2]>> /\ p[2] \in 1..Size(p[1])
      BY <3>1, <3>2, <3>3
    <3>5. QED
      BY <3>2, <3>4 DEF Results
  <2>5. ASSUME cause = "eof", ~(Damaged /\ Len(files) > 1),
               NEW q \in ReadableResults
        PROVE  q \in Read
    <3>1. \A f \in DOMAIN files : AtEnd(f)
      BY <2>5 DEF EndInv, Spoilt, N
    <3>2. q \in Results /\ q[2] <= Readable(q[1])
      BY DEF ReadableResults
    <3>3. PICK f \in DOMAIN files : \E n \in 1..Size(f) : q = <<f, n>>
      BY <3>2 DEF Results
    <3>4. PICK n \in 1..Size(f) : q = <<f, n>>
      BY <3>3
    <3>5. files[f].entries[n].kind = "ok" /\ n <= Readable(f)
      BY <3>2, <3>4 DEF Results
    <3>6. /\ Size(f) \in Nat /\ Readable(f) \in {Size(f), Size(f) - 1}
          /\ pos[f] \in Nat /\ pos[f] >= Readable(f)
      BY <3>1, FileFacts DEF AtEnd, ReadType
    <3>7. n \in 1..pos[f]
      BY <3>5, <3>6
    <3>8. QED
      BY <3>4, <3>5, <3>7 DEF OrderInv
  <2>6. QED
    BY <2>1, <2>2, <2>3, <2>4, <2>5 DEF ReadComplete
<1>2. QED
  BY <1>1, ReadInvariant, PTL

-----------------------------------------------------------------------------
(* A result of a file is at some time and has one of the status codes.     *)
Timed == {x \in ResultSet : x.ts > 0 /\ x.code \in Codes}

MetricsSet ==
  [requests : Nat, codes : [Codes -> Nat], in : Nat, total : Nat, max : Nat,
   min : Nat, earliest : Nat, latest : Nat, end : Nat, success : Nat,
   errors : SUBSET Errors, duration : Int, wait : Int, rate : Int \X Int,
   throughput : Int \X Int, mean : Int \X Int]

NoZero(rs) == \A k \in DOMAIN rs : rs[k].latency > 0

(* What Metrics hold between Adds, whether or not they were closed.        *)
Tallies(mm, rs) ==
  /\ mm.requests = Len(rs)
  /\ mm.codes = [c \in Codes |-> CountIf(rs, LAMBDA x : x.code = c)]
  /\ mm.in = Total(BytesIn(rs))
  /\ mm.total = Total(Latencies(rs))
  /\ mm.success = CountIf(rs, Success)
  /\ mm.errors = Values(rs, LAMBDA x : x.error) \ {"none"}
Bounds(mm, rs) ==
  \A k \in DOMAIN rs :
    /\ rs[k].latency <= mm.max
    /\ rs[k].ts <= mm.latest
    /\ rs[k].ts >= mm.earliest
    /\ rs[k].ts + rs[k].latency <= mm.end
    /\ NoZero(rs) => rs[k].latency >= mm.min
Attained(mm, rs) ==
  /\ \E k \in DOMAIN rs : rs[k].latency = mm.max
  /\ \E k \in DOMAIN rs : rs[k].ts = mm.latest
  /\ \E k \in DOMAIN rs : rs[k].ts = mm.earliest
  /\ \E k \in DOMAIN rs : rs[k].ts + rs[k].latency = mm.end
  /\ NoZero(rs) => \E k \in DOMAIN rs : rs[k].latency = mm.min
Sound(mm, rs) ==
  /\ mm \in MetricsSet
  /\ Tallies(mm, rs)
  /\ Bounds(mm, rs)
  /\ IF rs = <<>> THEN mm = NewMetrics ELSE Attained(mm, rs)

(* What a report says.                                                     *)
Exact(mm, rs) ==
  \/ mm = MetricsOf(rs)
  \/ ~NoZero(rs) /\ mm = [MetricsOf(rs) EXCEPT !.min = mm.min]

HistSound(hh, b, rs) ==
  /\ hh \in [buckets : Seq(Int), counts : Seq(Nat), total : Nat]
  /\ hh.buckets = b
  /\ b # <<>> =>
       /\ hh.total = Len(rs)
       /\ hh.counts = IF rs = <<>> THEN <<>> ELSE [k \in DOMAIN b |-> CountIn(rs, b, k)]

MetricsInv ==
  /\ cmd \in Commands /\ files \in FileLists[cmd.name]
  /\ r.code \in Codes
  /\ \A k \in DOMAIN added : added[k].res \in Timed
  /\ ticks => cmd.every
  /\ cmd.name = "report" /\ cmd.typ # "hist" => Sound(m, Res(added))
  /\ HistSound(h, Buckets(cmd.buckets), Res(added))
  /\ outcome = "panic" => stage = "done" /\ added = <<>>

WrittenInv ==
  /\ written.n \in -1..Len(added)
  /\ written.n >= 0 =>
       LET rs == SubSeq(Res(added), 1, written.n)
       IN /\ cmd.typ # "hist" => Exact(written.m, rs)
          /\ HistSound(written.h, Buckets(cmd.buckets), rs)

(* The exporter counts the results rs.                                     *)
Coded == {x \in ResultSet : x.code \in Codes}
ExporterSet == [requests : [Codes -> Nat], in : [Codes -> Nat], failed : Nat]
Counts(e, rs) ==
  /\ e \in ExporterSet
  /\ e.requests = [c \in Codes |-> CountIf(rs, LAMBDA x : x.code = c)]
  /\ e.in = [c \in Codes |-> Total(BytesOf(rs, c))]
ExporterInv ==
  \/ Counts(exporter, InFile(avail))
  \/ /\ writer = "closed" /\ avail < Len(files[1].entries)
     /\ Counts(exporter, InFile(avail + 1))

-----------------------------------------------------------------------------
(* Induction along 0..n: a set that holds 0, and with k also k + 1, holds  *)
(* them all.  The least number it lacked would have a predecessor.         *)
LEMMA Ascend ==
  ASSUME NEW n \in Nat, NEW S, 0 \in S,
         \A k \in 0..(n - 1) : k \in S => k + 1 \in S
  PROVE  0..n \subseteq S
<1> DEFINE T == {k \in 0..n : k \notin S}
<1> SUFFICES ASSUME T # {} PROVE FALSE
  OBVIOUS
<1>1. T \subseteq Nat
  OBVIOUS
<1>2. PICK k \in T : \A j \in T : ~(<<j, k>> \in OpToRel(<, Nat))
  BY <1>1, NatLessThanWellFounded, WFMin
<1>3. k \in 0..n /\ k \notin S /\ k # 0
  BY <1>2
<1>4. k - 1 \in 0..(n - 1) /\ k - 1 \in 0..n
  BY <1>3
<1>5. <<k - 1, k>> \in OpToRel(<, Nat)
  BY <1>3 DEF OpToRel
<1>6. k - 1 \notin T
  BY <1>2, <1>5
<1>7. k - 1 \in S
  BY <1>4, <1>6
<1>8. QED
  BY <1>3, <1>4, <1>7

(* A recursion from k to k + 1 along 0..n has a solution.                  *)
Solves(s, n, V, v, g) ==
  s \in [0..n -> V] /\ s[0] = v /\ \A k \in 1..n : s[k] = g[k][s[k - 1]]

LEMMA Recursion ==
  ASSUME NEW n \in Nat, NEW V, NEW v \in V, NEW g \in [1..n -> [V -> V]]
  PROVE  \E s : Solves(s, n, V, v, g)
<1> USE DEF Solves
<1> DEFINE Upto(q) == \E s : Solves(s, q, V, v, g)
           S == {q \in 0..n : Upto(q)}
<1>1. 0 \in S
  <2> DEFINE s == [k \in 0..0 |-> v]
  <2>1. s \in [0..0 -> V]
    OBVIOUS
  <2>2. s[0] = v /\ \A k \in 1..0 : s[k] = g[k][s[k - 1]]
    <3>1. 0 \in 0..0 /\ \A k \in 1..0 : FALSE
      OBVIOUS
    <3>2. QED
      BY <3>1
  <2> HIDE DEF s
  <2>3. Upto(0)
    BY <2>1, <2>2
  <2>4. QED
    BY <2>3
<1>2. ASSUME NEW q \in 0..(n - 1), q \in S PROVE q + 1 \in S
  <2>1. PICK s \in [0..q -> V] : s[0] = v /\ \A k \in 1..q : s[k] = g[k][s[k - 1]]
    BY <1>2
  <2> DEFINE t == [k \in 0..(q + 1) |-> IF k <= q THEN s[k] ELSE g[k][s[k - 1]]]
  <2>2. t \in [0..(q + 1) -> V]
    <3>1. ASSUME NEW k \in 0..(q + 1)
          PROVE  (IF k <= q THEN s[k] ELSE g[k][s[k - 1]]) \in V
      <4>1. CASE k <= q
        BY <4>1
      <4>2. CASE k = q + 1
        <5>1. k \in 1..n /\ k - 1 \in 0..q /\ ~(k <= q)
          BY <4>2
        <5>2. QED
          BY <5>1
      <4>3. QED
        BY <4>1, <4>2
    <3>2. QED
      BY <3>1
  <2>3. t[0] = v
    BY <2>1
  <2>4. \A k \in 1..(q + 1) : t[k] = g[k][t[k - 1]]
    <3> TAKE k \in 1..(q + 1)
    <3>1. k \in 0..(q + 1) /\ k - 1 \in 0..(q + 1) /\ k - 1 <= q
      OBVIOUS
    <3>2. t[k - 1] = s[k - 1]
      BY <3>1
    <3>3. k <= q => k \in 1..q
      OBVIOUS
    <3>4. QED
      BY <3>1, <3>2, <3>3, <2>1
  <2> HIDE DEF t
  <2>5. Upto(q + 1)
    BY <2>2, <2>3, <2>4
  <2>6. q + 1 \in 0..n
    OBVIOUS
  <2> HIDE DEF Upto
  <2>7. QED
    BY <2>5, <2>6
<1>3. n \in S
  <2> HIDE DEF S
  <2>1. 0..n \subseteq S
    BY <1>1, <1>2, Ascend
  <2>2. QED
    BY <2>1
<1>4. QED
  BY <1>3

(* The recursive function of the running sums is well defined.            *)
LEMMA SumsOver ==
  ASSUME NEW V, 0 \in V, \A x, y \in V : x + y \in V, NEW ns \in Seq(V)
  PROVE  /\ Sums(ns) \in [0..Len(ns) -> V] /\ Sums(ns)[0] = 0
         /\ \A k \in 1..Len(ns) : Sums(ns)[k] = Sums(ns)[k - 1] + ns[k]
<1> DEFINE n == Len(ns)
           g == [k \in 1..n |-> [x \in V |-> x + ns[k]]]
           Sat(s) == s = [k \in 0..n |-> IF k = 0 THEN 0 ELSE s[k - 1] + ns[k]]
<1>1. n \in Nat /\ \A k \in 1..n : ns[k] \in V
  OBVIOUS
<1>2. PICK s \in [0..n -> V] : s[0] = 0 /\ \A k \in 1..n : s[k] = g[k][s[k - 1]]
  <2>1. g \in [1..n -> [V -> V]]
    BY <1>1
  <2> HIDE DEF g, n
  <2>2. n \in Nat /\ 0 \in V
    BY <1>1
  <2>3. \E s : Solves(s, n, V, 0, g)
    BY <2>1, <2>2, Recursion
  <2>4. QED
    BY <2>3 DEF Solves
<1>3. Sat(s)
  <2>1. ASSUME NEW k \in 1..n PROVE s[k] = s[k - 1] + ns[k]
    <3>1. s[k - 1] \in V
      <4>1. k - 1 \in 0..n
        BY <1>1
      <4>2. QED
        BY <1>2, <4>1
    <3>2. g[k][s[k - 1]] = s[k - 1] + ns[k]
      BY <3>1
    <3>3. QED
      BY <1>2, <3>2
  <2> HIDE DEF n
  <2>2. \A k \in 0..n : k = 0 \/ k \in 1..n
    BY <1>1
  <2>3. \A k \in 0..n : s[k] = IF k = 0 THEN 0 ELSE s[k - 1] + ns[k]
    BY <1>2, <2>1, <2>2
  <2>4. QED
    BY <2>3 DEF n
<1>4. Sums(ns) = CHOOSE t : Sat(t)
  BY DEF Sums
<1> DEFINE t == Sums(ns)
<1>5. Sat(t)
  BY <1>3, <1>4
<1> HIDE DEF t, n
<1>6. /\ DOMAIN t = 0..n
      /\ \A k \in 0..n : t[k] = IF k = 0 THEN 0 ELSE t[k - 1] + ns[k]
  <2> DEFINE F == [k \in 0..n |-> IF k = 0 THEN 0 ELSE t[k - 1] + ns[k]]
  <2>1. t = F
    BY <1>5
  <2>2. DOMAIN F = 0..n /\ \A k \in 0..n : F[k] = IF k = 0 THEN 0 ELSE t[k - 1] + ns[k]
    OBVIOUS
  <2> HIDE DEF F
  <2>3. QED
    BY <2>1, <2>2
<1>7. \A k \in 0..n : t[k] \in V
  <2> DEFINE S == {k \in 0..n : t[k] \in V}
  <2>1. 0 \in S
    BY <1>1, <1>6
  <2>2. ASSUME NEW k \in 0..(n - 1), k \in S PROVE k + 1 \in S
    <3>1. k + 1 \in 0..n /\ k + 1 \in 1..n /\ k + 1 # 0 /\ (k + 1) - 1 = k
      BY <1>1
    <3>2. t[k + 1] = t[k] + ns[k + 1]
      BY <1>6, <3>1
    <3>3. QED
      BY <1>1, <2>2, <3>1, <3>2, SMTT(60)
  <2> HIDE DEF S
  <2>3. 0..n \subseteq S
    BY <1>1, <2>1, <2>2, Ascend
  <2>4. QED
    BY <2>3 DEF S
<1>8. t = [k \in 0..n |-> IF k = 0 THEN 0 ELSE t[k - 1] + ns[k]]
  BY <1>5
<1>9. t \in [0..n -> V]
  BY <1>7, <1>8
<1>10. \A k \in 1..n : t[k] = t[k - 1] + ns[k]
  BY <1>1, <1>6
<1>11. t[0] = 0
  BY <1>1, <1>6
<1>12. QED
  BY <1>9, <1>10, <1>11 DEF t, n

(* So are those of naturals.                                              *)
LEMMA SumsFacts ==
  ASSUME NEW ns \in Seq(Nat)
  PROVE  /\ Sums(ns) \in [0..Len(ns) -> Nat] /\ Sums(ns)[0] = 0
         /\ \A k \in 1..Len(ns) : Sums(ns)[k] = Sums(ns)[k - 1] + ns[k]
<1>1. 0 \in Nat /\ \A x, y \in Nat : x + y \in Nat
  OBVIOUS
<1>2. QED
  BY <1>1, SumsOver

(* A number more in a sequence adds to its total.                          *)
LEMMA TotalAppend ==
  ASSUME NEW ns \in Seq(Nat), NEW x \in Nat
  PROVE  /\ Total(<<>>) = 0 /\ Total(ns) \in Nat
         /\ Total(Append(ns, x)) = Total(ns) + x
<1> DEFINE n == Len(ns)
           ms == Append(ns, x)
           s == Sums(ns)
           t == Sums(ms)
<1>1. /\ n \in Nat /\ ms \in Seq(Nat) /\ Len(ms) = n + 1
      /\ ms[n + 1] = x /\ \A k \in 1..n : ms[k] = ns[k]
  OBVIOUS
<1> HIDE DEF ms
<1>2. /\ s \in [0..n -> Nat] /\ s[0] = 0 /\ \A k \in 1..n : s[k] = s[k - 1] + ns[k]
  BY SumsFacts
<1>3. t \in [0..(n + 1) -> Nat] /\ t[0] = 0 /\ \A k \in 1..(n + 1) : t[k] = t[k - 1] + ms[k]
  BY <1>1, SumsFacts
<1> HIDE DEF s, t, n
<1>4. \A k \in 0..n : t[k] = s[k]
  <2> DEFINE S == {k \in 0..n : t[k] = s[k]}
  <2>1. 0 \in S
    BY <1>1, <1>2, <1>3
  <2>2. ASSUME NEW k \in 0..(n - 1), k \in S PROVE k + 1 \in S
    <3>1. k + 1 \in 0..n /\ k + 1 \in 1..n /\ k + 1 \in 1..(n + 1) /\ (k + 1) - 1 = k
      BY <1>1
    <3>2. t[k + 1] = t[k] + ms[k + 1] /\ s[k + 1] = s[k] + ns[k + 1]
      BY <1>2, <1>3, <3>1
    <3>3. QED
      BY <1>1, <2>2, <3>1, <3>2
  <2> HIDE DEF S
  <2>3. 0..n \subseteq S
    BY <1>1, <2>1, <2>2, Ascend
  <2>4. QED
    BY <2>3 DEF S
<1>5. n + 1 \in 1..(n + 1) /\ n \in 0..n /\ (n + 1) - 1 = n
  BY <1>1
<1>6. t[n + 1] = s[n] + x
  BY <1>1, <1>3, <1>4, <1>5
<1>7. Total(<<>>) = 0
  <2>1. <<>> \in Seq(Nat) /\ Len(<<>>) = 0
    OBVIOUS
  <2>2. Sums(<<>>)[0] = 0
    BY <2>1, SumsFacts
  <2>3. QED
    BY <2>1, <2>2 DEF Total
<1>8. Total(ns) = s[n] /\ Total(ms) = t[n + 1]
  BY <1>1 DEF Total, s, t, n
<1>9. s[n] \in Nat
  BY <1>2, <1>5
<1>10. QED
  BY <1>6, <1>7, <1>8, <1>9 DEF ms

(* Counting: one more element of 1..(n + 1) than of 1..n, or none.         *)
LEMMA CountGrows ==
  ASSUME NEW n \in Nat, NEW S \in SUBSET (1..n), NEW T \in SUBSET (1..(n + 1)),
         \A k \in 1..n : k \in T <=> k \in S
  PROVE  /\ Cardinality(S) \in Nat
         /\ Cardinality(T) = Cardinality(S) + (IF n + 1 \in T THEN 1 ELSE 0)
<1>1. IsFiniteSet(S) /\ Cardinality(S) \in Nat
  <2>1. IsFiniteSet(1..n)
    BY FS_Interval
  <2>2. QED
    BY <2>1, FS_Subset, FS_CardinalityType
<1>4. /\ \A k \in T : k \in S \/ k = n + 1
      /\ \A k \in S : k \in T
      /\ n + 1 \notin S
  <2>1. \A k \in 1..(n + 1) : k \in 1..n \/ k = n + 1
    OBVIOUS
  <2>2. ~(n + 1 \in 1..n)
    OBVIOUS
  <2>3. QED
    BY <2>1, <2>2
<1>2. CASE n + 1 \in T
  <2>1. T = S \cup {n + 1} /\ n + 1 \notin S
    BY <1>4, <1>2
  <2>2. QED
    BY <1>1, <1>2, <2>1, FS_AddElement
<1>3. CASE n + 1 \notin T
  <2>1. T = S
    BY <1>4, <1>3
  <2>2. QED
    BY <1>1, <1>3, <2>1
<1>5. QED
  BY <1>2, <1>3

LEMMA MaxIs ==
  ASSUME NEW S \in SUBSET Int, NEW x \in S, \A y \in S : y <= x
  PROVE  Max(S) = x
<1> DEFINE y == Max(S)
<1>1. y \in S /\ \A z \in S : y >= z
  BY DEF Max
<1> HIDE DEF y
<1>2. y \in Int /\ x \in Int /\ y >= x /\ x >= y
  BY <1>1
<1>3. y = x
  BY <1>2
<1>4. QED
  BY <1>3 DEF y

LEMMA MinIs ==
  ASSUME NEW S \in SUBSET Int, NEW x \in S, \A y \in S : x <= y
  PROVE  Min(S) = x
<1> DEFINE y == Min(S)
<1>1. y \in S /\ \A z \in S : y <= z
  BY DEF Min
<1> HIDE DEF y
<1>2. y \in Int /\ x \in Int /\ y <= x /\ x <= y
  BY <1>1
<1>3. y = x
  BY <1>2
<1>4. QED
  BY <1>3 DEF y

LEMMA TotalGrows ==
  ASSUME NEW n \in Nat, NEW f \in [1..n -> Nat], NEW g \in [1..(n + 1) -> Nat],
         \A k \in 1..n : g[k] = f[k]
  PROVE  /\ Total(f) \in Nat
         /\ Total(g) = Total(f) + g[n + 1]
<1>1. f \in Seq(Nat) /\ Len(f) = n
  OBVIOUS
<1>2. g[n + 1] \in Nat
  OBVIOUS
<1>3. g = Append(f, g[n + 1])
  <2>1. Append(f, g[n + 1]) = [k \in 1..(n + 1) |-> IF k = n + 1 THEN g[n + 1] ELSE f[k]]
    BY <1>1, <1>2
  <2>2. \A k \in 1..(n + 1) : k = n + 1 \/ k \in 1..n
    OBVIOUS
  <2>3. \A k \in 1..(n + 1) : g[k] = IF k = n + 1 THEN g[n + 1] ELSE f[k]
    BY <2>2
  <2>4. QED
    BY <2>1, <2>3
<1>4. QED
  BY <1>1, <1>2, <1>3, TotalAppend

(* One more result.                                                        *)
LEMMA OneMore ==
  ASSUME NEW R, NEW rs \in Seq(R), NEW x \in R
  PROVE  /\ Len(rs) \in Nat /\ Len(Append(rs, x)) = Len(rs) + 1
         /\ Append(rs, x) \in Seq(R)
         /\ DOMAIN rs = 1..Len(rs) /\ DOMAIN Append(rs, x) = 1..(Len(rs) + 1)
         /\ \A k \in 1..Len(rs) : Append(rs, x)[k] = rs[k] /\ rs[k] \in R
         /\ Append(rs, x)[Len(rs) + 1] = x /\ Append(rs, x) # <<>>
OBVIOUS

(* Metrics.Add keeps its Metrics sound.                                    *)
LEMMA TimedFacts ==
  ASSUME NEW x \in Timed
  PROVE  /\ x.latency \in Nat /\ x.ts \in Nat /\ x.ts > 0 /\ x.in \in Nat
         /\ x.code \in Codes /\ x.code \in Nat /\ x.error \in Errors
         /\ Success(x) \in BOOLEAN
BY DEF Timed, ResultSet, Success

(* What Add changes.                                                       *)
Added(q, mm, x) ==
  /\ q.requests = mm.requests + 1
  /\ q.codes = [mm.codes EXCEPT ![x.code] = @ + 1]
  /\ q.in = mm.in + x.in /\ q.total = mm.total + x.latency
  /\ q.max = After(mm.max, x.latency)
  /\ q.min = IF x.latency < mm.min \/ mm.min = 0 THEN x.latency ELSE mm.min
  /\ q.earliest = IF mm.earliest = 0 \/ mm.earliest > x.ts THEN x.ts ELSE mm.earliest
  /\ q.latest = After(mm.latest, x.ts)
  /\ q.end = After(mm.end, x.ts + x.latency)
  /\ q.success = IF Success(x) THEN mm.success + 1 ELSE mm.success
  /\ q.errors = IF x.error = "none" THEN mm.errors ELSE mm.errors \cup {x.error}

LEMMA AddFields ==
  ASSUME NEW mm \in MetricsSet, NEW x \in Timed
  PROVE  Added(MetricsAdd(mm, x), mm, x) /\ MetricsAdd(mm, x) \in MetricsSet
<1> USE TimedFacts DEF MetricsSet
<1> DEFINE q == MetricsAdd(mm, x)
<1>1. Added(q, mm, x)
  BY DEF MetricsAdd, Added
<1>2. q \in MetricsSet
  <2> DEFINE a == mm.requests + 1
             b == [mm.codes EXCEPT ![x.code] = mm.codes[x.code] + 1]
             c == mm.in + x.in
             d == mm.total + x.latency
             e == After(mm.max, x.latency)
             f == IF x.latency < mm.min \/ mm.min = 0 THEN x.latency ELSE mm.min
             g == IF mm.earliest = 0 \/ mm.earliest > x.ts THEN x.ts ELSE mm.earliest
             i == After(mm.latest, x.ts)
             j == After(mm.end, x.ts + x.latency)
             k == IF Success(x) THEN mm.success + 1 ELSE mm.success
             l == IF x.error = "none" THEN mm.errors ELSE mm.errors \cup {x.error}
  <2>1. q = [mm EXCEPT !.requests = a, !.codes = b, !.in = c, !.total = d,
                       !.max = e, !.min = f, !.earliest = g, !.latest = i,
                       !.end = j, !.success = k, !.errors = l]
    BY DEF MetricsAdd
  <2>2. /\ a \in Nat /\ c \in Nat /\ d \in Nat /\ e \in Nat /\ f \in Nat /\ g \in Nat
        /\ i \in Nat /\ j \in Nat /\ k \in Nat
    BY DEF After
  <2>3. b \in [Codes -> Nat] /\ l \in SUBSET Errors
    OBVIOUS
  <2> HIDE DEF q, a, b, c, d, e, f, g, i, j, k, l
  <2>4. QED
    BY <2>1, <2>2, <2>3
<1>3. QED
  BY <1>1, <1>2

LEMMA AddTallies ==
  ASSUME NEW mm \in MetricsSet, NEW rs \in Seq(Timed), NEW x \in Timed,
         Tallies(mm, rs)
  PROVE  Tallies(MetricsAdd(mm, x), Append(rs, x))
<1> DEFINE q == MetricsAdd(mm, x)
           qs == Append(rs, x)
           n == Len(rs)
<1>1. /\ n \in Nat /\ Len(qs) = n + 1
      /\ DOMAIN rs = 1..n /\ DOMAIN qs = 1..(n + 1)
      /\ \A k \in 1..n : qs[k] = rs[k] /\ rs[k] \in Timed
      /\ qs[n + 1] = x
  BY OneMore
<1>2. /\ q.requests = mm.requests + 1
      /\ q.codes = [mm.codes EXCEPT ![x.code] = @ + 1]
      /\ q.in = mm.in + x.in /\ q.total = mm.total + x.latency
      /\ q.success = IF Success(x) THEN mm.success + 1 ELSE mm.success
      /\ q.errors = IF x.error = "none" THEN mm.errors
                    ELSE mm.errors \cup {x.error}
      /\ mm.codes \in [Codes -> Nat] /\ mm.success \in Nat /\ x.code \in Codes
  <2>1. Added(q, mm, x)
    BY AddFields
  <2> HIDE DEF q
  <2>2. QED
    BY <2>1, TimedFacts DEF Added, MetricsSet
<1>3. \A k \in 1..n : k \in 1..(n + 1) /\ k # n + 1
  BY <1>1
<1>4. n + 1 \in 1..(n + 1)
  BY <1>1
<1>5. \A k \in 1..(n + 1) : k \in 1..n \/ k = n + 1
  BY <1>1
<1>6. /\ mm.requests = n
      /\ mm.codes = [c \in Codes |-> Cardinality({k \in 1..n : rs[k].code = c})]
      /\ mm.in = Total(BytesIn(rs)) /\ mm.total = Total(Latencies(rs))
      /\ mm.success = Cardinality({k \in 1..n : Success(rs[k])})
      /\ mm.errors = {rs[k].error : k \in 1..n} \ {"none"}
  BY <1>1 DEF Tallies, CountIf, Values
<1> HIDE DEF q, qs, n
<1>7. q.requests = Len(qs)
  BY <1>1, <1>2, <1>6
<1>8. q.codes = [c \in Codes |-> CountIf(qs, LAMBDA y : y.code = c)]
  <2>1. ASSUME NEW c \in Codes
        PROVE  q.codes[c] = Cardinality({k \in 1..(n + 1) : qs[k].code = c})
    <3> DEFINE S == {k \in 1..n : rs[k].code = c}
               T == {k \in 1..(n + 1) : qs[k].code = c}
    <3>1. \A k \in 1..n : k \in T <=> k \in S
      BY <1>1, <1>3
    <3>2. n + 1 \in T <=> x.code = c
      BY <1>1, <1>4
    <3>3. S \in SUBSET (1..n) /\ T \in SUBSET (1..(n + 1))
      OBVIOUS
    <3>4. mm.codes[c] = Cardinality(S)
      BY <1>6
    <3>5. q.codes[c] = IF x.code = c THEN mm.codes[c] + 1 ELSE mm.codes[c]
      BY <1>2
    <3> HIDE DEF S, T
    <3>6. /\ Cardinality(S) \in Nat
          /\ Cardinality(T) = Cardinality(S) + (IF n + 1 \in T THEN 1 ELSE 0)
      BY <1>1, <3>1, <3>3, CountGrows
    <3>7. q.codes[c] = Cardinality(T)
      BY <3>2, <3>4, <3>5, <3>6
    <3>8. QED
      BY <3>7 DEF T
  <2>2. q.codes = [c \in Codes |-> q.codes[c]]
    BY <1>2
  <2>3. QED
    BY <1>1, <2>1, <2>2 DEF CountIf
<1>9. q.success = CountIf(qs, Success)
  <2> DEFINE S == {k \in 1..n : Success(rs[k])}
             T == {k \in 1..(n + 1) : Success(qs[k])}
  <2>1. \A k \in 1..n : k \in T <=> k \in S
    BY <1>1, <1>3
  <2>2. n + 1 \in T <=> Success(x)
    BY <1>1, <1>4
  <2>3. S \in SUBSET (1..n) /\ T \in SUBSET (1..(n + 1))
    OBVIOUS
  <2>4. mm.success = Cardinality(S) /\ CountIf(qs, Success) = Cardinality(T)
    BY <1>1, <1>6 DEF CountIf
  <2> HIDE DEF S, T
  <2>5. /\ Cardinality(S) \in Nat
        /\ Cardinality(T) = Cardinality(S) + (IF n + 1 \in T THEN 1 ELSE 0)
    BY <1>1, <2>1, <2>3, CountGrows
  <2>6. QED
    BY <1>2, <2>2, <2>4, <2>5
<1>10. q.in = Total(BytesIn(qs))
  <2> DEFINE f == BytesIn(rs)
             g == BytesIn(qs)
  <2>1. f = [k \in 1..n |-> rs[k].in] /\ g = [k \in 1..(n + 1) |-> qs[k].in]
    BY <1>1 DEF BytesIn
  <2>2. /\ \A k \in 1..n : rs[k].in \in Nat /\ qs[k].in = rs[k].in
        /\ qs[n + 1].in = x.in /\ x.in \in Nat
    BY <1>1, TimedFacts
  <2>3. \A k \in 1..(n + 1) : qs[k].in \in Nat
    BY <1>5, <2>2
  <2> HIDE DEF f, g
  <2>4. /\ f \in [1..n -> Nat] /\ g \in [1..(n + 1) -> Nat]
        /\ \A k \in 1..n : g[k] = f[k]
        /\ g[n + 1] = x.in
    BY <1>3, <1>4, <2>1, <2>2, <2>3
  <2>5. Total(g) = Total(f) + g[n + 1]
    BY <1>1, <2>4, TotalGrows
  <2>6. QED
    BY <1>2, <1>6, <2>4, <2>5 DEF f, g
<1>11. q.total = Total(Latencies(qs))
  <2> DEFINE f == Latencies(rs)
             g == Latencies(qs)
  <2>1. f = [k \in 1..n |-> rs[k].latency] /\ g = [k \in 1..(n + 1) |-> qs[k].latency]
    BY <1>1 DEF Latencies
  <2>2. /\ \A k \in 1..n : rs[k].latency \in Nat /\ qs[k].latency = rs[k].latency
        /\ qs[n + 1].latency = x.latency /\ x.latency \in Nat
    BY <1>1, TimedFacts
  <2>3. \A k \in 1..(n + 1) : qs[k].latency \in Nat
    BY <1>5, <2>2
  <2> HIDE DEF f, g
  <2>4. /\ f \in [1..n -> Nat] /\ g \in [1..(n + 1) -> Nat]
        /\ \A k \in 1..n : g[k] = f[k]
        /\ g[n + 1] = x.latency
    BY <1>3, <1>4, <2>1, <2>2, <2>3
  <2>5. Total(g) = Total(f) + g[n + 1]
    BY <1>1, <2>4, TotalGrows
  <2>6. QED
    BY <1>2, <1>6, <2>4, <2>5 DEF f, g
<1>12. q.errors = Values(qs, LAMBDA y : y.error) \ {"none"}
  <2>1. {qs[k].error : k \in 1..(n + 1)} = {rs[k].error : k \in 1..n} \cup {x.error}
    BY <1>1, <1>3, <1>4, <1>5
  <2>2. q.errors = {qs[k].error : k \in 1..(n + 1)} \ {"none"}
    <3> HIDE DEF qs
    <3>1. QED
      BY <1>2, <1>6, <2>1
  <2>3. QED
    BY <1>1, <2>2 DEF Values
<1>13. QED
  BY <1>7, <1>8, <1>9, <1>10, <1>11, <1>12 DEF Tallies, q, qs

LEMMA AddSound ==
  ASSUME NEW mm, NEW rs \in Seq(Timed), NEW x \in Timed, Sound(mm, rs)
  PROVE  Sound(MetricsAdd(mm, x), Append(rs, x))
<1> DEFINE q == MetricsAdd(mm, x)
           qs == Append(rs, x)
           n == Len(rs)
<1>1. /\ n \in Nat /\ Len(qs) = n + 1
      /\ DOMAIN rs = 1..n /\ DOMAIN qs = 1..(n + 1)
      /\ \A k \in 1..n : qs[k] = rs[k] /\ rs[k] \in Timed
      /\ qs[n + 1] = x /\ qs # <<>>
  BY OneMore
<1>2. mm \in MetricsSet /\ Tallies(mm, rs) /\ Bounds(mm, rs)
  BY DEF Sound
<1>3. Added(q, mm, x) /\ q \in MetricsSet /\ Tallies(q, qs)
  BY <1>2, AddFields, AddTallies
<1>4. /\ q.max = After(mm.max, x.latency)
      /\ q.min = IF x.latency < mm.min \/ mm.min = 0 THEN x.latency ELSE mm.min
      /\ q.earliest = IF mm.earliest = 0 \/ mm.earliest > x.ts THEN x.ts
                      ELSE mm.earliest
      /\ q.latest = After(mm.latest, x.ts)
      /\ q.end = After(mm.end, x.ts + x.latency)
  <2> HIDE DEF q
  <2>1. QED
    BY <1>3 DEF Added
<1>5. /\ mm.max \in Nat /\ mm.min \in Nat /\ mm.earliest \in Nat /\ mm.latest \in Nat
      /\ mm.end \in Nat /\ x.latency \in Nat /\ x.ts \in Nat /\ x.ts > 0
  BY <1>2, TimedFacts DEF MetricsSet
<1>6. \A k \in 1..n : rs[k].latency \in Nat /\ rs[k].ts \in Nat /\ rs[k].ts > 0
  BY <1>1, TimedFacts
<1>7. /\ \A k \in 1..(n + 1) : k \in 1..n \/ k = n + 1
      /\ \A k \in 1..n : k \in 1..(n + 1)
      /\ n + 1 \in 1..(n + 1)
  BY <1>1
<1> HIDE DEF q, qs, n
<1>8. NoZero(qs) => NoZero(rs) /\ x.latency > 0
  BY <1>1, <1>7 DEF NoZero
<1>9. CASE n = 0
  <2>1. rs = <<>>
    BY <1>9 DEF n
  <2>2. mm.max = 0 /\ mm.min = 0 /\ mm.earliest = 0 /\ mm.latest = 0 /\ mm.end = 0
    BY <2>1 DEF Sound, NewMetrics
  <2>3. /\ q.max = x.latency /\ q.min = x.latency /\ q.earliest = x.ts
        /\ q.latest = x.ts /\ q.end = x.ts + x.latency
    BY <1>4, <1>5, <2>2 DEF After
  <2>4. \A k \in DOMAIN qs : qs[k] = x
    BY <1>1, <1>9
  <2>5. Bounds(q, qs)
    BY <1>5, <2>3, <2>4 DEF Bounds
  <2>6. Attained(q, qs)
    <3>1. 1 \in DOMAIN qs /\ qs[1] = x
      BY <1>1, <1>9
    <3>2. QED
      BY <2>3, <3>1 DEF Attained
  <2>7. QED
    BY <1>1, <1>3, <2>5, <2>6 DEF Sound, q, qs
<1>10. CASE n # 0
  <2>1. rs # <<>>
    BY <1>10 DEF n
  <2>2. Attained(mm, rs)
    BY <2>1 DEF Sound
  <2>3. /\ \E k \in 1..n : rs[k].latency = mm.max
        /\ \E k \in 1..n : rs[k].ts = mm.latest
        /\ \E k \in 1..n : rs[k].ts = mm.earliest
        /\ \E k \in 1..n : rs[k].ts + rs[k].latency = mm.end
        /\ NoZero(rs) => \E k \in 1..n : rs[k].latency = mm.min
    BY <1>1, <2>2 DEF Attained
  <2>4. mm.earliest > 0
    BY <1>6, <2>3
  <2>5. NoZero(rs) => mm.min > 0
    BY <1>1, <1>6, <2>3 DEF NoZero
  <2>6. ASSUME NEW k \in 1..n
        PROVE  /\ rs[k].latency <= mm.max /\ rs[k].ts <= mm.latest
               /\ rs[k].ts >= mm.earliest /\ rs[k].ts + rs[k].latency <= mm.end
               /\ NoZero(rs) => rs[k].latency >= mm.min
    BY <1>1, <1>2 DEF Bounds
  <2>7. /\ q.max \in Nat /\ q.latest \in Nat /\ q.end \in Nat /\ q.earliest \in Nat
        /\ q.min \in Nat
        /\ q.max >= mm.max /\ q.max >= x.latency
        /\ q.latest >= mm.latest /\ q.latest >= x.ts
        /\ q.earliest <= mm.earliest /\ q.earliest <= x.ts
        /\ q.end >= mm.end /\ q.end >= x.ts + x.latency
    BY <1>4, <1>5, <2>4, SMTT(60) DEF After
  <2>8. NoZero(rs) => q.min <= mm.min /\ q.min <= x.latency
    BY <1>4, <1>5, <2>5
  <2>9. Bounds(q, qs)
    <3> SUFFICES ASSUME NEW k \in 1..(n + 1)
                 PROVE  /\ qs[k].latency <= q.max /\ qs[k].ts <= q.latest
                        /\ qs[k].ts >= q.earliest
                        /\ qs[k].ts + qs[k].latency <= q.end
                        /\ NoZero(qs) => qs[k].latency >= q.min
      BY <1>1 DEF Bounds
    <3>1. CASE k = n + 1
      BY <1>1, <1>8, <2>7, <2>8, <3>1
    <3>2. CASE k \in 1..n
      <4> DEFINE l == rs[k].latency
                 t == rs[k].ts
      <4>1. l \in Nat /\ t \in Nat
        BY <1>6, <3>2
      <4>2. /\ l <= mm.max /\ t <= mm.latest
            /\ t >= mm.earliest /\ t + l <= mm.end
            /\ NoZero(rs) => l >= mm.min
        BY <2>6, <3>2
      <4> HIDE DEF l, t
      <4>3. l <= q.max /\ t <= q.latest
        <5>1. mm.max \in Nat /\ q.max \in Nat /\ mm.latest \in Nat /\ q.latest \in Nat
          BY <1>5, <2>7
        <5>2. l <= mm.max /\ mm.max <= q.max /\ t <= mm.latest /\ mm.latest <= q.latest
          BY <2>7, <4>2
        <5>3. QED
          BY <4>1, <5>1, <5>2
      <4>4. t >= q.earliest
        BY <1>5, <2>7, <4>1, <4>2, SMTT(60)
      <4>5. t + l <= q.end
        BY <1>5, <2>7, <4>1, <4>2, SMTT(60)
      <4>6. NoZero(qs) => l >= q.min
        BY <1>5, <1>8, <2>7, <2>8, <4>1, <4>2
      <4>7. qs[k] = rs[k]
        BY <1>1, <3>2
      <4>8. QED
        BY <4>3, <4>4, <4>5, <4>6, <4>7 DEF l, t
    <3>3. QED
      BY <1>7, <3>1, <3>2
  <2>10. /\ q.max = mm.max \/ q.max = x.latency
         /\ q.latest = mm.latest \/ q.latest = x.ts
         /\ q.earliest = mm.earliest \/ q.earliest = x.ts
         /\ q.end = mm.end \/ q.end = x.ts + x.latency
         /\ q.min = mm.min \/ q.min = x.latency
    BY <1>4 DEF After
  <2>11. Attained(q, qs)
    <3>1. \E k \in 1..(n + 1) : qs[k].latency = q.max
      BY <1>1, <1>7, <2>3, <2>10
    <3>2. \E k \in 1..(n + 1) : qs[k].ts = q.latest
      BY <1>1, <1>7, <2>3, <2>10
    <3>3. \E k \in 1..(n + 1) : qs[k].ts = q.earliest
      BY <1>1, <1>7, <2>3, <2>10
    <3>4. \E k \in 1..(n + 1) : qs[k].ts + qs[k].latency = q.end
      BY <1>1, <1>7, <2>3, <2>10
    <3>5. NoZero(qs) => \E k \in 1..(n + 1) : qs[k].latency = q.min
      BY <1>1, <1>7, <1>8, <2>3, <2>10
    <3>6. QED
      BY <1>1, <3>1, <3>2, <3>3, <3>4, <3>5 DEF Attained
  <2>12. QED
    BY <1>1, <1>3, <2>9, <2>11 DEF Sound, q, qs
<1>11. QED
  BY <1>9, <1>10

(* Metrics are the record of their fields.                                 *)
WithMin(q, low) ==
  [requests |-> q.requests, codes |-> q.codes, in |-> q.in, total |-> q.total,
   max |-> q.max, min |-> low, earliest |-> q.earliest, latest |-> q.latest,
   end |-> q.end, success |-> q.success, errors |-> q.errors,
   duration |-> q.duration, wait |-> q.wait, rate |-> q.rate,
   throughput |-> q.throughput, mean |-> q.mean]

LEMMA MetricsRecord ==
  ASSUME NEW q \in MetricsSet
  PROVE  q = WithMin(q, q.min)
BY DEF MetricsSet, WithMin

LEMMA MetricsMin ==
  ASSUME NEW q, NEW low
  PROVE  [WithMin(q, low) EXCEPT !.min = q.min] = WithMin(q, q.min)
BY DEF WithMin

(* Metrics.Close keeps its Metrics sound too, and makes them exact.        *)
LEMMA CloseSound ==
  ASSUME NEW mm, NEW rs \in Seq(Timed), Sound(mm, rs)
  PROVE  Sound(MetricsClose(mm), rs) /\ Exact(MetricsClose(mm), rs)
<1> DEFINE q == MetricsClose(mm)
           n == Len(rs)
<1>1. /\ n \in Nat /\ DOMAIN rs = 1..n /\ \A k \in 1..n : rs[k] \in Timed
      /\ rs = <<>> <=> n = 0
  OBVIOUS
<1>2. mm \in MetricsSet /\ Tallies(mm, rs) /\ Bounds(mm, rs) /\ mm.requests = n
  BY DEF Sound, Tallies
<1>3. CASE n = 0
  <2>1. q = mm /\ mm = NewMetrics /\ rs = <<>>
    BY <1>1, <1>2, <1>3 DEF MetricsClose, Sound
  <2>2. MetricsOf(rs) = NewMetrics
    BY <2>1 DEF MetricsOf
  <2>3. QED
    BY <2>1, <2>2 DEF Exact
<1>4. CASE n # 0
  <2> DEFINE d == mm.latest - mm.earliest
             w == mm.end - mm.latest
             rate == <<mm.requests, IF d > 0 THEN d ELSE 1>>
             thr == <<mm.success, IF d > 0 THEN d + w ELSE 1>>
             mean == <<mm.total, mm.requests>>
  <2>1. q = [mm EXCEPT !.duration = d, !.wait = w, !.rate = rate,
                       !.throughput = thr, !.mean = mean]
    BY <1>2, <1>4 DEF MetricsClose
  <2>2. /\ mm.requests \in Nat /\ mm.success \in Nat /\ mm.total \in Nat
        /\ mm.latest \in Nat /\ mm.earliest \in Nat /\ mm.end \in Nat
        /\ mm.max \in Nat
    BY <1>2 DEF MetricsSet
  <2>3. /\ d \in Int /\ w \in Int /\ rate \in Int \X Int /\ thr \in Int \X Int
        /\ mean \in Int \X Int
    <3>1. /\ d \in Int /\ w \in Int /\ d + w \in Int /\ 1 \in Int
          /\ mm.requests \in Int /\ mm.success \in Int /\ mm.total \in Int
      <4>1. d \in Int
        BY <2>2
      <4>2. w \in Int
        BY <2>2
      <4>3. mm.requests \in Int /\ mm.success \in Int /\ mm.total \in Int
        BY <2>2
      <4> HIDE DEF d, w
      <4>4. QED
        BY <4>1, <4>2, <4>3
    <3>2. (IF d > 0 THEN d ELSE 1) \in Int /\ (IF d > 0 THEN d + w ELSE 1) \in Int
      BY <3>1
    <3> HIDE DEF d, w
    <3>3. rate \in Int \X Int
      BY <3>1, <3>2
    <3>4. thr \in Int \X Int
      BY <3>1, <3>2
    <3>5. mean \in Int \X Int
      BY <3>1
    <3> HIDE DEF rate, thr, mean
    <3>6. QED
      BY <3>1, <3>3, <3>4, <3>5
  <2>4. q \in MetricsSet
    <3> HIDE DEF d, w, rate, thr, mean, q
    <3>1. QED
      BY <1>2, <2>1, <2>3 DEF MetricsSet
  <2>5. /\ q.requests = mm.requests /\ q.codes = mm.codes /\ q.in = mm.in
        /\ q.total = mm.total /\ q.max = mm.max /\ q.min = mm.min
        /\ q.earliest = mm.earliest /\ q.latest = mm.latest /\ q.end = mm.end
        /\ q.success = mm.success /\ q.errors = mm.errors
        /\ q.duration = d /\ q.wait = w /\ q.rate = rate /\ q.throughput = thr
        /\ q.mean = mean
    <3> HIDE DEF d, w, rate, thr, mean, q
    <3>1. QED
      BY <1>2, <2>1 DEF MetricsSet
  <2> HIDE DEF q
  <2>6. Attained(mm, rs) /\ rs # <<>>
    BY <1>1, <1>4 DEF Sound
  <2>7. Sound(q, rs)
    <3>1. Tallies(q, rs)
      BY <1>2, <2>5 DEF Tallies
    <3>2. Bounds(q, rs)
      BY <1>2, <2>5 DEF Bounds
    <3>3. Attained(q, rs)
      BY <2>5, <2>6 DEF Attained
    <3>4. QED
      BY <2>4, <2>6, <3>1, <3>2, <3>3 DEF Sound
  <2>8. \A k \in 1..n : /\ rs[k].latency \in Int /\ rs[k].ts \in Int
                         /\ rs[k].ts + rs[k].latency \in Int
    BY <1>1, TimedFacts
  <2>9. Max({rs[k].latency : k \in 1..n}) = mm.max
    <3> DEFINE S == {rs[k].latency : k \in 1..n}
    <3>1. S \in SUBSET Int /\ mm.max \in S
      BY <1>1, <2>6, <2>8 DEF Attained
    <3>2. \A y \in S : y <= mm.max
      BY <1>1, <1>2 DEF Bounds
    <3> HIDE DEF S
    <3>3. Max(S) = mm.max
      BY <3>1, <3>2, MaxIs
    <3>4. QED
      BY <3>3 DEF S
  <2>10. Max({rs[k].ts : k \in 1..n}) = mm.latest
    <3> DEFINE S == {rs[k].ts : k \in 1..n}
    <3>1. S \in SUBSET Int /\ mm.latest \in S
      BY <1>1, <2>6, <2>8 DEF Attained
    <3>2. \A y \in S : y <= mm.latest
      BY <1>1, <1>2 DEF Bounds
    <3> HIDE DEF S
    <3>3. Max(S) = mm.latest
      BY <3>1, <3>2, MaxIs
    <3>4. QED
      BY <3>3 DEF S
  <2>11. Max({rs[k].ts + rs[k].latency : k \in 1..n}) = mm.end
    <3> DEFINE S == {rs[k].ts + rs[k].latency : k \in 1..n}
    <3>1. S \in SUBSET Int /\ mm.end \in S
      BY <1>1, <2>6, <2>8 DEF Attained
    <3>2. \A y \in S : y <= mm.end
      BY <1>1, <1>2 DEF Bounds
    <3> HIDE DEF S
    <3>3. Max(S) = mm.end
      BY <3>1, <3>2, MaxIs
    <3>4. QED
      BY <3>3 DEF S
  <2>12. Min({rs[k].ts : k \in 1..n}) = mm.earliest
    <3> DEFINE S == {rs[k].ts : k \in 1..n}
    <3>1. S \in SUBSET Int /\ mm.earliest \in S
      BY <1>1, <2>6, <2>8 DEF Attained
    <3>2. \A y \in S : mm.earliest <= y
      BY <1>1, <1>2, <2>2, <2>8 DEF Bounds
    <3> HIDE DEF S
    <3>3. Min(S) = mm.earliest
      BY <3>1, <3>2, MinIs
    <3>4. QED
      BY <3>3 DEF S
  <2>13. NoZero(rs) => Min({rs[k].latency : k \in 1..n}) = mm.min
    <3> SUFFICES ASSUME NoZero(rs)
                 PROVE  Min({rs[k].latency : k \in 1..n}) = mm.min
      OBVIOUS
    <3> DEFINE S == {rs[k].latency : k \in 1..n}
    <3>1. S \in SUBSET Int /\ mm.min \in S
      BY <1>1, <2>6, <2>8 DEF Attained
    <3>2. \A y \in S : mm.min <= y
      <4>1. mm.min \in Int
        BY <1>2 DEF MetricsSet
      <4>2. QED
        BY <1>1, <1>2, <2>8, <4>1 DEF Bounds
    <3> HIDE DEF S
    <3>3. Min(S) = mm.min
      BY <3>1, <3>2, MinIs
    <3>4. QED
      BY <3>3 DEF S
  <2>14. mm.earliest <= mm.latest
    <3>1. PICK k \in 1..n : rs[k].ts = mm.latest
      BY <1>1, <2>6 DEF Attained
    <3>2. rs[k].ts >= mm.earliest
      BY <1>1, <1>2 DEF Bounds
    <3>3. QED
      BY <2>2, <3>1, <3>2
  <2>15. /\ rate = <<n, IF mm.earliest = mm.latest THEN 1 ELSE mm.latest - mm.earliest>>
         /\ thr = <<mm.success, IF mm.earliest = mm.latest THEN 1
                                ELSE mm.end - mm.earliest>>
    <3>1. d > 0 <=> mm.earliest # mm.latest
      BY <2>2, <2>14
    <3>2. d + w = mm.end - mm.earliest
      BY <2>2
    <3>3. QED
      BY <1>2, <3>1, <3>2
  <2> DEFINE low == Min({rs[k].latency : k \in 1..n})
             high == Max({rs[k].latency : k \in 1..n})
             first == Min({rs[k].ts : k \in 1..n})
             last == Max({rs[k].ts : k \in 1..n})
             end == Max({rs[k].ts + rs[k].latency : k \in 1..n})
             counts == [c \in Codes |-> CountIf(rs, LAMBDA x : x.code = c)]
             ok == CountIf(rs, Success)
             errs == Values(rs, LAMBDA x : x.error) \ {"none"}
  <2>16. MetricsOf(rs) =
           [requests |-> Len(rs), codes |-> counts, in |-> Total(BytesIn(rs)),
            total |-> Total(Latencies(rs)), max |-> high, min |-> low,
            earliest |-> first, latest |-> last, end |-> end, success |-> ok,
            errors |-> errs, duration |-> last - first, wait |-> end - last,
            rate |-> <<Len(rs), IF first = last THEN 1 ELSE last - first>>,
            throughput |-> <<ok, IF first = last THEN 1 ELSE end - first>>,
            mean |-> <<Total(Latencies(rs)), Len(rs)>>]
    <3>1. DOMAIN rs = 1..n /\ rs # <<>>
      BY <1>1, <2>6
    <3> HIDE DEF n
    <3>2. QED
      BY <3>1 DEF MetricsOf, Values
  <2>17. /\ q.requests = Len(rs) /\ q.codes = counts /\ q.in = Total(BytesIn(rs))
         /\ q.total = Total(Latencies(rs)) /\ q.success = ok /\ q.errors = errs
    BY <2>7 DEF Sound, Tallies
  <2>18. /\ high = q.max /\ first = q.earliest /\ last = q.latest /\ end = q.end
         /\ NoZero(rs) => low = q.min
    BY <2>5, <2>9, <2>10, <2>11, <2>12, <2>13
  <2>19. /\ q.duration = q.latest - q.earliest /\ q.wait = q.end - q.latest
         /\ q.rate = <<Len(rs), IF q.earliest = q.latest THEN 1
                                ELSE q.latest - q.earliest>>
         /\ q.throughput = <<q.success, IF q.earliest = q.latest THEN 1
                                        ELSE q.end - q.earliest>>
         /\ q.mean = <<q.total, Len(rs)>>
    BY <1>2, <2>5, <2>15
  <2> HIDE DEF low, high, first, last, end, counts, ok, errs
  <2>20. MetricsOf(rs) = WithMin(q, low)
    BY <2>16, <2>17, <2>18, <2>19 DEF WithMin
  <2>21. q = WithMin(q, q.min)
    BY <2>4, MetricsRecord
  <2>22. NoZero(rs) => q = MetricsOf(rs)
    BY <2>18, <2>20, <2>21
  <2>23. q = [MetricsOf(rs) EXCEPT !.min = q.min]
    BY <2>20, <2>21, MetricsMin
  <2>24. QED
    BY <2>7, <2>22, <2>23 DEF Exact, q
<1>5. QED
  BY <1>3, <1>4 DEF q

-----------------------------------------------------------------------------
(* Buckets as parsed: they ascend from a bound below every latency.        *)
BucketsOK(b) ==
  /\ b \in Seq(Int)
  /\ \A j, k \in DOMAIN b : j <= k => b[j] <= b[k]
  /\ b # <<>> => b[1] <= 0

InBucket(l, b, k) == l >= b[k] /\ (k < Len(b) => l < b[k + 1])

BucketOf(l, b) ==
  Min({k \in 1..(Len(b) - 1) : l >= b[k] /\ l < b[k + 1]} \cup {Len(b)})

(* A latency is in exactly one bucket, the one Histogram.Add finds.        *)
LEMMA OneBucket ==
  ASSUME NEW b, BucketsOK(b), b # <<>>, NEW l \in Nat
  PROVE  /\ BucketOf(l, b) \in 1..Len(b)
         /\ \A k \in 1..Len(b) : InBucket(l, b, k) <=> k = BucketOf(l, b)
<1> DEFINE L == Len(b)
           S == {k \in 1..(L - 1) : l >= b[k] /\ l < b[k + 1]}
           i == Min(S \cup {L})
<1>1. /\ L \in Nat /\ L > 0 /\ DOMAIN b = 1..L /\ \A k \in 1..L : b[k] \in Int
      /\ \A j, k \in 1..L : j <= k => b[j] <= b[k]
      /\ b[1] <= 0
  BY DEF BucketsOK
<1>2. BucketOf(l, b) = i
  BY DEF BucketOf
<1> HIDE DEF L
<1>3. CASE S # {}
  <2>1. PICK k \in S : TRUE
    BY <1>3
  <2>2. k \in 1..(L - 1) /\ l >= b[k] /\ l < b[k + 1] /\ k \in 1..L /\ k + 1 \in 1..L
    BY <1>1
  <2>3. ASSUME NEW j \in 1..L, InBucket(l, b, j) PROVE j = k
    <3>1. ASSUME j < k PROVE FALSE
      <4>1. j < Len(b) /\ j + 1 \in 1..L /\ j + 1 <= k
        BY <1>1, <2>2, <3>1 DEF L
      <4>2. l < b[j + 1] /\ b[j + 1] <= b[k]
        BY <1>1, <2>2, <2>3, <4>1 DEF InBucket
      <4>3. b[j + 1] \in Int /\ b[k] \in Int
        BY <1>1, <2>2, <4>1
      <4>4. QED
        BY <2>2, <4>2, <4>3
    <3>2. ASSUME j > k PROVE FALSE
      <4>1. k + 1 <= j
        BY <2>2, <3>2
      <4>2. l >= b[j] /\ b[k + 1] <= b[j] /\ l < b[k + 1]
        BY <1>1, <2>2, <2>3, <4>1 DEF InBucket
      <4>3. b[k + 1] \in Int /\ b[j] \in Int
        BY <1>1, <2>2
      <4>4. QED
        BY <4>2, <4>3
    <3>3. QED
      BY <1>1, <2>2, <3>1, <3>2
  <2>4. InBucket(l, b, k)
    BY <2>2 DEF InBucket
  <2>5. i = k
    <3>1. k \in S \cup {L} /\ S \cup {L} \in SUBSET Int
      BY <1>1, <2>1
    <3>2. \A y \in S : y = k
      <4> SUFFICES ASSUME NEW y \in S PROVE y = k
        OBVIOUS
      <4>1. y \in 1..L /\ InBucket(l, b, y)
        BY <1>1 DEF InBucket
      <4>2. QED
        BY <2>3, <4>1
    <3>3. k <= L
      BY <1>1, <2>2
    <3>4. \A y \in S \cup {L} : k <= y
      BY <2>2, <3>2, <3>3
    <3> HIDE DEF S
    <3>5. QED
      BY <3>1, <3>4, MinIs
  <2>6. QED
    BY <1>2, <2>2, <2>3, <2>4, <2>5 DEF L
<1>4. CASE S = {}
  <2>1. i = L
    <3>1. S \cup {L} = {L} /\ {L} \in SUBSET Int /\ L \in {L} /\ \A y \in {L} : L <= y
      BY <1>1, <1>4
    <3> HIDE DEF S
    <3>2. QED
      BY <3>1, MinIs
  <2>2. \A k \in 1..(L - 1) : ~(l >= b[k] /\ l < b[k + 1])
    BY <1>4
  <2>3. l >= b[L]
    <3> DEFINE T == {k \in 0..(L - 1) : l >= b[k + 1]}
    <3>1. 0 \in T
      <4>1. 0 \in 0..(L - 1) /\ b[1] \in Int /\ 0 + 1 = 1
        BY <1>1
      <4>2. l >= b[0 + 1]
        BY <1>1, <4>1
      <4>3. QED
        BY <4>1, <4>2
    <3>2. ASSUME NEW k \in 0..((L - 1) - 1), k \in T PROVE k + 1 \in T
      <4>1. k + 1 \in 1..(L - 1) /\ k + 1 \in 0..(L - 1) /\ (k + 1) + 1 \in 1..L
        BY <1>1
      <4>2. l >= b[k + 1]
        BY <3>2
      <4>3. ~(l < b[(k + 1) + 1]) /\ b[(k + 1) + 1] \in Int
        BY <1>1, <2>2, <4>1, <4>2
      <4>4. l >= b[(k + 1) + 1]
        BY <4>3
      <4>5. QED
        BY <4>1, <4>4
    <3>3. L - 1 \in Nat /\ L - 1 \in 0..(L - 1) /\ (L - 1) + 1 = L
      BY <1>1
    <3> HIDE DEF T
    <3>4. 0..(L - 1) \subseteq T
      BY <3>1, <3>2, <3>3, Ascend
    <3>5. QED
      BY <3>3, <3>4 DEF T
  <2>4. ASSUME NEW k \in 1..L PROVE InBucket(l, b, k) <=> k = L
    <3>1. CASE k = L
      BY <1>1, <2>3, <3>1 DEF InBucket, L
    <3>2. CASE k # L
      <4>0. L \in Nat
        BY <1>1
      <4>1. k \in 1..(L - 1) /\ k < L
        BY <3>2, <4>0
      <4>2. ~(l >= b[k] /\ l < b[k + 1])
        BY <2>2, <4>1
      <4>3. QED
        BY <3>2, <4>1, <4>2 DEF InBucket, L
    <3>3. QED
      BY <3>1, <3>2
  <2>5. QED
    <3>1. L \in 1..L
      BY <1>1
    <3> HIDE DEF i
    <3>2. QED
      BY <1>2, <2>1, <2>4, <3>1 DEF L
<1>5. QED
  BY <1>3, <1>4

(* Histogram.Add keeps the counts of all buckets.                          *)
LEMMA HistAddSound ==
  ASSUME NEW hh, NEW b, BucketsOK(b), b # <<>>, NEW rs \in Seq(Timed),
         NEW x \in Timed, HistSound(hh, b, rs)
  PROVE  HistSound(HistogramAdd(hh, x), b, Append(rs, x))
<1> DEFINE qs == Append(rs, x)
           n == Len(rs)
           L == Len(b)
           i == BucketOf(x.latency, b)
           c == IF Len(hh.counts) = L THEN hh.counts ELSE [k \in DOMAIN b |-> 0]
           d == [c EXCEPT ![i] = @ + 1]
           hist == [buckets : Seq(Int), counts : Seq(Nat), total : Nat]
<1>1. /\ n \in Nat /\ Len(qs) = n + 1
      /\ DOMAIN rs = 1..n /\ DOMAIN qs = 1..(n + 1)
      /\ \A k \in 1..n : qs[k] = rs[k] /\ rs[k] \in Timed
      /\ qs[n + 1] = x /\ qs # <<>>
      /\ rs = <<>> <=> n = 0
  BY OneMore
<1>2. /\ L \in Nat /\ L > 0 /\ DOMAIN b = 1..L /\ b \in Seq(Int)
  BY DEF BucketsOK
<1>3. /\ i \in 1..L
      /\ \A k \in 1..L : InBucket(x.latency, b, k) <=> k = i
  BY OneBucket, TimedFacts
<1>4. /\ hh \in hist /\ hh.buckets = b /\ hh.total = n
      /\ hh.counts = IF rs = <<>> THEN <<>> ELSE [k \in DOMAIN b |-> CountIn(rs, b, k)]
  BY DEF HistSound
<1>5. ASSUME NEW k \in 1..L
      PROVE  /\ CountIn(rs, b, k) \in Nat
             /\ CountIn(qs, b, k) = CountIn(rs, b, k) + (IF k = i THEN 1 ELSE 0)
  <2> DEFINE S == {j \in 1..n : InBucket(rs[j].latency, b, k)}
             T == {j \in 1..(n + 1) : InBucket(qs[j].latency, b, k)}
  <2>1. CountIn(rs, b, k) = Cardinality(S) /\ CountIn(qs, b, k) = Cardinality(T)
    BY <1>1 DEF CountIn, CountIf, InBucket
  <2>2. \A j \in 1..n : j \in 1..(n + 1) /\ (j \in T <=> j \in S)
    BY <1>1
  <2>3. n + 1 \in T <=> k = i
    <3>1. n + 1 \in 1..(n + 1)
      BY <1>1
    <3>2. QED
      BY <1>1, <1>3, <3>1
  <2>4. S \in SUBSET (1..n) /\ T \in SUBSET (1..(n + 1))
    OBVIOUS
  <2> HIDE DEF S, T
  <2>5. /\ Cardinality(S) \in Nat
        /\ Cardinality(T) = Cardinality(S) + (IF n + 1 \in T THEN 1 ELSE 0)
    BY <1>1, <2>2, <2>4, CountGrows
  <2>6. QED
    BY <2>1, <2>3, <2>5
<1>6. c \in [1..L -> Nat] /\ \A k \in 1..L : c[k] = CountIn(rs, b, k)
  <2>1. CASE rs = <<>>
    <3>1. Len(hh.counts) # L
      BY <1>2, <1>4, <2>1
    <3>2. c = [k \in 1..L |-> 0]
      BY <1>2, <3>1
    <3>3. ASSUME NEW k \in 1..L PROVE CountIn(rs, b, k) = 0
      <4>1. {j \in DOMAIN rs : InBucket(rs[j].latency, b, k)} = {}
        BY <1>1, <2>1
      <4>2. CountIn(rs, b, k) = Cardinality({j \in DOMAIN rs : InBucket(rs[j].latency, b, k)})
        BY DEF CountIn, CountIf, InBucket
      <4>3. QED
        BY <4>1, <4>2, FS_EmptySet
    <3> HIDE DEF c
    <3>4. QED
      BY <3>2, <3>3
  <2>2. CASE rs # <<>>
    <3> DEFINE e == [k \in 1..L |-> CountIn(rs, b, k)]
    <3>1. e \in [1..L -> Nat] /\ \A k \in 1..L : e[k] = CountIn(rs, b, k)
      BY <1>5
    <3>2. hh.counts = e
      BY <1>2, <1>4, <2>2
    <3> HIDE DEF e
    <3>3. Len(e) = L
      BY <1>2, <3>1
    <3>4. c = e
      BY <3>2, <3>3
    <3>5. QED
      BY <3>1, <3>4
  <2>3. QED
    BY <2>1, <2>2
<1>7. HistogramAdd(hh, x) = [hh EXCEPT !.counts = d, !.total = hh.total + 1]
  <2>1. hh.buckets = b
    BY <1>4
  <2>2. QED
    BY <2>1 DEF HistogramAdd, BucketOf
<1> HIDE DEF c, i
<1>8. d = [k \in DOMAIN b |-> CountIn(qs, b, k)] /\ d \in [1..L -> Nat]
  <2>1. d \in [1..L -> Nat] /\ \A k \in 1..L : d[k] = IF k = i THEN c[k] + 1 ELSE c[k]
    BY <1>3, <1>6
  <2>2. \A k \in 1..L : d[k] = CountIn(qs, b, k)
    <3> SUFFICES ASSUME NEW k \in 1..L PROVE d[k] = CountIn(qs, b, k)
      OBVIOUS
    <3> HIDE DEF d, qs
    <3>1. QED
      BY <1>5, <1>6, <2>1
  <2> HIDE DEF d, qs
  <2>3. QED
    BY <1>2, <2>1, <2>2
<1>9. d \in Seq(Nat)
  <2> HIDE DEF d
  <2>1. QED
    BY <1>2, <1>8
<1> DEFINE g == HistogramAdd(hh, x)
<1> HIDE DEF d, g, qs, n, L
<1>10. /\ g \in hist /\ g.buckets = b /\ g.counts = d /\ g.total = n + 1
  <2>1. g = [hh EXCEPT !.counts = d, !.total = hh.total + 1]
    BY <1>7 DEF g
  <2>2. hh \in hist /\ n \in Nat /\ hh.total = n /\ hh.buckets = b
    BY <1>1, <1>4
  <2>3. g \in hist
    <3> DEFINE t == hh.total + 1
    <3>1. hh \in hist /\ t \in Nat /\ d \in Seq(Nat)
      BY <1>9, <2>2
    <3>2. g = [hh EXCEPT !.counts = d, !.total = t]
      BY <2>1
    <3> HIDE DEF t
    <3>3. QED
      BY <3>1, <3>2
  <2>4. g.buckets = hh.buckets /\ g.counts = d /\ g.total = hh.total + 1
    BY <2>1, <2>2
  <2>5. QED
    BY <2>2, <2>3, <2>4
<1>11. HistSound(g, b, qs)
  BY <1>1, <1>8, <1>10 DEF HistSound
<1>12. QED
  BY <1>11 DEF g, qs

(* Observe counts one result more.                                         *)
LEMMA ObserveCounts ==
  ASSUME NEW e, NEW rs \in Seq(Coded), NEW x \in Coded, Counts(e, rs)
  PROVE  Counts(Observe(e, x), Append(rs, x))
<1> DEFINE q == Observe(e, x)
           qs == Append(rs, x)
           n == Len(rs)
           a == [e.requests EXCEPT ![x.code] = @ + 1]
           b == [e.in EXCEPT ![x.code] = @ + x.in]
<1>1. /\ n \in Nat /\ Len(qs) = n + 1
      /\ DOMAIN rs = 1..n /\ DOMAIN qs = 1..(n + 1)
      /\ \A k \in 1..n : qs[k] = rs[k] /\ rs[k] \in Coded
      /\ qs[n + 1] = x
  BY OneMore
<1>2. /\ e \in ExporterSet
      /\ e.requests = [c \in Codes |-> Cardinality({k \in 1..n : rs[k].code = c})]
      /\ e.in = [c \in Codes |-> Total(BytesOf(rs, c))]
  BY <1>1 DEF Counts, CountIf
<1>3. \A y \in Coded : y.code \in Codes /\ y.in \in Nat
  BY DEF Coded, ResultSet
<1>4. a \in [Codes -> Nat] /\ b \in [Codes -> Nat]
  <2>1. e.requests \in [Codes -> Nat] /\ e.in \in [Codes -> Nat]
    BY <1>2 DEF ExporterSet
  <2>2. x.code \in Codes /\ x.in \in Nat
    BY <1>3
  <2>3. QED
    BY <2>1, <2>2, SMTT(60)
<1>5. q = [e EXCEPT !.requests = a, !.in = b]
  BY DEF Observe
<1>6. q \in ExporterSet /\ q.requests = a /\ q.in = b
  <2> HIDE DEF a, b, q
  <2>1. QED
    BY <1>2, <1>4, <1>5 DEF ExporterSet
<1>7. /\ \A k \in 1..(n + 1) : k \in 1..n \/ k = n + 1
      /\ \A k \in 1..n : k \in 1..(n + 1) /\ k # n + 1
      /\ n + 1 \in 1..(n + 1)
  BY <1>1
<1> HIDE DEF qs, n
<1>8. ASSUME NEW c \in Codes
      PROVE  a[c] = Cardinality({k \in 1..(n + 1) : qs[k].code = c})
  <2> DEFINE S == {k \in 1..n : rs[k].code = c}
             T == {k \in 1..(n + 1) : qs[k].code = c}
  <2>1. \A k \in 1..n : k \in T <=> k \in S
    BY <1>1, <1>7
  <2>2. n + 1 \in T <=> x.code = c
    BY <1>1, <1>7
  <2>3. S \in SUBSET (1..n) /\ T \in SUBSET (1..(n + 1))
    OBVIOUS
  <2>4. e.requests[c] = Cardinality(S)
    BY <1>2
  <2>5. a[c] = IF x.code = c THEN e.requests[c] + 1 ELSE e.requests[c]
    BY <1>2, <1>3 DEF ExporterSet
  <2> HIDE DEF S, T, a
  <2>6. /\ Cardinality(S) \in Nat
        /\ Cardinality(T) = Cardinality(S) + (IF n + 1 \in T THEN 1 ELSE 0)
    BY <1>1, <2>1, <2>3, CountGrows
  <2>7. a[c] = Cardinality(T)
    BY <2>2, <2>4, <2>5, <2>6
  <2>8. QED
    BY <2>7 DEF T
<1>9. ASSUME NEW c \in Codes
      PROVE  b[c] = Total(BytesOf(qs, c))
  <2> DEFINE f == BytesOf(rs, c)
             g == BytesOf(qs, c)
             z == IF x.code = c THEN x.in ELSE 0
  <2>1. /\ f = [k \in 1..n |-> IF rs[k].code = c THEN rs[k].in ELSE 0]
        /\ g = [k \in 1..(n + 1) |-> IF qs[k].code = c THEN qs[k].in ELSE 0]
    BY <1>1 DEF BytesOf
  <2>2. /\ \A k \in 1..n : rs[k].in \in Nat /\ qs[k] = rs[k]
        /\ x.in \in Nat /\ qs[n + 1] = x
    BY <1>1, <1>3
  <2>3. \A k \in 1..(n + 1) : qs[k].in \in Nat
    BY <1>7, <2>2
  <2> HIDE DEF f, g
  <2>4. /\ f \in [1..n -> Nat] /\ g \in [1..(n + 1) -> Nat]
        /\ \A k \in 1..n : g[k] = f[k]
        /\ g[n + 1] = z
    <3>1. f \in [1..n -> Nat]
      BY <2>1, <2>2
    <3>2. g \in [1..(n + 1) -> Nat]
      BY <2>1, <2>3
    <3>3. g[n + 1] = z
      BY <1>7, <2>1, <2>2
    <3>4. \A k \in 1..n : g[k] = f[k]
      BY <1>7, <2>1, <2>2
    <3>5. QED
      BY <3>1, <3>2, <3>3, <3>4
  <2>5. Total(f) \in Nat /\ Total(g) = Total(f) + g[n + 1]
    BY <1>1, <2>4, TotalGrows
  <2>6. b[c] = IF x.code = c THEN e.in[c] + x.in ELSE e.in[c]
    BY <1>2, <1>3 DEF ExporterSet
  <2>7. e.in[c] = Total(f)
    BY <1>2 DEF f
  <2> HIDE DEF b
  <2>8. b[c] = Total(g)
    BY <2>2, <2>4, <2>5, <2>6, <2>7
  <2>9. QED
    BY <2>8 DEF g
<1> HIDE DEF a, b, q
<1>10. q.requests = [c \in Codes |-> CountIf(qs, LAMBDA y : y.code = c)]
  BY <1>1, <1>4, <1>6, <1>8 DEF CountIf
<1>11. q.in = [c \in Codes |-> Total(BytesOf(qs, c))]
  BY <1>4, <1>6, <1>9
<1>12. Counts(q, qs)
  BY <1>6, <1>10, <1>11 DEF Counts
<1>13. QED
  BY <1>12 DEF q, qs

-----------------------------------------------------------------------------
(* The results in the sequence of what was added, and in a prefix of it.   *)
LEMMA ResFacts ==
  ASSUME NEW A, NEW s \in Seq(A), NEW T, \A k \in DOMAIN s : s[k].res \in T
  PROVE  /\ Len(s) \in Nat /\ DOMAIN s = 1..Len(s)
         /\ Res(s) \in Seq(T) /\ Len(Res(s)) = Len(s)
         /\ DOMAIN Res(s) = 1..Len(s)
         /\ \A k \in 1..Len(s) : Res(s)[k] = s[k].res
<1>1. Len(s) \in Nat /\ DOMAIN s = 1..Len(s)
  OBVIOUS
<1> DEFINE q == Res(s)
<1>2. q = [k \in 1..Len(s) |-> s[k].res]
  BY <1>1 DEF Res
<1>3. q \in [1..Len(s) -> T]
  BY <1>1, <1>2
<1>4. \A k \in 1..Len(s) : q[k] = s[k].res
  BY <1>2
<1> HIDE DEF q
<1>5. q \in Seq(T) /\ Len(q) = Len(s) /\ DOMAIN q = 1..Len(s)
  BY <1>1, <1>3
<1>6. QED
  BY <1>1, <1>4, <1>5 DEF q

LEMMA ResAppend ==
  ASSUME NEW A, NEW s \in Seq(A), NEW a \in A, NEW T,
         \A k \in DOMAIN s : s[k].res \in T, a.res \in T
  PROVE  Res(Append(s, a)) = Append(Res(s), a.res)
<1> DEFINE n == Len(s)
           t == Append(s, a)
           x == a.res
           q == Append(Res(s), x)
<1>1. /\ n \in Nat /\ t \in Seq(A) /\ Len(t) = n + 1 /\ DOMAIN t = 1..(n + 1)
      /\ \A k \in 1..n : t[k] = s[k]
      /\ t[n + 1] = a
  BY OneMore
<1>2. /\ Res(s) \in Seq(T) /\ Len(Res(s)) = n
      /\ \A k \in 1..n : Res(s)[k] = s[k].res
  BY ResFacts
<1>3. /\ q \in Seq(T) /\ DOMAIN q = 1..(n + 1) /\ Len(q) = n + 1
      /\ \A k \in 1..n : q[k] = s[k].res
      /\ q[n + 1] = x
  <2> DEFINE p == Res(s)
  <2>1. p \in Seq(T) /\ x \in T /\ Len(p) = n
    BY <1>2
  <2> HIDE DEF p, x, n
  <2>2. /\ Append(p, x) \in Seq(T) /\ DOMAIN Append(p, x) = 1..(n + 1)
        /\ Len(Append(p, x)) = n + 1
        /\ \A k \in 1..n : Append(p, x)[k] = p[k]
        /\ Append(p, x)[n + 1] = x
    BY <2>1, OneMore
  <2>3. QED
    BY <1>2, <2>2 DEF p
<1>4. Res(t) = [k \in 1..(n + 1) |-> t[k].res]
  BY <1>1 DEF Res
<1>5. ASSUME NEW k \in 1..(n + 1) PROVE q[k] = t[k].res
  <2>1. k \in 1..n \/ k = n + 1
    BY <1>1
  <2>2. CASE k \in 1..n
    BY <2>2, <1>1, <1>3
  <2>3. CASE k = n + 1
    BY <2>3, <1>1, <1>3
  <2>4. QED
    BY <2>1, <2>2, <2>3
<1> HIDE DEF q, t, n, x
<1>6. q = [k \in 1..(n + 1) |-> q[k]]
  BY <1>3
<1>7. q = Res(t)
  BY <1>4, <1>5, <1>6
<1>8. QED
  BY <1>7 DEF q, t, x

LEMMA Prefix ==
  ASSUME NEW T, NEW q \in Seq(T), NEW n \in 0..Len(q)
  PROVE  /\ SubSeq(q, 1, n) \in Seq(T) /\ Len(SubSeq(q, 1, n)) = n
         /\ DOMAIN SubSeq(q, 1, n) = 1..n
         /\ \A k \in 1..n : SubSeq(q, 1, n)[k] = q[k]
         /\ n = Len(q) => SubSeq(q, 1, n) = q
<1>1. Len(q) \in Nat /\ n \in Nat /\ n <= Len(q)
  OBVIOUS
<1>2. /\ SubSeq(q, 1, n) \in Seq(T) /\ Len(SubSeq(q, 1, n)) = n
      /\ DOMAIN SubSeq(q, 1, n) = 1..n
      /\ \A k \in 1..n : SubSeq(q, 1, n)[k] = q[k]
  BY <1>1
<1>3. n = Len(q) => SubSeq(q, 1, n) = q
  BY <1>1
<1>4. QED
  BY <1>2, <1>3

LEMMA PrefixGrows ==
  ASSUME NEW T, NEW q \in Seq(T), NEW x \in T, NEW n \in 0..Len(q)
  PROVE  SubSeq(Append(q, x), 1, n) = SubSeq(q, 1, n)
<1> DEFINE p == Append(q, x)
<1>1. /\ Len(q) \in Nat /\ p \in Seq(T) /\ Len(p) = Len(q) + 1
      /\ \A k \in 1..Len(q) : p[k] = q[k]
  BY OneMore
<1> HIDE DEF p
<1>2. n \in Nat /\ n \in 0..Len(p) /\ \A k \in 1..n : k \in 1..Len(q)
  BY <1>1
<1>3. /\ SubSeq(p, 1, n) \in Seq(T) /\ DOMAIN SubSeq(p, 1, n) = 1..n
      /\ \A k \in 1..n : SubSeq(p, 1, n)[k] = p[k]
  BY <1>1, <1>2, Prefix
<1>4. /\ SubSeq(q, 1, n) \in Seq(T) /\ DOMAIN SubSeq(q, 1, n) = 1..n
      /\ \A k \in 1..n : SubSeq(q, 1, n)[k] = q[k]
  BY Prefix
<1> DEFINE u == SubSeq(p, 1, n)
           v == SubSeq(q, 1, n)
<1>5. \A k \in 1..n : u[k] = v[k]
  BY <1>1, <1>2, <1>3, <1>4
<1> HIDE DEF u, v
<1>6. u = [k \in 1..n |-> u[k]] /\ v = [k \in 1..n |-> v[k]]
  BY <1>3, <1>4 DEF u, v
<1>7. u = v
  BY <1>5, <1>6
<1>8. QED
  BY <1>7 DEF u, v, p

-----------------------------------------------------------------------------
(* The codes of entries are counted, and a result is at some time, also    *)
(* if it inherits fields of a damaged entry.                               *)
LEMMA EntryCodes ==
  ASSUME ReadType, cmd \in Commands, files \in FileLists[cmd.name],
         NEW f \in DOMAIN files, NEW k \in 1..Len(files[f].entries)
  PROVE  /\ files[f].entries[k].res.code \in Codes
         /\ files[f].entries[k].kind = "ok" => files[f].entries[k].res.ts > 0
<1>1. k \in DOMAIN files[f].entries
  <2> DEFINE es == files[f].entries
  <2>1. es \in Seq([kind : {"ok", "bad", "half"}, res : ResultSet])
    BY FileFacts DEF FileSet
  <2>2. k \in 1..Len(es)
    OBVIOUS
  <2> HIDE DEF es
  <2>3. k \in DOMAIN es
    BY <2>1, <2>2
  <2>4. QED
    BY <2>3 DEF es
<1>2. QED
  BY <1>1, ReportAssumption

LEMMA FilledCodes ==
  ASSUME ReadType, cmd \in Commands, files \in FileLists[cmd.name],
         NEW f \in DOMAIN files, pos[f] < Len(files[f].entries), r.code \in Codes
  PROVE  /\ Filled(f, r).code \in Codes
         /\ Entry(f).kind = "ok" => Filled(f, r) \in Timed
<1> DEFINE e == Entry(f).res
<1>1. pos[f] \in Nat /\ pos[f] + 1 \in 1..Len(files[f].entries)
  <2>1. pos[f] \in Nat
    BY DEF ReadType
  <2>2. Len(files[f].entries) \in Nat
    BY FileFacts
  <2>3. QED
    BY <2>1, <2>2
<1>2. e.code \in Codes /\ (Entry(f).kind = "ok" => e.ts > 0)
  BY <1>1, EntryCodes DEF Entry
<1>3. /\ Entry(f) \in [kind : {"ok", "bad", "half"}, res : ResultSet]
      /\ Filled(f, r) \in ResultSet /\ r \in ResultSet
  BY FilledFacts DEF ReadType
<1>4. CASE Entry(f).kind = "bad"
  BY <1>4 DEF Filled
<1>5. CASE Entry(f).kind = "half"
  <2>1. Filled(f, r) = [r EXCEPT !.ts = Entry(f).res.ts, !.code = Entry(f).res.code]
    BY <1>5 DEF Filled
  <2>2. QED
    BY <1>2, <1>3, <1>5, <2>1 DEF ResultSet
<1>6. CASE Entry(f).kind = "ok"
  <2>1. \/ Filled(f, r) = e
        \/ Filled(f, r) = [a \in DOMAIN r |-> IF e[a] = Zero[a] THEN r[a] ELSE e[a]]
    BY <1>6 DEF Filled
  <2> HIDE DEF e
  <2>2. e \in ResultSet
    BY <1>3 DEF e
  <2>3. Filled(f, r).code \in Codes /\ Filled(f, r).ts > 0
    <3>1. e.code \in Codes /\ e.ts > 0
      BY <1>2, <1>6 DEF e
    <3>2. CASE Filled(f, r) = e
      BY <3>1, <3>2
    <3>3. CASE Filled(f, r) = [a \in DOMAIN r |-> IF e[a] = Zero[a] THEN r[a] ELSE e[a]]
      <4>1. DOMAIN r = {"attack", "seq", "ts", "code", "latency", "in", "error"}
        BY <1>3 DEF ResultSet
      <4>2. /\ Filled(f, r).code = IF e.code = Zero.code THEN r.code ELSE e.code
            /\ Filled(f, r).ts = IF e.ts = Zero.ts THEN r.ts ELSE e.ts
        BY <3>3, <4>1
      <4>3. Zero.ts = 0 /\ e.ts # 0
        BY <2>2, <3>1 DEF Zero, ResultSet
      <4>4. QED
        BY <3>1, <4>2, <4>3
    <3>4. QED
      BY <2>1, <3>2, <3>3
  <2>4. QED
    BY <1>3, <2>3 DEF Timed
<1>7. QED
  BY <1>3, <1>4, <1>5, <1>6

-----------------------------------------------------------------------------
(* Everything a report is made of.                                         *)
TalliesInv == MetricsInv /\ WrittenInv

LEMMA BucketsParsed ==
  ASSUME cmd \in Commands
  PROVE  BucketsOK(Buckets(cmd.buckets))
<1> DEFINE bs == cmd.buckets
<1>1. /\ bs \in Seq(Int)
      /\ \A j, k \in DOMAIN bs : j <= k => bs[j] <= bs[k]
  BY ReportAssumption
<1> HIDE DEF bs
<1>2. Len(bs) \in Nat /\ DOMAIN bs = 1..Len(bs) /\ \A k \in 1..Len(bs) : bs[k] \in Int
  BY <1>1
<1>3. CASE bs # <<>> /\ bs[1] > 0
  <2> DEFINE b == <<0>> \o bs
             L == Len(bs)
  <2>1. b \in Seq(Int) /\ DOMAIN b = 1..(L + 1) /\ Len(b) = L + 1
    BY <1>1, <1>2
  <2>2. b[1] = 0 /\ \A k \in 2..(L + 1) : b[k] = bs[k - 1]
    BY <1>1, <1>2
  <2>3. L \in Nat /\ L > 0
    BY <1>1, <1>2, <1>3
  <2> HIDE DEF b, L
  <2>4. ASSUME NEW j \in 1..(L + 1), NEW k \in 1..(L + 1), j <= k
        PROVE  b[j] <= b[k]
    <3>1. CASE k = 1
      BY <2>2, <2>4, <3>1
    <3>2. CASE k > 1 /\ j = 1
      <4>1. k \in 2..(L + 1) /\ k - 1 \in 1..L /\ 1 \in 1..L /\ 1 <= k - 1
        BY <2>3, <3>2
      <4>2. bs[1] <= bs[k - 1] /\ bs[1] \in Int /\ bs[k - 1] \in Int
        BY <1>1, <1>2, <4>1 DEF L
      <4>3. QED
        BY <1>3, <2>2, <3>2, <4>1, <4>2
    <3>3. CASE k > 1 /\ j > 1
      <4>1. /\ k \in 2..(L + 1) /\ k - 1 \in 1..L
            /\ j \in 2..(L + 1) /\ j - 1 \in 1..L /\ j - 1 <= k - 1
        BY <2>3, <2>4, <3>3
      <4>2. bs[j - 1] <= bs[k - 1]
        BY <1>1, <1>2, <4>1 DEF L
      <4>3. QED
        BY <2>2, <4>1, <4>2
    <3>4. QED
      BY <2>3, <3>1, <3>2, <3>3
  <2>5. BucketsOK(b)
    BY <2>1, <2>2, <2>4 DEF BucketsOK
  <2>6. Buckets(bs) = b
    BY <1>3 DEF Buckets, b
  <2>7. QED
    BY <2>5, <2>6 DEF bs
<1>4. CASE ~(bs # <<>> /\ bs[1] > 0)
  <2>1. Buckets(bs) = bs
    BY <1>4 DEF Buckets
  <2>2. bs # <<>> => bs[1] <= 0
    <3>1. bs # <<>> => bs[1] \in Int
      BY <1>1, <1>2
    <3>2. QED
      BY <1>4, <3>1
  <2>3. BucketsOK(bs)
    BY <1>1, <2>2 DEF BucketsOK
  <2>4. QED
    BY <2>1, <2>3 DEF bs
<1>5. QED
  BY <1>3, <1>4

(* Nothing was added yet.                                                  *)
LEMMA NewMetricsSound == Sound(NewMetrics, <<>>)
<1>1. NewMetrics \in MetricsSet
  <2> DEFINE z == [c \in Codes |-> 0]
             p == <<0, 1>>
  <2>1. z \in [Codes -> Nat] /\ p \in Int \X Int /\ {} \in SUBSET Errors
    OBVIOUS
  <2>2. NewMetrics =
          [requests |-> 0, codes |-> z, in |-> 0, total |-> 0, max |-> 0,
           min |-> 0, earliest |-> 0, latest |-> 0, end |-> 0, success |-> 0,
           errors |-> {}, duration |-> 0, wait |-> 0, rate |-> p,
           throughput |-> p, mean |-> p]
    BY DEF NewMetrics
  <2> HIDE DEF z, p
  <2>3. QED
    BY <2>1, <2>2 DEF MetricsSet
<1>2. DOMAIN <<>> = {} /\ Len(<<>>) = 0
  OBVIOUS
<1>3. \A c \in Codes : CountIf(<<>>, LAMBDA x : x.code = c) = 0
  <2>1. \A c \in Codes : {k \in DOMAIN <<>> : <<>>[k].code = c} = {}
    BY <1>2
  <2>2. QED
    BY <2>1, FS_EmptySet DEF CountIf
<1>4. CountIf(<<>>, Success) = 0
  <2>1. {k \in DOMAIN <<>> : Success(<<>>[k])} = {}
    BY <1>2
  <2>2. QED
    BY <2>1, FS_EmptySet DEF CountIf
<1>5. Total(<<>>) = 0
  <2>1. <<>> \in Seq(Nat)
    OBVIOUS
  <2>2. Sums(<<>>)[0] = 0
    BY <2>1, SumsFacts
  <2>3. QED
    BY <1>2, <2>2 DEF Total
<1>6. BytesIn(<<>>) = <<>> /\ Latencies(<<>>) = <<>>
  BY <1>2 DEF BytesIn, Latencies
<1>7. Values(<<>>, LAMBDA x : x.error) \ {"none"} = {}
  BY <1>2 DEF Values
<1>8. Tallies(NewMetrics, <<>>)
  BY <1>2, <1>3, <1>4, <1>5, <1>6, <1>7 DEF Tallies, NewMetrics
<1>9. Bounds(NewMetrics, <<>>)
  BY <1>2 DEF Bounds
<1>10. QED
  BY <1>1, <1>8, <1>9 DEF Sound

LEMMA NewHistogramSound ==
  ASSUME NEW bs, BucketsOK(Buckets(bs))
  PROVE  HistSound(NewHistogram(bs), Buckets(bs), <<>>)
<1> DEFINE b == Buckets(bs)
           hist == [buckets : Seq(Int), counts : Seq(Nat), total : Nat]
<1>1. NewHistogram(bs) = [buckets |-> b, counts |-> <<>>, total |-> 0]
  BY DEF NewHistogram
<1>2. b \in Seq(Int)
  BY DEF BucketsOK
<1>3. <<>> \in Seq(Nat) /\ Len(<<>>) = 0
  OBVIOUS
<1> HIDE DEF b
<1>4. NewHistogram(bs) \in hist
  BY <1>1, <1>2, <1>3
<1>5. HistSound(NewHistogram(bs), b, <<>>)
  BY <1>1, <1>3, <1>4 DEF HistSound
<1>6. QED
  BY <1>5 DEF b

LEMMA TalliesInit ==
  ASSUME ReportInit
  PROVE  TalliesInv
<1> USE DEF ReportInit, DecodingInit
<1>1. r.code \in Codes
  BY ReportAssumption DEF Zero
<1>2. added = <<>> /\ Res(added) = <<>>
  BY DEF Res
<1>3. Sound(m, Res(added))
  BY <1>2, NewMetricsSound
<1>4. HistSound(h, Buckets(cmd.buckets), Res(added))
  BY <1>2, BucketsParsed, NewHistogramSound
<1>5. MetricsInv
  BY <1>1, <1>2, <1>3, <1>4 DEF MetricsInv
<1>6. WrittenInv
  <2>1. written.n = -1 /\ Len(added) = 0
    BY <1>2
  <2>2. QED
    BY <2>1 DEF WrittenInv
<1>7. QED
  BY <1>5, <1>6 DEF TalliesInv

(* A step that adds no result and writes no report.                        *)
LEMMA TalliesQuiet ==
  ASSUME TalliesInv,
         UNCHANGED <<cmd, files, added, m, h, written>>,
         r'.code \in Codes,
         ticks' => ticks \/ cmd.every,
         \/ outcome' = outcome /\ (stage' = stage \/ stage # "done")
               /\ (outcome = "panic" => stage' = stage)
         \/ outcome' \in {"ok", "error", "refused"}
  PROVE  TalliesInv'
<1> USE DEF TalliesInv
<1>1. MetricsInv'
  BY DEF MetricsInv, Res
<1>2. WrittenInv'
  BY DEF WrittenInv, Res
<1>3. QED
  BY <1>1, <1>2

(* A result is added to the Metrics or the Histogram.                      *)
LEMMA AddStep ==
  ASSUME ReadInv, TalliesInv, NEW a,
         a \in [file : DOMAIN files, n : Nat, res : ResultSet], a.res \in Timed,
         added' = Append(added, a), r' = a.res, Add(r'),
         UNCHANGED <<cmd, files, written, ticks>>,
         outcome' = outcome, stage = "decode"
  PROVE  TalliesInv'
<1> DEFINE A == [file : DOMAIN files, n : Nat, res : ResultSet]
           x == a.res
           rs == Res(added)
           qs == Append(rs, x)
           b == Buckets(cmd.buckets)
<1>1. /\ added \in Seq(A) /\ Len(added) \in Nat /\ \A k \in DOMAIN added : added[k].res \in Timed
      /\ a \in A /\ x \in Timed
  BY DEF ReadInv, ReadType, TalliesInv, MetricsInv
<1> HIDE DEF A, x
<1>2. rs \in Seq(Timed) /\ Len(rs) = Len(added)
  BY <1>1, ResFacts
<1>3. Res(Append(added, a)) = qs
  BY <1>1, ResAppend DEF x
<1>4. Res(added)' = qs
  <2>1. PICK s : s = Append(added, a)
    OBVIOUS
  <2>2. added' = s /\ Res(s) = qs
    BY <1>3, <2>1
  <2>3. QED
    BY <2>2 DEF Res
<1>5. /\ DOMAIN added = 1..Len(added) /\ DOMAIN added' = 1..(Len(added) + 1)
      /\ Len(added') = Len(added) + 1
      /\ \A k \in 1..Len(added) : added'[k] = added[k]
      /\ added'[Len(added) + 1] = a
  BY <1>1, OneMore
<1>6. ASSUME NEW k \in DOMAIN added' PROVE added'[k].res \in Timed
  <2>1. k \in 1..Len(added) \/ k = Len(added) + 1
    BY <1>1, <1>5
  <2>2. QED
    BY <1>1, <1>5, <2>1 DEF x
<1>7. cmd.name = "report" /\ cmd.typ # "hist" => Sound(m', qs)
  <2> SUFFICES ASSUME cmd.name = "report", cmd.typ # "hist" PROVE Sound(m', qs)
    OBVIOUS
  <2>1. m' = MetricsAdd(m, x) /\ Sound(m, rs)
    BY DEF Add, TalliesInv, MetricsInv, x
  <2>2. QED
    BY <1>1, <1>2, <2>1, AddSound
<1>8. HistSound(h', b, qs)
  <2>1. HistSound(h, b, rs) /\ h.buckets = b
    BY DEF TalliesInv, MetricsInv, HistSound
  <2>2. CASE b # <<>>
    <3>1. h' = HistogramAdd(h, x)
      BY <2>1, <2>2 DEF Add, x
    <3>2. BucketsOK(b)
      BY BucketsParsed DEF TalliesInv, MetricsInv
    <3> HIDE DEF b
    <3>3. QED
      BY <1>1, <1>2, <2>1, <2>2, <3>1, <3>2, HistAddSound
  <2>3. CASE b = <<>>
    <3>1. h' = h
      BY <2>1, <2>3 DEF Add
    <3>2. QED
      BY <2>1, <2>3, <3>1 DEF HistSound
  <2>4. QED
    BY <2>2, <2>3
<1>9. outcome # "panic"
  BY DEF TalliesInv, MetricsInv
<1>10. r'.code \in Codes
  BY <1>1, TimedFacts DEF x
<1>11. MetricsInv'
  <2>1. Buckets(cmd.buckets)' = b
    BY DEF Buckets
  <2>2. cmd' \in Commands /\ files' \in FileLists[cmd'.name] /\ (ticks' => cmd'.every)
    BY DEF TalliesInv, MetricsInv
  <2> HIDE DEF b, qs
  <2>3. QED
    BY <1>4, <1>6, <1>7, <1>8, <1>9, <1>10, <2>1, <2>2 DEF MetricsInv
<1>12. WrittenInv'
  <2>1. written.n \in -1..Len(added)
    BY DEF TalliesInv, WrittenInv
  <2>2. written'.n \in -1..Len(added')
    BY <1>1, <1>5, <2>1
  <2>3. CASE written.n >= 0
    <3>1. written.n \in 0..Len(rs)
      BY <1>1, <1>2, <2>1, <2>3
    <3>2. SubSeq(qs, 1, written.n) = SubSeq(rs, 1, written.n)
      BY <1>1, <1>2, <3>1, PrefixGrows
    <3>3. /\ cmd.typ # "hist" => Exact(written.m, SubSeq(rs, 1, written.n))
          /\ HistSound(written.h, b, SubSeq(rs, 1, written.n))
      BY <2>3 DEF TalliesInv, WrittenInv
    <3>4. Buckets(cmd.buckets)' = b
      BY DEF Buckets
    <3> DEFINE p == SubSeq(rs, 1, written.n)
    <3>5. SubSeq(Res(added)', 1, written'.n) = p
      BY <1>4, <3>2
    <3> HIDE DEF b, qs, rs, p
    <3>6. /\ cmd'.typ # "hist" => Exact(written'.m, p)
          /\ HistSound(written'.h, b, p)
      BY <3>3 DEF p
    <3>7. QED
      BY <2>2, <3>4, <3>5, <3>6 DEF WrittenInv
  <2>4. CASE ~(written.n >= 0)
    BY <2>2, <2>4 DEF WrittenInv
  <2>5. QED
    BY <2>3, <2>4
<1>13. QED
  BY <1>11, <1>12 DEF TalliesInv

LEMMA DecodeAndAddStep ==
  ASSUME ReadInv, TalliesInv, DecodeAndAdd
  PROVE  TalliesInv'
<1> DEFINE f == NextFile
<1>1. Decode /\ UNCHANGED written /\ UNCHANGED ticks
  BY DEF DecodeAndAdd, Decode
<1>2. /\ f \in DOMAIN files /\ stage = "decode"
      /\ UNCHANGED <<cmd, files>>
      /\ pos[f] \in Nat
  BY <1>1, DecodeFacts
<1>3. /\ cmd \in Commands /\ files \in FileLists[cmd.name] /\ r.code \in Codes
      /\ outcome # "panic"
  BY <1>2 DEF TalliesInv, MetricsInv
<1>4. CASE AtEnd(f)
  <2>1. Missed("EOF") /\ UNCHANGED <<pos, r, added>>
    BY <1>1, <1>4 DEF Decode, NextFile, N
  <2>2. outcome' = outcome
    BY <2>1 DEF Missed
  <2>3. UNCHANGED <<m, h>>
    BY <2>1 DEF DecodeAndAdd
  <2>4. QED
    BY <1>1, <1>2, <1>3, <2>1, <2>2, <2>3, TalliesQuiet
<1>5. CASE ~AtEnd(f)
  <2>1. pos[f] < Len(files[f].entries)
    <3>1. pos[f] < Size(f)
      BY <1>1, <1>5, DecodeFacts
    <3>2. Size(f) \in 0..Len(files[f].entries) /\ Len(files[f].entries) \in Nat
      BY <1>2, FileFacts DEF ReadInv
    <3>3. QED
      BY <1>2, <3>1, <3>2
  <2>2. /\ Filled(f, r).code \in Codes /\ Filled(f, r) \in ResultSet
        /\ Entry(f).kind = "ok" => Filled(f, r) \in Timed
    BY <1>2, <1>3, <2>1, FilledCodes, FilledFacts DEF ReadInv
  <2>3. pos' = [pos EXCEPT ![f] = @ + 1] /\ r' = Filled(f, r)
    BY <1>1, <1>5 DEF Decode, NextFile, N
  <2>4. CASE Entry(f).kind # "ok"
    <3>1. Missed("error") /\ added' = added
      BY <1>1, <1>5, <2>4 DEF Decode, NextFile, N
    <3>2. outcome' = outcome \/ outcome' = "error"
      BY <3>1 DEF Missed, Done
    <3>3. UNCHANGED <<m, h>>
      BY <3>1 DEF DecodeAndAdd
    <3>4. QED
      BY <1>1, <1>2, <1>3, <2>2, <2>3, <3>1, <3>2, <3>3, TalliesQuiet
  <2>5. CASE Entry(f).kind = "ok"
    <3> DEFINE a == [file |-> f, n |-> pos'[f], res |-> r']
               A == [file : DOMAIN files, n : Nat, res : ResultSet]
    <3>1. added' = Append(added, a) /\ outcome' = outcome
      BY <1>1, <1>5, <2>5 DEF Decode, NextFile, N
    <3>2. pos'[f] = pos[f] + 1
      BY <1>2, <2>3 DEF ReadInv, ReadType
    <3>3. PICK y : y = a
      OBVIOUS
    <3>4. y \in A /\ y.res \in Timed /\ r' = y.res
      BY <1>2, <2>2, <2>3, <2>5, <3>2, <3>3
    <3>5. added' = Append(added, y)
      BY <3>1, <3>3
    <3>6. added' # added
      <4>1. added \in Seq(A)
        BY DEF ReadInv, ReadType
      <4> HIDE DEF A
      <4>2. Len(Append(added, y)) = Len(added) + 1 /\ Len(added) \in Nat
        BY <3>4, <4>1, OneMore
      <4>3. QED
        BY <3>5, <4>2
    <3>7. Add(r')
      BY <3>6 DEF DecodeAndAdd
    <3>8. QED
      BY <1>1, <1>2, <3>1, <3>4, <3>5, <3>7, AddStep
  <2>6. QED
    BY <2>4, <2>5
<1>6. QED
  BY <1>4, <1>5

(* A report is written of all that was added.                              *)
LEMMA WriteStep ==
  ASSUME ReadInv, TalliesInv, WriteReport, cmd.name = "report",
         UNCHANGED <<cmd, files, r, added, h>>,
         ticks' => ticks, stage # "done",
         outcome' = outcome \/ outcome' = "ok"
  PROVE  TalliesInv'
<1> DEFINE A == [file : DOMAIN files, n : Nat, res : ResultSet]
           rs == Res(added)
           b == Buckets(cmd.buckets)
<1>1. /\ added \in Seq(A) /\ \A k \in DOMAIN added : added[k].res \in Timed
  BY DEF ReadInv, ReadType, TalliesInv, MetricsInv
<1>2. /\ Len(added) \in Nat /\ rs \in Seq(Timed) /\ Len(rs) = Len(added)
      /\ SubSeq(rs, 1, Len(added)) = rs
  <2> HIDE DEF A, rs
  <2>1. Len(added) \in Nat /\ rs \in Seq(Timed) /\ Len(rs) = Len(added)
    BY <1>1, ResFacts DEF rs
  <2>2. QED
    BY <2>1, Prefix
<1>3. HistSound(h, b, rs) /\ (cmd.typ # "hist" => Sound(m, rs))
  BY DEF TalliesInv, MetricsInv
<1>4. cmd.typ # "hist" => Sound(m', rs) /\ Exact(m', rs)
  BY <1>2, <1>3, CloseSound DEF WriteReport
<1>5. written' = [n |-> Len(added), m |-> m', h |-> h]
  BY DEF WriteReport
<1>6. Res(added)' = rs /\ Buckets(cmd.buckets)' = b
  BY DEF Res, Buckets
<1>7. MetricsInv'
  <2>1. outcome' # "panic"
    BY DEF TalliesInv, MetricsInv
  <2>2. /\ cmd' \in Commands /\ files' \in FileLists[cmd'.name]
        /\ r'.code \in Codes /\ (ticks' => cmd'.every)
        /\ \A k \in DOMAIN added' : added'[k].res \in Timed
    BY DEF TalliesInv, MetricsInv
  <2> HIDE DEF rs, b
  <2>3. QED
    BY <1>3, <1>4, <1>6, <2>1, <2>2 DEF MetricsInv
<1>8. WrittenInv'
  <2>1. written'.n = Len(added) /\ written'.m = m' /\ written'.h = h
    BY <1>5
  <2>2. written'.n \in -1..Len(added')
    BY <1>2, <2>1
  <2> HIDE DEF rs, b
  <2>3. SubSeq(Res(added)', 1, written'.n) = rs
    BY <1>2, <1>6, <2>1
  <2>4. QED
    BY <1>3, <1>4, <1>6, <2>1, <2>2, <2>3 DEF WrittenInv
<1>9. QED
  BY <1>7, <1>8 DEF TalliesInv

(* The report of buckets panics before the first result only.              *)
LEMMA PanicStep ==
  ASSUME ReadInv, TalliesInv, ReportPanics,
         UNCHANGED <<cmd, files, r, added, m, h, written>>,
         ticks' => ticks, stage' = "done"
  PROVE  TalliesInv'
<1> DEFINE A == [file : DOMAIN files, n : Nat, res : ResultSet]
           b == Buckets(cmd.buckets)
<1>1. added = <<>>
  <2>1. HistSound(h, b, Res(added)) /\ h.counts = <<>> /\ h.buckets # <<>>
    BY DEF ReportPanics, MarshalPanics, TalliesInv, MetricsInv
  <2>2. b # <<>> /\ BucketsOK(b)
    BY <2>1, BucketsParsed DEF HistSound, TalliesInv, MetricsInv
  <2> HIDE DEF b
  <2>3. [k \in DOMAIN b |-> CountIn(Res(added), b, k)] # <<>>
    <3>1. 1 \in DOMAIN b
      BY <2>2 DEF BucketsOK
    <3>2. DOMAIN <<>> = {}
      OBVIOUS
    <3>3. DOMAIN [k \in DOMAIN b |-> CountIn(Res(added), b, k)] = DOMAIN b
      OBVIOUS
    <3>4. QED
      BY <3>1, <3>2, <3>3
  <2>4. Res(added) = <<>>
    BY <2>1, <2>2, <2>3 DEF HistSound
  <2>5. added \in Seq(A) /\ \A k \in DOMAIN added : added[k].res \in Timed
    BY DEF ReadInv, ReadType, TalliesInv, MetricsInv
  <2>6. Len(Res(added)) = Len(added)
    BY <2>5, ResFacts
  <2> HIDE DEF A
  <2>7. QED
    BY <2>4, <2>5, <2>6
<1>2. MetricsInv'
  BY <1>1 DEF TalliesInv, MetricsInv, Res
<1>3. WrittenInv'
  BY DEF TalliesInv, WrittenInv, Res
<1>4. QED
  BY <1>2, <1>3 DEF TalliesInv

LEMMA TalliesNext ==
  ASSUME ReadInv, TalliesInv, [ReportNext]_vars
  PROVE  TalliesInv'
<1>0. r.code \in Codes /\ Zero.code \in Codes
  BY ReportAssumption DEF TalliesInv, MetricsInv, Zero
<1>1. CASE Writer
  <2>1. UNCHANGED <<cmd, files, r, added, m, h, written, ticks, outcome, stage>>
    BY <1>1 DEF Writer, WriteResult, WriteResultFails, WriterStops, Write, WriterEnds,
                reportVars, decVars, loopVars
  <2>2. QED
    BY <1>0, <2>1, TalliesQuiet
<1>2. CASE Signal /\ UNCHANGED <<reportVars, exporter>>
  BY <1>0, <1>2, TalliesQuiet DEF Signal, reportVars, pipeVars, decVars
<1>3. CASE Tick
  BY <1>0, <1>3, TalliesQuiet DEF Tick, reportVars, pipeVars, decVars
<1>4. CASE (Open \/ SelectDecode) /\ UNCHANGED <<reportVars, exporter>>
  <2>1. UNCHANGED <<cmd, files, added, m, h, written, ticks>> /\ r' \in {r, Zero}
    BY <1>4 DEF Open, SelectDecode, reportVars, pipeVars
  <2>2. \/ outcome' = outcome /\ stage # "done" /\ (outcome = "panic" => stage = "done")
        \/ outcome' = "refused"
    BY <1>4 DEF Open, SelectDecode, Done, TalliesInv, MetricsInv
  <2>3. QED
    BY <1>0, <2>1, <2>2, TalliesQuiet
<1>5. CASE DecodeAndAdd
  BY <1>5, DecodeAndAddStep
<1>6. CASE SelectTick
  <2>1. UNCHANGED <<cmd, files, r, added, h>> /\ ticks /\ ~ticks' /\ stage = "select"
    BY <1>6 DEF SelectTick, pipeVars, decVars
  <2>2. cmd.name = "report"
    BY <2>1, ReportAssumption DEF TalliesInv, MetricsInv
  <2>3. CASE WriteReport /\ UNCHANGED <<stage, outcome>>
    BY <2>1, <2>2, <2>3, WriteStep
  <2>4. CASE ReportPanics /\ Done("panic") /\ UNCHANGED <<m, written>>
    BY <2>1, <2>4, PanicStep DEF Done
  <2>5. CASE Done("error") /\ UNCHANGED <<m, written>>
    BY <1>0, <2>1, <2>5, TalliesQuiet DEF Done
  <2>6. QED
    BY <1>6, <2>3, <2>4, <2>5 DEF SelectTick
<1>7. CASE Close
  <2>1. UNCHANGED <<cmd, files, r, added, h, ticks>> /\ stage = "close"
    BY <1>7 DEF Close, pipeVars, decVars
  <2>2. CASE cmd.name = "report"
    <3>1. CASE WriteReport /\ Done("ok")
      BY <2>1, <2>2, <3>1, WriteStep DEF Done
    <3>2. CASE ReportPanics /\ Done("panic") /\ UNCHANGED <<m, written>>
      BY <2>1, <3>2, PanicStep DEF Done
    <3>3. CASE Done("error") /\ UNCHANGED <<m, written>>
      BY <1>0, <2>1, <3>3, TalliesQuiet DEF Done
    <3>4. QED
      BY <1>7, <2>2, <3>1, <3>2, <3>3 DEF Close
  <2>3. CASE cmd.name # "report"
    <3>1. UNCHANGED <<m, written>> /\ (outcome' = outcome \/ outcome' = "ok")
      BY <1>7, <2>3 DEF Close, Done
    <3>2. outcome # "panic"
      BY <2>1 DEF TalliesInv, MetricsInv
    <3>3. QED
      BY <1>0, <2>1, <3>1, <3>2, TalliesQuiet
  <2>4. QED
    BY <2>2, <2>3
<1>8. CASE DrawSeries \/ DrawSample \/ WritePage
  <2>1. UNCHANGED <<cmd, files, r, added, m, h, written, ticks>>
    <3>1. CASE DrawSeries
      BY <3>1, Zenon DEF DrawSeries, pipeVars, decVars
    <3>2. CASE DrawSample
      BY <3>2, Zenon DEF DrawSample, pipeVars, decVars, loopVars
    <3>3. CASE WritePage
      BY <3>3, Zenon DEF WritePage, pipeVars, decVars
    <3>4. QED
      BY <1>8, <3>1, <3>2, <3>3
  <2>2. stage = "draw" /\ (UNCHANGED <<stage, outcome>> \/ outcome' \in {"ok", "error"})
    <3>1. CASE DrawSeries
      <4>1. stage = "draw" /\ (UNCHANGED <<stage, outcome>> \/ Done("error"))
        BY <3>1, Zenon DEF DrawSeries
      <4>2. QED
        BY <4>1 DEF Done
    <3>2. CASE DrawSample
      BY <3>2, Zenon DEF DrawSample, loopVars
    <3>3. CASE WritePage
      BY <3>3 DEF WritePage, Done
    <3>4. QED
      BY <1>8, <3>1, <3>2, <3>3
  <2>3. QED
    BY <1>0, <2>1, <2>2, TalliesQuiet
<1>9. CASE EncodeFails
  BY <1>0, <1>9, TalliesQuiet DEF EncodeFails, Done, reportVars, pipeVars, decVars
<1>10. CASE TakeSignal
  <2>1. UNCHANGED <<cmd, files, r, added, m, h, written, ticks, outcome>> /\ stage = "select"
    BY <1>10 DEF TakeSignal, SelectSignal, reportVars, pipeVars, decVars
  <2>2. outcome # "panic"
    BY <2>1 DEF TalliesInv, MetricsInv
  <2>3. QED
    BY <1>0, <2>1, <2>2, TalliesQuiet
<1>11. CASE UNCHANGED vars
  <2>1. UNCHANGED <<cmd, files, r, added, m, h, written, ticks, outcome, stage>>
    BY <1>11 DEF vars, decodingVars, reportVars, pipeVars, decVars, loopVars
  <2>2. QED
    BY <1>0, <2>1, TalliesQuiet
<1>12. QED
  BY <1>1, <1>2, <1>3, <1>4, <1>5, <1>6, <1>7, <1>8, <1>9, <1>10, <1>11
  DEF ReportNext, Program

(* In every run, Metrics and Histogram hold the tallies, extremes and      *)
(* counts of the results added (lib/metrics.go Add, lib/histogram.go Add), *)
(* and the last report is exact about the results it was written from.     *)
THEOREM TalliesInvariant == ReportSpec => []TalliesInv
<1>1. ReportInit => TalliesInv
  BY TalliesInit
<1>2. TalliesInv /\ ReadInv /\ [ReportNext]_vars => TalliesInv'
  BY TalliesNext
<1>3. QED
  BY <1>1, <1>2, ReadInvariant, PTL DEF ReportSpec

(* Whatever the results, however often Metrics were closed before, a       *)
(* report says what the results read so far say (lib/metrics.go Close,     *)
(* lib/histogram.go Add), and only a JSON report of buckets before the     *)
(* first result panics (lib/histogram.go MarshalJSON).                     *)
THEOREM ReportsExact == ReportSpec => []MetricsExact
<1>1. ReadInv /\ TalliesInv => MetricsExact
  <2> SUFFICES ASSUME ReadInv, TalliesInv PROVE MetricsExact
    OBVIOUS
  <2>1. outcome = "panic" => added = <<>>
    BY DEF TalliesInv, MetricsInv
  <2>2. ASSUME written.n >= 0
        PROVE  LET rs == SubSeq(Res(added), 1, written.n)
                   ref == MetricsOf(rs)
                   zero == \E k \in DOMAIN rs : rs[k].latency = 0
               IN /\ cmd.typ # "hist" =>
                       \/ written.m = ref
                       \/ zero /\ written.m = [ref EXCEPT !.min = written.m.min]
                  /\ cmd.buckets # <<>> /\ rs # <<>> =>
                       /\ written.h.total = Len(rs)
                       /\ \A k \in DOMAIN written.h.buckets :
                            written.h.counts[k] = CountIn(rs, written.h.buckets, k)
    <3> DEFINE A == [file : DOMAIN files, n : Nat, res : ResultSet]
               rs == SubSeq(Res(added), 1, written.n)
               b == Buckets(cmd.buckets)
    <3>1. /\ added \in Seq(A) /\ Len(added) \in Nat
          /\ \A k \in DOMAIN added : added[k].res \in Timed
          /\ written.n \in -1..Len(added)
          /\ cmd \in Commands
      BY DEF ReadInv, ReadType, TalliesInv, MetricsInv, WrittenInv
    <3>2. written.n \in 0..Len(added)
      BY <2>2, <3>1
    <3>3. rs \in Seq(Timed)
      <4>1. Res(added) \in Seq(Timed) /\ Len(Res(added)) = Len(added)
        BY <3>1, ResFacts
      <4>2. QED
        BY <3>2, <4>1, Prefix
    <3>4. (cmd.typ # "hist" => Exact(written.m, rs)) /\ HistSound(written.h, b, rs)
      BY <2>2 DEF TalliesInv, WrittenInv
    <3> HIDE DEF rs
    <3>5. ~NoZero(rs) => \E k \in DOMAIN rs : rs[k].latency = 0
      <4>1. \A k \in DOMAIN rs : rs[k].latency \in Nat
        <5>1. \A k \in DOMAIN rs : rs[k] \in Timed
          BY <3>3
        <5>2. QED
          BY <5>1, TimedFacts
      <4>2. QED
        BY <4>1 DEF NoZero
    <3>6. cmd.typ # "hist" =>
             \/ written.m = MetricsOf(rs)
             \/ /\ \E k \in DOMAIN rs : rs[k].latency = 0
                /\ written.m = [MetricsOf(rs) EXCEPT !.min = written.m.min]
      BY <3>4, <3>5 DEF Exact
    <3>7. ASSUME cmd.buckets # <<>>, rs # <<>>
          PROVE  /\ written.h.total = Len(rs)
                 /\ \A k \in DOMAIN written.h.buckets :
                      written.h.counts[k] = CountIn(rs, written.h.buckets, k)
      <4>1. b # <<>>
        <5> DEFINE bs == cmd.buckets
        <5>1. bs \in Seq(Int)
          BY <3>1, ReportAssumption
        <5> HIDE DEF bs
        <5>2. Len(<<0>> \o bs) = 1 + Len(bs) /\ Len(bs) \in Nat
          BY <5>1
        <5>3. <<0>> \o bs # <<>>
          <6>1. Len(<<>>) = 0
            OBVIOUS
          <6>2. QED
            BY <5>2, <6>1
        <5>4. Buckets(bs) \in {<<0>> \o bs, bs}
          BY DEF Buckets
        <5>5. QED
          BY <3>7, <5>3, <5>4 DEF bs
      <4> HIDE DEF b
      <4>2. /\ written.h.buckets = b /\ written.h.total = Len(rs)
            /\ written.h.counts = [k \in DOMAIN b |-> CountIn(rs, b, k)]
        BY <3>4, <3>7, <4>1 DEF HistSound
      <4>3. QED
        BY <4>2
    <3>8. QED
      BY <3>6, <3>7 DEF rs
  <2>3. QED
    BY <2>1, <2>2 DEF MetricsExact
<1>2. QED
  BY <1>1, ReadInvariant, TalliesInvariant, PTL

-----------------------------------------------------------------------------
(* The results in the file that an attack command writes.                  *)
LEMMA InFileFacts ==
  ASSUME ReadType, cmd \in Commands, files \in FileLists[cmd.name]
  PROVE  /\ Len(files[1].entries) \in Nat
         /\ \A n \in 0..Len(files[1].entries) : InFile(n) \in Seq(Coded)
         /\ \A n \in 0..(Len(files[1].entries) - 1) :
              /\ files[1].entries[n + 1].res \in Coded
              /\ InFile(n + 1) = Append(InFile(n), files[1].entries[n + 1].res)
         /\ InFile(0) = <<>>
<1> DEFINE es == files[1].entries
           L == Len(es)
           q == Res(es)
<1>1. 1 \in DOMAIN files
  BY FileFacts DEF ReadType
<1>2. /\ es \in Seq([kind : {"ok", "bad", "half"}, res : ResultSet])
      /\ \A k \in 1..L : es[k].res \in Coded
  <2>1. es \in Seq([kind : {"ok", "bad", "half"}, res : ResultSet])
    BY <1>1, FileFacts DEF FileSet
  <2>2. ASSUME NEW k \in 1..L PROVE es[k].res \in Coded
    <3>1. es[k].res.code \in Codes
      BY <1>1, EntryCodes
    <3>2. es[k] \in [kind : {"ok", "bad", "half"}, res : ResultSet]
      BY <1>1, FileFacts
    <3>3. QED
      BY <3>1, <3>2 DEF Coded
  <2>3. QED
    BY <2>1, <2>2
<1>3. /\ L \in Nat /\ q \in Seq(Coded) /\ Len(q) = L
      /\ \A k \in 1..L : q[k] = es[k].res
  <2> DEFINE E == [kind : {"ok", "bad", "half"}, res : ResultSet]
  <2>1. es \in Seq(E) /\ \A k \in 1..Len(es) : es[k].res \in Coded
    BY <1>2
  <2> HIDE DEF es, E
  <2>2. DOMAIN es = 1..Len(es)
    BY <2>1
  <2>3. QED
    BY <2>1, <2>2, ResFacts
<1>4. \A n : InFile(n) = SubSeq(q, 1, n)
  BY DEF InFile
<1> HIDE DEF es, q, L
<1>5. ASSUME NEW n \in 0..L PROVE InFile(n) \in Seq(Coded)
  BY <1>3, <1>4, Prefix
<1>6. ASSUME NEW n \in 0..(L - 1)
      PROVE  /\ es[n + 1].res \in Coded
             /\ InFile(n + 1) = Append(InFile(n), es[n + 1].res)
  <2> DEFINE x == es[n + 1].res
             p == SubSeq(q, 1, n)
             t == SubSeq(q, 1, n + 1)
             u == Append(p, x)
  <2>1. /\ n \in Nat /\ n \in 0..L /\ n + 1 \in 1..L /\ n + 1 \in 0..L
        /\ \A k \in 1..n : k \in 1..L
        /\ \A k \in 1..(n + 1) : k \in 1..n \/ k = n + 1
    BY <1>3
  <2>2. x \in Coded /\ q[n + 1] = x
    BY <1>2, <1>3, <2>1 DEF es, L
  <2>3. /\ p \in Seq(Coded) /\ Len(p) = n /\ \A k \in 1..n : p[k] = q[k]
    BY <1>3, <2>1, Prefix
  <2>4. /\ t \in Seq(Coded) /\ DOMAIN t = 1..(n + 1)
        /\ \A k \in 1..(n + 1) : t[k] = q[k]
    BY <1>3, <2>1, Prefix
  <2> HIDE DEF x, p, t
  <2>5. /\ u \in Seq(Coded) /\ DOMAIN u = 1..(n + 1)
        /\ \A k \in 1..n : u[k] = p[k]
        /\ u[n + 1] = x
    BY <2>2, <2>3, OneMore
  <2> HIDE DEF u
  <2>6. ASSUME NEW k \in 1..(n + 1) PROVE t[k] = u[k]
    <3>1. CASE k \in 1..n
      BY <3>1, <2>3, <2>4, <2>5
    <3>2. CASE k = n + 1
      BY <3>2, <2>2, <2>4, <2>5
    <3>3. QED
      BY <2>1, <3>1, <3>2
  <2>7. t = [k \in 1..(n + 1) |-> t[k]] /\ u = [k \in 1..(n + 1) |-> u[k]]
    BY <2>4, <2>5
  <2>8. t = u
    BY <2>6, <2>7
  <2>9. QED
    BY <1>4, <2>2, <2>8 DEF x, p, t, u
<1>7. InFile(0) = <<>>
  <2>1. 0 \in 0..L
    BY <1>3
  <2>2. InFile(0) \in Seq(Coded) /\ Len(InFile(0)) = 0
    BY <1>3, <1>4, <2>1, Prefix
  <2>3. QED
    BY <2>2
<1>8. QED
  BY <1>3, <1>5, <1>6, <1>7 DEF es, L

LEMMA ExporterInit ==
  ASSUME ReportInit
  PROVE  ExporterInv
<1>1. ReadType /\ cmd \in Commands /\ files \in FileLists[cmd.name] /\ avail = 0
  BY ReadInit DEF ReportInit, DecodingInit, ReadInv
<1>2. InFile(avail) = <<>>
  BY <1>1, InFileFacts
<1>3. Counts(NewExporter, <<>>)
  <2> DEFINE z == [c \in Codes |-> 0]
  <2>1. NewExporter = [requests |-> z, in |-> z, failed |-> 0]
    BY DEF NewExporter
  <2>2. z \in [Codes -> Nat]
    OBVIOUS
  <2>3. ASSUME NEW c \in Codes
        PROVE  CountIf(<<>>, LAMBDA x : x.code = c) = 0 /\ Total(BytesOf(<<>>, c)) = 0
    <3>1. DOMAIN <<>> = {} /\ Len(<<>>) = 0 /\ <<>> \in Seq(Nat)
      OBVIOUS
    <3>2. {k \in DOMAIN <<>> : <<>>[k].code = c} = {}
      BY <3>1
    <3>3. BytesOf(<<>>, c) = <<>>
      BY <3>1 DEF BytesOf
    <3>4. Sums(<<>>)[0] = 0
      BY <3>1, SumsFacts
    <3>5. Total(<<>>) = 0
      BY <3>1, <3>4 DEF Total
    <3>6. QED
      BY <3>2, <3>3, <3>5, FS_EmptySet DEF CountIf
  <2>4. /\ z = [c \in Codes |-> CountIf(<<>>, LAMBDA x : x.code = c)]
        /\ z = [c \in Codes |-> Total(BytesOf(<<>>, c))]
    BY <2>3
  <2>5. NewExporter \in ExporterSet
    <3> HIDE DEF z
    <3>1. QED
      BY <2>1, <2>2 DEF ExporterSet
  <2>6. NewExporter.requests = z /\ NewExporter.in = z
    BY <2>1
  <2> HIDE DEF z
  <2>7. QED
    BY <2>4, <2>5, <2>6 DEF Counts
<1>4. exporter = NewExporter
  BY DEF ReportInit
<1>5. QED
  BY <1>2, <1>3, <1>4 DEF ExporterInv

(* The attack command observes a result before it writes it.               *)
LEMMA ObserveStep ==
  ASSUME ReadInv, TalliesInv, ExporterInv, writer = "writing", files' = files,
         avail < Len(files[1].entries),
         exporter' = Observe(exporter, files[1].entries[avail + 1].res)
  PROVE  Counts(exporter', InFile(avail + 1))
<1>1. /\ ReadType /\ cmd \in Commands /\ files \in FileLists[cmd.name]
      /\ avail \in 0..Len(files[1].entries)
  BY DEF ReadInv, ReadType, TalliesInv, MetricsInv
<1>2. Len(files[1].entries) \in Nat
  BY <1>1, InFileFacts
<1>3. avail \in 0..(Len(files[1].entries) - 1) /\ avail \in 0..Len(files[1].entries)
  BY <1>1, <1>2
<1>4. /\ files[1].entries[avail + 1].res \in Coded /\ InFile(avail) \in Seq(Coded)
      /\ InFile(avail + 1) = Append(InFile(avail), files[1].entries[avail + 1].res)
  BY <1>1, <1>3, InFileFacts
<1>5. Counts(exporter, InFile(avail))
  BY DEF ExporterInv
<1>6. QED
  BY <1>4, <1>5, ObserveCounts

LEMMA ExporterNext ==
  ASSUME ReadInv, TalliesInv, ExporterInv, [ReportNext]_vars
  PROVE  ExporterInv'
<1>1. CASE WriteResult
  <2>1. /\ writer = "writing" /\ avail < Len(files[1].entries) /\ avail' = avail + 1
        /\ files' = files
        /\ exporter' = Observe(exporter, files[1].entries[avail + 1].res)
    BY <1>1 DEF WriteResult, Write
  <2>2. PICK n : n = avail + 1
    OBVIOUS
  <2>3. Counts(exporter', InFile(n))
    BY <2>1, <2>2, ObserveStep
  <2>4. avail' = n
    BY <2>1, <2>2
  <2>5. QED
    BY <2>1, <2>3, <2>4 DEF ExporterInv, InFile, Res
<1>2. CASE WriteResultFails
  <2>1. /\ writer = "writing" /\ avail < Len(files[1].entries) /\ avail' = avail
        /\ files' = files /\ writer' = "closed"
        /\ exporter' = Observe(exporter, files[1].entries[avail + 1].res)
    BY <1>2 DEF WriteResultFails, WriterEnds
  <2>2. Counts(exporter', InFile(avail + 1))
    BY <2>1, ObserveStep
  <2>3. QED
    BY <2>1, <2>2 DEF ExporterInv, InFile, Res
<1>3. CASE WriterStops
  <2>1. writer = "writing" /\ UNCHANGED <<files, avail, exporter>>
    BY <1>3 DEF WriterStops, WriterEnds
  <2>2. Counts(exporter, InFile(avail))
    BY <2>1 DEF ExporterInv
  <2>3. QED
    BY <2>1, <2>2 DEF ExporterInv, InFile, Res
<1>4. CASE UNCHANGED <<files, avail, writer, exporter>>
  BY <1>4 DEF ExporterInv, InFile, Res
<1>5. QED
  <2>1. CASE Signal /\ UNCHANGED <<reportVars, exporter>>
    BY <1>4, <2>1 DEF Signal, pipeVars
  <2>2. CASE Tick
    BY <1>4, <2>2 DEF Tick, pipeVars
  <2>3. CASE (Open \/ SelectDecode) /\ UNCHANGED <<reportVars, exporter>>
    BY <1>4, <2>3 DEF Open, SelectDecode, pipeVars
  <2>4. CASE DecodeAndAdd
    BY <1>4, <2>4 DEF DecodeAndAdd, Decode, pipeVars
  <2>5. CASE SelectTick
    BY <1>4, <2>5 DEF SelectTick, pipeVars
  <2>6. CASE Close
    BY <1>4, <2>6 DEF Close, pipeVars
  <2>7. CASE DrawSeries \/ DrawSample \/ WritePage
    <3>1. UNCHANGED <<pipeVars, exporter>>
      <4>1. CASE DrawSeries
        BY <4>1, Zenon DEF DrawSeries
      <4>2. CASE DrawSample
        BY <4>2, Zenon DEF DrawSample
      <4>3. CASE WritePage
        BY <4>3, Zenon DEF WritePage
      <4>4. QED
        BY <2>7, <4>1, <4>2, <4>3
    <3>2. QED
      BY <1>4, <3>1 DEF pipeVars
  <2>8. CASE EncodeFails
    BY <1>4, <2>8 DEF EncodeFails, pipeVars
  <2>9. CASE TakeSignal
    BY <1>4, <2>9 DEF TakeSignal, SelectSignal, pipeVars
  <2>10. CASE UNCHANGED vars
    BY <1>4, <2>10 DEF vars, decodingVars, pipeVars
  <2>11. QED
    BY <1>1, <1>2, <1>3, <2>1, <2>2, <2>3, <2>4, <2>5, <2>6, <2>7, <2>8,
       <2>9, <2>10 DEF ReportNext, Program, Writer

(* In every run, the exporter counts the requests and bytes of the results *)
(* in the file, and of one more if writing it failed (lib/prom/prom.go     *)
(* Observe, attack.go processAttack).                                      *)
THEOREM ExporterCounts == ReportSpec => []ExporterAgrees
<1>1. ReportInit => ExporterInv
  BY ExporterInit
<1>2. ExporterInv /\ TalliesInv /\ ReadInv /\ [ReportNext]_vars => ExporterInv'
  BY ExporterNext
<1>3. ExporterInv => ExporterAgrees
  BY DEF ExporterInv, ExporterAgrees, Counts
<1>4. QED
  BY <1>1, <1>2, <1>3, ReadInvariant, TalliesInvariant, PTL DEF ReportSpec

-----------------------------------------------------------------------------
(* Ordered lists the elements of a finite set of integers, each once, by   *)
(* ascending keys, and those with the same key as they come: an element is *)
(* at the place given by how many go before it.                            *)
LEMMA OrderedFacts ==
  ASSUME NEW K, IsFiniteSet(K), K \subseteq Int,
         NEW key, \A k \in K : key[k] \in Int
  PROVE  /\ Cardinality(K) \in Nat
         /\ Ordered(K, key) \in [1..Cardinality(K) -> K]
         /\ \A k \in K : \E i \in 1..Cardinality(K) : Ordered(K, key)[i] = k
         /\ \A i, j \in 1..Cardinality(K) : i < j =>
              /\ Ordered(K, key)[i] # Ordered(K, key)[j]
              /\ key[Ordered(K, key)[i]] <= key[Ordered(K, key)[j]]
              /\ \/ key[Ordered(K, key)[i]] < key[Ordered(K, key)[j]]
                 \/ Ordered(K, key)[i] < Ordered(K, key)[j]
<1> DEFINE before(j, k) == key[j] < key[k] \/ (key[j] = key[k] /\ j < k)
           B(k) == {j \in K : before(j, k)}
           N0 == Cardinality(K)
           rank == [k \in K |-> Cardinality(B(k)) + 1]
           o == Ordered(K, key)
<1>0. N0 \in Nat
  BY FS_CardinalityType
<1>1. ASSUME NEW k \in K
      PROVE  /\ B(k) \in SUBSET K /\ IsFiniteSet(B(k))
             /\ Cardinality(B(k)) \in 0..(N0 - 1)
  <2>1. B(k) \in SUBSET K /\ k \notin B(k)
    <3>1. key[k] \in Int /\ k \in Int
      OBVIOUS
    <3>2. QED
      BY <3>1
  <2> HIDE DEF B
  <2>2. IsFiniteSet(B(k)) /\ Cardinality(B(k)) <= N0 /\ Cardinality(B(k)) # N0
    BY <2>1, FS_Subset
  <2>3. Cardinality(B(k)) \in Nat
    BY <2>2, FS_CardinalityType
  <2> HIDE DEF N0
  <2>4. QED
    BY <1>0, <2>1, <2>2, <2>3
<1>2. ASSUME NEW j \in K, NEW k \in K, before(j, k)
      PROVE  rank[j] < rank[k]
  <2>1. B(j) \in SUBSET B(k) /\ j \in B(k) /\ j \notin B(j)
    <3>1. \A l \in K : key[l] \in Int /\ l \in Int
      OBVIOUS
    <3>2. \A l \in K : before(l, j) => before(l, k)
      BY <1>2, <3>1
    <3>3. ~before(j, j)
      BY <3>1
    <3> HIDE DEF before
    <3>4. QED
      BY <1>2, <3>2, <3>3
  <2>2. IsFiniteSet(B(k)) /\ Cardinality(B(j)) \in Nat /\ Cardinality(B(k)) \in Nat
    <3> HIDE DEF B, N0
    <3>1. QED
      BY <1>0, <1>1
  <2> HIDE DEF B
  <2>3. Cardinality(B(j)) <= Cardinality(B(k)) /\ Cardinality(B(j)) # Cardinality(B(k))
    BY <2>1, <2>2, FS_Subset
  <2>4. QED
    BY <2>2, <2>3
<1>3. ASSUME NEW j \in K, NEW k \in K, j # k
      PROVE  before(j, k) \/ before(k, j)
  <2>1. key[j] \in Int /\ key[k] \in Int /\ j \in Int /\ k \in Int
    OBVIOUS
  <2>2. QED
    BY <1>3, <2>1
<1>4. rank \in [K -> 1..N0]
  <2> HIDE DEF B, N0
  <2>1. QED
    BY <1>0, <1>1
<1>5. \A i \in 1..N0 : \E k \in K : rank[k] = i
  <2>1. \A j, k \in K : rank[j] = rank[k] => j = k
    <3> SUFFICES ASSUME NEW j \in K, NEW k \in K, rank[j] = rank[k], j # k
                 PROVE  FALSE
      OBVIOUS
    <3>1. rank[j] \in 1..N0 /\ rank[k] \in 1..N0
      BY <1>4
    <3>2. rank[j] < rank[k] \/ rank[k] < rank[j]
      <4> HIDE DEF rank, before
      <4>1. QED
        BY <1>2, <1>3
    <3> HIDE DEF rank, N0
    <3>3. QED
      BY <1>0, <3>1, <3>2
  <2> HIDE DEF rank
  <2>2. rank \in Injection(K, 1..N0)
    BY <1>4, <2>1 DEF Injection, IsInjective
  <2>3. IsFiniteSet(1..N0) /\ Cardinality(1..N0) = N0
    <3> HIDE DEF N0
    <3>1. QED
      BY <1>0, FS_Interval
  <2>4. rank \in Surjection(K, 1..N0)
    BY <2>2, <2>3, FS_Injection
  <2>5. QED
    BY <2>4 DEF Surjection
<1>6. ASSUME NEW i \in 1..N0 PROVE o[i] \in K /\ rank[o[i]] = i
  <2>1. PICK k \in K : rank[k] = i
    BY <1>5
  <2>2. Cardinality(B(k)) = i - 1
    <3>1. Cardinality(B(k)) \in 0..(N0 - 1) /\ rank[k] = Cardinality(B(k)) + 1
      BY <1>1
    <3> HIDE DEF B, rank, N0
    <3>2. QED
      BY <1>0, <2>1, <3>1
  <2>3. o[i] = CHOOSE l \in K : Cardinality(B(l)) = i - 1
    BY DEF Ordered
  <2> HIDE DEF o, B
  <2>4. o[i] \in K /\ Cardinality(B(o[i])) = i - 1
    BY <2>2, <2>3
  <2>5. rank[o[i]] = Cardinality(B(o[i])) + 1
    BY <2>4
  <2> HIDE DEF rank, N0
  <2>6. QED
    BY <1>0, <2>4, <2>5
<1>7. o \in [1..N0 -> K]
  <2> DEFINE chosen(i) == CHOOSE k \in K : Cardinality(B(k)) = i - 1
  <2>1. o = [i \in 1..N0 |-> chosen(i)]
    BY DEF Ordered
  <2> HIDE DEF chosen, o, rank, N0
  <2>2. DOMAIN o = 1..N0 /\ o = [i \in 1..N0 |-> o[i]]
    BY <2>1
  <2>3. QED
    BY <1>6, <2>2
<1>8. \A k \in K : \E i \in 1..N0 : o[i] = k
  <2> SUFFICES ASSUME NEW k \in K PROVE \E i \in 1..N0 : o[i] = k
    OBVIOUS
  <2>1. rank[k] \in 1..N0
    BY <1>4
  <2> DEFINE l == o[rank[k]]
  <2>2. l \in K /\ rank[l] = rank[k]
    BY <1>6, <2>1
  <2>3. rank[l] \in 1..N0
    BY <1>4, <2>2
  <2>4. l = k
    <3> SUFFICES ASSUME l # k PROVE FALSE
      OBVIOUS
    <3> HIDE DEF rank, before, N0, l
    <3>1. rank[l] < rank[k] \/ rank[k] < rank[l]
      BY <1>2, <1>3, <2>2
    <3>2. QED
      BY <1>0, <2>1, <2>2, <3>1
  <2>5. QED
    BY <2>1, <2>4
<1>9. ASSUME NEW i \in 1..N0, NEW j \in 1..N0, i < j
      PROVE  /\ o[i] # o[j] /\ key[o[i]] <= key[o[j]]
             /\ key[o[i]] < key[o[j]] \/ o[i] < o[j]
  <2>1. o[i] \in K /\ rank[o[i]] = i /\ o[j] \in K /\ rank[o[j]] = j
    BY <1>6
  <2>2. i \in Nat /\ j \in Nat
    BY <1>0
  <2>3. o[i] # o[j]
    BY <2>1, <2>2, <1>9
  <2>4. ~before(o[j], o[i])
    <3> HIDE DEF before, rank, o
    <3>1. before(o[j], o[i]) => rank[o[j]] < rank[o[i]]
      BY <1>2, <2>1
    <3>2. QED
      BY <1>9, <2>1, <2>2, <3>1
  <2>5. key[o[i]] \in Int /\ key[o[j]] \in Int /\ o[i] \in Int /\ o[j] \in Int
    BY <2>1
  <2> HIDE DEF o
  <2>6. QED
    BY <2>3, <2>4, <2>5
<1> HIDE DEF N0
<1>10. QED
  BY <1>0, <1>7, <1>8, <1>9 DEF N0

(* A finite set has an element of the largest key.                         *)
LEMMA LargestKey ==
  ASSUME NEW K, IsFiniteSet(K), K \subseteq Int, K # {},
         NEW key, \A k \in K : key[k] \in Int
  PROVE  \E k \in K : \A j \in K : key[j] <= key[k]
<1> DEFINE c == Cardinality(K)
           o == Ordered(K, key)
<1>0. IsFiniteSet(K) /\ K \subseteq Int /\ \A k \in K : key[k] \in Int
  OBVIOUS
<1>1. /\ c \in Nat /\ o \in [1..c -> K]
      /\ \A k \in K : \E i \in 1..c : o[i] = k
      /\ \A i, j \in 1..c : i < j => key[o[i]] <= key[o[j]]
  <2>1. /\ c \in Nat
        /\ o \in [1..c -> K]
        /\ \A k \in K : \E i \in 1..c : o[i] = k
        /\ \A i, j \in 1..c : i < j =>
             /\ o[i] # o[j]
             /\ key[o[i]] <= key[o[j]]
             /\ \/ key[o[i]] < key[o[j]]
                \/ o[i] < o[j]
    BY <1>0, OrderedFacts, ZenonT(30)
  <2> HIDE DEF c, o
  <2>2. QED
    BY <2>1
<1> HIDE DEF c, o
<1>2. c \in 1..c
  <2>1. \E i : i \in 1..c
    BY <1>1
  <2>2. QED
    BY <1>1, <2>1
<1>3. ASSUME NEW j \in K PROVE key[j] <= key[o[c]]
  <2>1. PICK i \in 1..c : o[i] = j
    BY <1>1
  <2>2. CASE i = c
    BY <2>1, <2>2
  <2>3. CASE i # c
    BY <1>1, <1>2, <2>1, <2>3
  <2>4. QED
    BY <2>2, <2>3
<1>4. QED
  BY <1>1, <1>2, <1>3

(* A set of naturals that is not empty has a least element.                *)
LEMMA LeastNatural ==
  ASSUME NEW S \in SUBSET Nat, S # {}
  PROVE  \E x \in S : \A y \in S : x <= y
<1>1. PICK x \in S : \A y \in S : ~(<<y, x>> \in OpToRel(<, Nat))
  BY NatLessThanWellFounded, WFMin
<1>2. ASSUME NEW y \in S, y < x PROVE FALSE
  <2>1. <<y, x>> \in OpToRel(<, Nat)
    BY <1>2 DEF OpToRel
  <2>2. QED
    BY <1>1, <2>1
<1>3. \A y \in S : x \in Nat /\ y \in Nat
  OBVIOUS
<1>4. QED
  BY <1>2, <1>3

(* A bucket is sampled at one of its points.                               *)
LEMMA SampleFacts ==
  ASSUME NEW s \in Seq(Int \X Int), NEW a \in 0..(Len(s) - 1),
         NEW b \in Nat, NEW c \in Nat, NEW d \in Nat,
         b < c, c < d, d <= Len(s)
  PROVE  Sample(s, a, b..(c - 1), c..(d - 1)) \in b..(c - 1)
<1> DEFINE current == b..(c - 1)
           next == c..(d - 1)
           l == Cardinality(next)
           ns(axis) == [k \in 1..l |-> s[Min(next) + k][axis]]
           x == s[a + 1][1]
           y == s[a + 1][2]
           area(p) == (x * l - Total(ns(1))) * (s[p + 1][2] - y)
                        - (x - s[p + 1][1]) * (Total(ns(2)) - y * l)
           square == [p \in current |-> area(p) * area(p)]
           best == {p \in current : \A q \in current : square[q] <= square[p]}
<1>1. Len(s) \in Nat /\ \A k \in 1..Len(s) : s[k][1] \in Int /\ s[k][2] \in Int
  OBVIOUS
<1>2. l = d - c /\ l \in Nat
  <2>1. c \in Int /\ d - 1 \in Int /\ ~(c > d - 1)
    OBVIOUS
  <2>2. l = (d - 1) - c + 1
    BY <2>1, FS_Interval
  <2> HIDE DEF l
  <2>3. QED
    BY <2>2
<1>3. Min(next) = c
  <2>1. next \in SUBSET Int /\ c \in next /\ \A k \in next : c <= k
    OBVIOUS
  <2> HIDE DEF next
  <2>2. QED
    BY <2>1, MinIs
<1>4. \A axis \in {1, 2} : Total(ns(axis)) \in Int
  <2> SUFFICES ASSUME NEW axis \in {1, 2} PROVE Total(ns(axis)) \in Int
    OBVIOUS
  <2>1. ns(axis) = [k \in 1..l |-> s[c + k][axis]]
    BY <1>3
  <2> DEFINE f == ns(axis)
  <2>2. f \in [1..l -> Int]
    <3>1. \A k \in 1..l : c + k \in 1..Len(s)
      BY <1>1, <1>2
    <3>2. \A k \in 1..l : s[c + k][axis] \in Int
      BY <1>1, <3>1
    <3> HIDE DEF l
    <3>3. QED
      BY <2>1, <3>2
  <2> HIDE DEF f, l
  <2>3. f \in Seq(Int) /\ Len(f) = l
    <3>1. l \in Nat
      BY <1>2
    <3>2. QED
      BY <2>2, <3>1
  <2>4. Sums(f) \in [0..l -> Int]
    <3>1. 0 \in Int /\ \A u, v \in Int : u + v \in Int
      OBVIOUS
    <3>2. QED
      BY <2>3, <3>1, SumsOver
  <2>5. Total(f) \in Int
    BY <1>2, <2>3, <2>4 DEF Total
  <2>6. QED
    BY <2>5 DEF f
<1>5. \A p \in current : square[p] \in Int
  <2> DEFINE u == Total(ns(1))
             v == Total(ns(2))
  <2>1. u \in Int /\ v \in Int
    BY <1>4
  <2>2. x \in Int /\ y \in Int
    <3>1. a + 1 \in 1..Len(s)
      <4> DEFINE n == Len(s)
      <4>1. n \in Nat /\ a \in 0..(n - 1)
        BY <1>1
      <4> HIDE DEF n
      <4>2. a + 1 \in 1..n
        BY <4>1
      <4>3. QED
        BY <4>2 DEF n
    <3>2. QED
      BY <1>1, <3>1
  <2> HIDE DEF u, v, x, y, l
  <2>3. ASSUME NEW p \in current
        PROVE  (x * l - u) * (s[p + 1][2] - y) - (x - s[p + 1][1]) * (v - y * l) \in Int
    <3>1. p + 1 \in 1..Len(s)
      BY <1>1
    <3> DEFINE g == s[p + 1][1]
               k == s[p + 1][2]
    <3>2. g \in Int /\ k \in Int
      BY <1>1, <3>1
    <3> HIDE DEF g, k
    <3>3. /\ x * l - u \in Int /\ k - y \in Int
          /\ x - g \in Int /\ v - y * l \in Int
      BY <1>2, <2>1, <2>2, <3>2
    <3>4. (x * l - u) * (k - y) \in Int /\ (x - g) * (v - y * l) \in Int
      <4> DEFINE e1 == x * l - u
                 e2 == k - y
                 e3 == x - g
                 e4 == v - y * l
      <4>1. e1 \in Int /\ e2 \in Int /\ e3 \in Int /\ e4 \in Int
        BY <3>3
      <4> HIDE DEF e1, e2, e3, e4
      <4>2. e1 * e2 \in Int /\ e3 * e4 \in Int
        BY <4>1
      <4>3. QED
        BY <4>2 DEF e1, e2, e3, e4
    <3>5. QED
      BY <3>4 DEF g, k
  <2>4. ASSUME NEW p \in current PROVE square[p] \in Int
    <3> DEFINE w == (x * l - u) * (s[p + 1][2] - y) - (x - s[p + 1][1]) * (v - y * l)
    <3>1. w \in Int
      BY <2>3
    <3>2. square[p] = w * w
      BY DEF u, v
    <3> HIDE DEF w, square
    <3>3. QED
      BY <3>1, <3>2
  <2>5. QED
    BY <2>4
<1>6. Sample(s, a, current, next) = Min(best)
  BY DEF Sample
<1> HIDE DEF square
<1>7. best # {}
  <2>1. IsFiniteSet(current) /\ current \subseteq Int /\ b \in current
    BY FS_Interval
  <2> HIDE DEF current
  <2>2. \E k \in current : \A j \in current : square[j] <= square[k]
    BY <1>5, <2>1, LargestKey
  <2>3. QED
    BY <2>2
<1>8. best \in SUBSET Nat /\ best \in SUBSET current
  OBVIOUS
<1> HIDE DEF best, current
<1>9. PICK k \in best : \A j \in best : k <= j
  BY <1>7, <1>8, LeastNatural
<1>10. Min(best) = k
  <2>1. best \in SUBSET Int
    BY <1>8
  <2>2. QED
    BY <1>9, <2>1, MinIs
<1>11. QED
  BY <1>6, <1>8, <1>9, <1>10 DEF current

(* A quotient of naturals.                                                 *)
LEMMA Quotient ==
  ASSUME NEW x \in Nat, NEW d \in Nat, d > 0
  PROVE  /\ x \div d \in Nat
         /\ d * (x \div d) <= x /\ x < d * (x \div d) + d
         /\ x % d = 0 => d * (x \div d) = x
  BY SMTT(30)

(* The points that are not always kept, and the rounds of the loop.        *)
Inner(n) == n - 2
Rounds(t) == t - 2
Floor(n, t, i) == (i * Inner(n)) \div Rounds(t)

(* Whole divisions at the edges of the buckets.                            *)
LEMMA FloorFacts ==
  ASSUME NEW n \in Nat, NEW t \in Nat, 3 <= t, t < n, NEW i \in 0..(t - 2)
  PROVE  /\ Inner(n) \in Nat /\ Rounds(t) \in Nat /\ Rounds(t) > 0
         /\ Inner(n) > Rounds(t)
         /\ i * Inner(n) \in Nat /\ Floor(n, t, i) \in Nat
         /\ Rounds(t) * Floor(n, t, i) <= i * Inner(n)
         /\ i * Inner(n) < Rounds(t) * Floor(n, t, i) + Rounds(t)
         /\ (i * Inner(n)) % Rounds(t) = 0 => Rounds(t) * Floor(n, t, i) = i * Inner(n)
<1>1. /\ Inner(n) \in Nat /\ Rounds(t) \in Nat /\ Rounds(t) > 0
      /\ Inner(n) > Rounds(t)
  BY DEF Inner, Rounds
<1>2. i * Inner(n) \in Nat
  BY <1>1
<1>3. QED
  BY <1>1, <1>2, Quotient DEF Floor

(* The edges but the first and the last.                                   *)
LEMMA EdgeIs ==
  ASSUME NEW n \in Nat, NEW t \in Nat, 3 <= t, t < n,
         NEW low \in SUBSET Roundings(n, t), NEW i \in 0..(t - 2)
  PROVE  /\ i \notin low => Edge(n, t, low, i) = Floor(n, t, i) + 1
         /\ i \in low => /\ Edge(n, t, low, i) = Floor(n, t, i)
                         /\ i >= 2 /\ Inner(n) % Rounds(t) # 0
                         /\ (i * Inner(n)) % Rounds(t) = 0
<1>1. i \in low => /\ i \in 2..(t - 2) /\ (n - 2) % (t - 2) # 0
                   /\ (i * (n - 2)) % (t - 2) = 0
  BY DEF Roundings
<1>2. CASE i = 0
  <2>1. i \notin low
    BY <1>1, <1>2
  <2>2. Edge(n, t, low, i) = 1
    BY <1>2 DEF Edge
  <2>3. Floor(n, t, i) = 0
    <3>1. Rounds(t) * Floor(n, t, i) <= 0 /\ Floor(n, t, i) \in Nat /\ Rounds(t) \in Nat /\ Rounds(t) > 0
      <4>1. i * Inner(n) = 0
        BY <1>2, FloorFacts
      <4>2. QED
        BY <4>1, FloorFacts
    <3>2. QED
      BY <3>1
  <2>4. QED
    BY <2>1, <2>2, <2>3
<1>3. CASE i # 0
  <2>1. i # t - 1
    OBVIOUS
  <2>2. Edge(n, t, low, i) = Floor(n, t, i) + 1 - (IF i \in low THEN 1 ELSE 0)
    BY <1>3, <2>1 DEF Edge, Floor, Inner, Rounds
  <2>3. Floor(n, t, i) \in Nat
    BY FloorFacts
  <2>4. QED
    BY <1>1, <2>2, <2>3 DEF Inner, Rounds
<1>4. QED
  BY <1>2, <1>3

(* The edges ascend: no bucket is empty, and every bucket is in the series.*)
LEMMA EdgeAscends ==
  ASSUME NEW n \in Nat, NEW t \in Nat, 3 <= t, t < n,
         NEW low \in SUBSET Roundings(n, t), NEW i \in 0..(t - 2)
  PROVE  /\ Edge(n, t, low, i) \in 1..(n - 1)
         /\ Edge(n, t, low, i + 1) \in 2..n
         /\ Edge(n, t, low, i) < Edge(n, t, low, i + 1)
<1> DEFINE D == Rounds(t)
           S == Inner(n)
           q == Floor(n, t, i)
           e == Edge(n, t, low, i)
<1>1. /\ S \in Nat /\ D \in Nat /\ D > 0 /\ S > D /\ q \in Nat
      /\ D * q <= i * S /\ i * S < D * q + D
      /\ S = n - 2 /\ D = t - 2 /\ i \in 0..D
  BY FloorFacts DEF Inner, Rounds
<1>2. /\ e \in {q, q + 1} /\ (e = q => i >= 2)
      /\ (i \in low => e = q) /\ (i \notin low => e = q + 1)
  <2>1. /\ i \notin low => e = q + 1
        /\ i \in low => e = q /\ i >= 2
    BY EdgeIs
  <2> HIDE DEF D, S, q, e
  <2>2. QED
    BY <1>1, <2>1
<1>3. q <= S
  <2> HIDE DEF D, S, q, e
  <2>1. i * S <= D * S
    BY <1>1
  <2>2. D * q <= D * S
    BY <1>1, <2>1
  <2>3. QED
    BY <1>1, <2>2
<1>4. i >= 2 => q >= 1
  <2> HIDE DEF D, S, q, e
  <2> SUFFICES ASSUME i >= 2 PROVE q >= 1
    OBVIOUS
  <2>1. i * S >= S
    BY <1>1
  <2>2. q # 0
    <3>1. q = 0 => D * q = 0
      BY <1>1
    <3>2. QED
      BY <1>1, <2>1, <3>1
  <2>3. QED
    BY <1>1, <2>2
<1>5. e \in 1..(n - 1)
  <2> HIDE DEF D, S, q, e
  <2>1. QED
    BY <1>1, <1>2, <1>3, <1>4
<1>6. CASE i = t - 2
  <2>1. Edge(n, t, low, i + 1) = n
    <3>1. i + 1 = t - 1 /\ i + 1 # 0
      BY <1>6
    <3>2. QED
      BY <3>1 DEF Edge
  <2> HIDE DEF D, S, q, e
  <2>2. n \in 2..n
    OBVIOUS
  <2>3. QED
    BY <1>5, <2>1, <2>2 DEF e
<1>7. CASE i # t - 2
  <2> DEFINE p == Floor(n, t, i + 1)
             f == Edge(n, t, low, i + 1)
  <2>0. i + 1 \in 0..(t - 2)
    BY <1>7
  <2>1. /\ p \in Nat /\ D * p <= (i + 1) * S /\ (i + 1) * S < D * p + D
        /\ ((i + 1) * S) % D = 0 => D * p = (i + 1) * S
    BY <2>0, FloorFacts
  <2>2. /\ f \in {p, p + 1}
        /\ (i + 1 \in low => f = p /\ ((i + 1) * S) % D = 0)
        /\ (i + 1 \notin low => f = p + 1)
    BY <2>0, EdgeIs
  <2>3. p <= S
    <3> HIDE DEF D, S, q, e, p, f
    <3>1. (i + 1) * S <= D * S
      BY <1>1, <1>7
    <3>2. D * p <= D * S
      BY <1>1, <2>1, <3>1
    <3>3. QED
      BY <1>1, <2>1, <3>2
  <2>4. (i + 1) * S = i * S + S
    <3> HIDE DEF D, S, q, e, p, f
    <3>1. QED
      BY <1>1
  <2>5. p > q
    <3> HIDE DEF D, S, q, e, p, f
    <3>1. D * q < D * p
      <4> DEFINE u == D * q
                 v == D * p
                 w == i * S
                 x == (i + 1) * S
      <4>1. u \in Nat /\ v \in Nat /\ w \in Nat /\ x \in Nat
        BY <1>1, <2>1
      <4>2. u <= w /\ x < v + D /\ x = w + S
        BY <1>1, <2>1, <2>4
      <4> HIDE DEF u, v, w, x
      <4>3. u < v
        BY <1>1, <4>1, <4>2
      <4>4. QED
        BY <4>3 DEF u, v
    <3>2. QED
      BY <1>1, <2>1, <3>1
  <2>6. f = p => p > q + 1
    <3> SUFFICES ASSUME f = p PROVE p > q + 1
      OBVIOUS
    <3>1. D * p = (i + 1) * S
      BY <2>1, <2>2
    <3> HIDE DEF D, S, q, e, p, f
    <3>2. D * p > D * (q + 1)
      <4> DEFINE u == D * q
                 v == D * p
                 w == i * S
                 x == (i + 1) * S
      <4>1. u \in Nat /\ v \in Nat /\ w \in Nat /\ x \in Nat
        BY <1>1, <2>1
      <4>2. u <= w /\ x = v /\ x = w + S /\ D * (q + 1) = u + D
        BY <1>1, <2>4, <3>1
      <4> HIDE DEF u, v, w, x
      <4>3. v > u + D
        BY <1>1, <4>1, <4>2
      <4>4. QED
        BY <4>2, <4>3 DEF v
    <3>3. QED
      BY <1>1, <2>1, <3>2
  <2>7. f \in 2..n /\ e < f
    <3> HIDE DEF D, S, q, e, p, f
    <3>1. QED
      BY <1>1, <1>2, <1>5, <2>1, <2>2, <2>3, <2>5, <2>6
  <2>8. QED
    BY <1>5, <2>7
<1>8. QED
  BY <1>6, <1>7

(* Two buckets in a row are not longer than two whole sizes and one point. *)
LEMMA EdgeGap ==
  ASSUME NEW n \in Nat, NEW t \in Nat, 3 <= t, t < n,
         NEW low \in SUBSET Roundings(n, t), NEW i \in 0..(t - 3)
  PROVE  (Edge(n, t, low, i + 2) - Edge(n, t, low, i) - 2) * (t - 2)
           <= 2 * (n - 2) + t
<1> DEFINE D == Rounds(t)
           S == Inner(n)
           q == Floor(n, t, i)
           e == Edge(n, t, low, i)
           f == Edge(n, t, low, i + 2)
<1>0. i \in 0..(t - 2)
  OBVIOUS
<1>1. /\ S \in Nat /\ D \in Nat /\ D > 0 /\ S > D /\ q \in Nat
      /\ D * q <= i * S /\ i * S < D * q + D
      /\ S = n - 2 /\ D = t - 2 /\ i \in 0..(D - 1)
  BY <1>0, FloorFacts DEF Inner, Rounds
<1>2. e \in {q, q + 1}
  BY <1>0, EdgeIs
<1>3. CASE i = t - 3
  <2>1. f = n
    <3>1. i + 2 = t - 1 /\ i + 2 # 0
      BY <1>3
    <3>2. QED
      BY <3>1 DEF Edge
  <2> HIDE DEF D, S, q, e, f
  <2>2. i * S = D * S - S
    BY <1>1, <1>3
  <2>3. f - e - 2 <= S - q
    BY <1>1, <1>2, <2>1
  <2>4. (f - e - 2) * D <= (S - q) * D
    BY <1>1, <1>2, <2>1, <2>3
  <2>5. (S - q) * D = D * S - D * q
    BY <1>1
  <2>6. D * S - D * q < S + D
    BY <1>1, <2>2
  <2>7. (f - e - 2) * D <= 2 * S + t
    <3> DEFINE g == (f - e - 2) * D
               u == (S - q) * D
               v == D * S - D * q
    <3>1. g \in Int /\ u \in Int /\ v \in Int /\ g <= u /\ u = v /\ v < S + D
      BY <1>1, <1>2, <2>1, <2>4, <2>5, <2>6
    <3> HIDE DEF g, u, v
    <3>2. g <= 2 * S + t
      BY <1>1, <3>1
    <3>3. QED
      BY <3>2 DEF g
  <2>8. QED
    BY <1>1, <2>7 DEF e, f
<1>4. CASE i # t - 3
  <2> DEFINE p == Floor(n, t, i + 2)
  <2>0. i + 2 \in 0..(t - 2)
    BY <1>4
  <2>1. p \in Nat /\ D * p <= (i + 2) * S
    BY <2>0, FloorFacts
  <2>2. f \in {p, p + 1}
    BY <2>0, EdgeIs
  <2> HIDE DEF D, S, q, e, f, p
  <2>3. (i + 2) * S = i * S + 2 * S
    BY <1>1
  <2>4. D * (p - q - 1) <= 2 * S
    <3> DEFINE u == D * q
               v == D * p
               w == i * S
               x == (i + 2) * S
    <3>1. u \in Nat /\ v \in Nat /\ w \in Nat /\ x \in Nat
      BY <1>1, <2>1
    <3>2. v <= x /\ w < u + D /\ x = w + 2 * S /\ D * (p - q - 1) = v - u - D
      BY <1>1, <2>1, <2>3
    <3> HIDE DEF u, v, w, x
    <3>3. v - u - D <= 2 * S
      BY <1>1, <3>1, <3>2
    <3>4. QED
      BY <3>2, <3>3
  <2>5. f - e - 2 <= p - q - 1
    BY <1>1, <1>2, <2>1, <2>2
  <2>6. (f - e - 2) * D <= D * (p - q - 1)
    BY <1>1, <1>2, <2>1, <2>2, <2>5
  <2>7. (f - e - 2) * D <= 2 * S + t
    <3> DEFINE g == (f - e - 2) * D
               u == D * (p - q - 1)
    <3>1. g \in Int /\ u \in Int /\ g <= u /\ u <= 2 * S
      BY <1>1, <1>2, <2>1, <2>2, <2>4, <2>6
    <3> HIDE DEF g, u
    <3>2. g <= 2 * S + t
      BY <1>1, <3>1
    <3>3. QED
      BY <3>2 DEF g
  <2>8. QED
    BY <1>1, <2>7 DEF e, f
<1>5. QED
  BY <1>3, <1>4

-----------------------------------------------------------------------------
(* The rows of a page and the points of a series.                          *)
Labels == {"OK", "ERROR"}
RowSet == [x : Int, y : Int, attack : Nat, label : Labels]
PointSet == Int \X Int

(* A set as large as another, with which it is matched one to one.         *)
LEMMA Matched ==
  ASSUME NEW S, NEW T, IsFiniteSet(S), NEW f,
         \A x \in S : f[x] \in T,
         \A x, y \in S : f[x] = f[y] => x = y,
         \A z \in T : \E x \in S : f[x] = z
  PROVE  IsFiniteSet(T) /\ Cardinality(T) = Cardinality(S)
<1> DEFINE g == [x \in S |-> f[x]]
<1>1. g \in [S -> T] /\ (\A x, y \in S : g[x] = g[y] => x = y)
      /\ \A z \in T : \E x \in S : g[x] = z
  OBVIOUS
<1> HIDE DEF g
<1>2. g \in Bijection(S, T)
  BY <1>1 DEF Bijection, Injection, Surjection, IsInjective
<1>3. ExistsBijection(S, T)
  BY <1>2 DEF ExistsBijection
<1>4. QED
  BY <1>3, FS_Bijection

(* The elements of one sequence behind another.                            *)
LEMMA Concat ==
  ASSUME NEW R, NEW p \in Seq(R), NEW q \in Seq(R)
  PROVE  /\ p \o q \in Seq(R) /\ Len(p) \in Nat /\ Len(q) \in Nat
         /\ DOMAIN p = 1..Len(p) /\ DOMAIN q = 1..Len(q)
         /\ DOMAIN (p \o q) = 1..(Len(p) + Len(q))
         /\ \A k \in 1..Len(p) : (p \o q)[k] = p[k]
         /\ \A k \in 1..Len(q) : (p \o q)[Len(p) + k] = q[k]
OBVIOUS

(* The rows of the page are sorted by time: o tells which row is where, and *)
(* rows change places only if their times are not yet in order.            *)
LEMMA SortedFacts ==
  ASSUME NEW rows \in Seq(RowSet)
  PROVE  /\ Sorted(rows) \in Seq(RowSet) /\ DOMAIN Sorted(rows) = DOMAIN rows
         /\ \A k \in 1..(Len(Sorted(rows)) - 1) : Sorted(rows)[k].x <= Sorted(rows)[k + 1].x
         /\ \E o \in [DOMAIN rows -> DOMAIN rows] :
              /\ \A i \in DOMAIN rows : Sorted(rows)[i] = rows[o[i]]
              /\ \A k \in DOMAIN rows : \E i \in DOMAIN rows : o[i] = k
              /\ \A i, j \in DOMAIN rows : i < j =>
                   o[i] # o[j] /\ (rows[o[i]].x < rows[o[j]].x \/ o[i] < o[j])
<1> DEFINE n == Len(rows)
           D == 1..n
           key == [k \in D |-> rows[k].x]
           o == Ordered(D, key)
           q == Sorted(rows)
<1>1. /\ n \in Nat /\ DOMAIN rows = D /\ IsFiniteSet(D) /\ Cardinality(D) = n
      /\ D \subseteq Int /\ \A k \in D : rows[k] \in RowSet
  <2>1. n \in Nat /\ DOMAIN rows = D /\ \A k \in D : rows[k] \in RowSet
    OBVIOUS
  <2> HIDE DEF n
  <2>2. IsFiniteSet(D) /\ Cardinality(D) = n
    BY <2>1, FS_Interval
  <2>3. QED
    BY <2>1, <2>2
<1>2. \A k \in D : key[k] = rows[k].x /\ key[k] \in Int
  <2>1. \A k \in D : rows[k].x \in Int
    BY <1>1 DEF RowSet
  <2>2. QED
    BY <2>1
<1>3. q = [i \in DOMAIN o |-> rows[o[i]]]
  BY <1>1 DEF Sorted
<1> HIDE DEF n, key
<1>4. /\ o \in [1..Cardinality(D) -> D]
      /\ \A k \in D : \E i \in 1..Cardinality(D) : o[i] = k
      /\ \A i, j \in 1..Cardinality(D) : i < j =>
           /\ o[i] # o[j] /\ key[o[i]] <= key[o[j]]
           /\ key[o[i]] < key[o[j]] \/ o[i] < o[j]
  <2> HIDE DEF D
  <2>1. IsFiniteSet(D) /\ D \subseteq Int /\ \A k \in D : key[k] \in Int
    BY <1>1, <1>2
  <2>2. QED
    BY <2>1, OrderedFacts
<1> HIDE DEF o
<1>5. /\ o \in [D -> D] /\ DOMAIN o = D
      /\ \A k \in D : \E i \in D : o[i] = k
      /\ \A i, j \in D : i < j => /\ o[i] # o[j] /\ key[o[i]] <= key[o[j]]
                                  /\ key[o[i]] < key[o[j]] \/ o[i] < o[j]
  BY <1>1, <1>4
<1>6. /\ q \in [1..n -> RowSet] /\ DOMAIN q = D
      /\ \A i \in D : o[i] \in D /\ q[i] = rows[o[i]]
  <2> HIDE DEF D, q
  <2>1. \A i \in D : o[i] \in D /\ rows[o[i]] \in RowSet
    BY <1>1, <1>5
  <2>2. DOMAIN q = D /\ q \in [D -> RowSet] /\ \A i \in D : q[i] = rows[o[i]]
    BY <1>3, <1>5, <2>1
  <2>3. QED
    BY <2>1, <2>2 DEF D
<1> HIDE DEF q
<1>7. q \in Seq(RowSet) /\ Len(q) = n
  BY <1>1, <1>6
<1>8. \A k \in 1..(Len(q) - 1) : q[k].x <= q[k + 1].x
  <2> SUFFICES ASSUME NEW k \in 1..(n - 1) PROVE q[k].x <= q[k + 1].x
    BY <1>7
  <2>1. k \in D /\ k + 1 \in D /\ k < k + 1
    BY <1>1
  <2>2. key[o[k]] <= key[o[k + 1]]
    BY <1>5, <2>1
  <2>3. QED
    BY <1>2, <1>6, <2>1, <2>2
<1>9. \A i, j \in D : i < j =>
        o[i] # o[j] /\ (rows[o[i]].x < rows[o[j]].x \/ o[i] < o[j])
  <2> HIDE DEF D
  <2>1. QED
    BY <1>2, <1>5, <1>6
<1>10. \E p \in [D -> D] :
         /\ \A i \in D : q[i] = rows[p[i]]
         /\ \A k \in D : \E i \in D : p[i] = k
         /\ \A i, j \in D : i < j => p[i] # p[j] /\ (rows[p[i]].x < rows[p[j]].x \/ p[i] < p[j])
  <2> HIDE DEF D
  <2>1. QED
    BY <1>5, <1>6, <1>9
<1> HIDE DEF D
<1>11. QED
  BY <1>1, <1>6, <1>7, <1>8, <1>10 DEF q
(* The points kept so far by the loop: the first, then one of each bucket. *)
KeptSound(kept, n, t, low) ==
  /\ kept \in Seq(Nat) /\ Len(kept) \in 1..(t - 1) /\ kept[1] = 0
  /\ \A k \in 2..Len(kept) :
       kept[k] \in Edge(n, t, low, k - 2)..(Edge(n, t, low, k - 1) - 1)

(* They are points of the series.                                          *)
LEMMA KeptFacts ==
  ASSUME NEW n \in Nat, NEW t \in Nat, 3 <= t, t < n,
         NEW low \in SUBSET Roundings(n, t),
         NEW kept, KeptSound(kept, n, t, low)
  PROVE  /\ DOMAIN kept = 1..Len(kept)
         /\ \A k \in 1..Len(kept) : kept[k] \in 0..(n - 1)
<1>1. /\ kept \in Seq(Nat) /\ Len(kept) \in 1..(t - 1) /\ kept[1] = 0
      /\ \A k \in 2..Len(kept) :
           kept[k] \in Edge(n, t, low, k - 2)..(Edge(n, t, low, k - 1) - 1)
  BY DEF KeptSound
<1>2. DOMAIN kept = 1..Len(kept) /\ \A k \in 1..Len(kept) : kept[k] \in Nat
  BY <1>1
<1>3. ASSUME NEW k \in 1..Len(kept) PROVE kept[k] \in 0..(n - 1)
  <2>1. CASE k = 1
    BY <1>1, <2>1
  <2>2. CASE k # 1
    <3>1. k \in 2..Len(kept) /\ k - 2 \in 0..(t - 2) /\ (k - 2) + 1 = k - 1
      BY <1>1, <2>2
    <3>2. Edge(n, t, low, k - 1) \in 2..n
      BY <3>1, EdgeAscends
    <3>3. kept[k] \in Nat /\ kept[k] <= Edge(n, t, low, k - 1) - 1
      BY <1>1, <1>2, <3>1
    <3>4. QED
      BY <3>2, <3>3
  <2>3. QED
    BY <2>1, <2>2
<1>4. QED
  BY <1>2, <1>3

(* A round of the loop keeps a point of the next bucket.                   *)
LEMMA SampleNextFacts ==
  ASSUME NEW s \in Seq(PointSet), NEW t \in Nat, 3 <= t, t < Len(s),
         NEW low \in SUBSET Roundings(Len(s), t),
         NEW kept, KeptSound(kept, Len(s), t, low), Len(kept) < t - 1
  PROVE  KeptSound(Append(kept, SampleNext(s, t, low, kept)), Len(s), t, low)
<1> DEFINE n == Len(s)
           l == Len(kept)
           i == l - 1
           b == Edge(n, t, low, i)
           c == Edge(n, t, low, i + 1)
           d == Edge(n, t, low, (i + 1) + 1)
           p == SampleNext(s, t, low, kept)
<1>1. n \in Nat /\ l \in 1..(t - 2) /\ i \in 0..(t - 3) /\ i + 1 = l
  BY DEF KeptSound
<1>2. /\ b \in 1..(n - 1) /\ c \in 2..n /\ b < c
  <2>1. i \in 0..(t - 2)
    BY <1>1
  <2> HIDE DEF i
  <2>2. QED
    BY <1>1, <2>1, EdgeAscends
<1>3. d \in 2..n /\ c < d
  <2>1. i + 1 \in 0..(t - 2)
    BY <1>1
  <2> HIDE DEF i
  <2>2. QED
    BY <1>1, <2>1, EdgeAscends
<1>4. kept[l] \in 0..(n - 1)
  BY <1>1, KeptFacts
<1>5. p = Sample(s, kept[l], b..(c - 1), c..(d - 1))
  <2>1. Bucket(s, t, low, l - 1) = b..(c - 1)
    BY DEF Bucket
  <2>2. Bucket(s, t, low, l) = c..(d - 1)
    BY <1>1 DEF Bucket
  <2>3. QED
    BY <2>1, <2>2 DEF SampleNext
<1>6. p \in b..(c - 1)
  <2> HIDE DEF n, l, b, c, d, p
  <2>1. /\ s \in Seq(Int \X Int) /\ kept[l] \in 0..(Len(s) - 1)
        /\ b \in Nat /\ c \in Nat /\ d \in Nat /\ b < c /\ c < d /\ d <= Len(s)
    BY <1>1, <1>2, <1>3, <1>4 DEF PointSet, n
  <2>2. Sample(s, kept[l], b..(c - 1), c..(d - 1)) \in b..(c - 1)
    BY <2>1, SampleFacts
  <2>3. QED
    BY <1>5, <2>2
<1>7. p \in Nat
  <2> HIDE DEF n, b, c, p
  <2>1. QED
    BY <1>1, <1>2, <1>6
<1> DEFINE q == Append(kept, p)
<1>8. /\ q \in Seq(Nat) /\ Len(q) = l + 1
      /\ \A k \in 1..l : q[k] = kept[k]
      /\ q[l + 1] = p
  <2> HIDE DEF p
  <2>1. kept \in Seq(Nat)
    BY DEF KeptSound
  <2>2. QED
    BY <1>7, <2>1
<1> HIDE DEF q, p
<1>9. ASSUME NEW k \in 2..Len(q)
      PROVE  q[k] \in Edge(n, t, low, k - 2)..(Edge(n, t, low, k - 1) - 1)
  <2>1. CASE k \in 2..l
    <3>1. q[k] = kept[k]
      BY <1>8, <2>1
    <3>2. QED
      BY <2>1, <3>1 DEF KeptSound
  <2>2. CASE k = l + 1
    <3>1. q[k] = p /\ k - 2 = i /\ k - 1 = i + 1
      BY <1>1, <1>8, <2>2
    <3>2. QED
      BY <1>6, <3>1
  <2>3. QED
    <3> HIDE DEF l
    <3>1. l \in Nat /\ k \in 2..(l + 1)
      BY <1>1, <1>8
    <3>2. k \in 2..l \/ k = l + 1
      BY <3>1
    <3>3. QED
      BY <2>1, <2>2, <3>2
<1>10. Len(q) \in 1..(t - 1) /\ q[1] = 0
  <2>1. kept[1] = 0
    BY DEF KeptSound
  <2> HIDE DEF l
  <2>2. QED
    BY <1>1, <1>8, <2>1
<1>11. KeptSound(q, n, t, low)
  BY <1>8, <1>9, <1>10 DEF KeptSound
<1>12. QED
  BY <1>11 DEF q, p

(* A sequence that grows from each element to the next grows throughout.   *)
LEMMA Growing ==
  ASSUME NEW t \in Nat, NEW f, \A k \in 1..t : f[k] \in Int,
         \A k \in 1..(t - 1) : f[k] < f[k + 1]
  PROVE  \A j, k \in 1..t : j < k => f[j] < f[k]
<1> SUFFICES ASSUME NEW j \in 1..t PROVE \A k \in 1..t : j < k => f[j] < f[k]
  OBVIOUS
<1> DEFINE e == t - j
           S == {d \in 0..e : d > 0 => f[j] < f[j + d]}
<1>1. e \in Nat /\ 0 \in S
  OBVIOUS
<1>2. ASSUME NEW d \in 0..(e - 1), d \in S PROVE d + 1 \in S
  <2>1. d + 1 \in 0..e /\ j + d \in 1..(t - 1) /\ j + d \in 1..t /\ (j + d) + 1 \in 1..t
        /\ j + (d + 1) = (j + d) + 1
    OBVIOUS
  <2>2. f[j + d] < f[(j + d) + 1]
    BY <2>1
  <2>3. /\ f[j + d] \in Int /\ f[(j + d) + 1] \in Int /\ f[j] \in Int
    BY <2>1
  <2>4. CASE d = 0
    BY <2>1, <2>2, <2>4
  <2>5. CASE d > 0
    <3>1. f[j] < f[j + d]
      BY <1>2, <2>5
    <3>2. f[j] < f[(j + d) + 1]
      BY <2>2, <2>3, <3>1
    <3>3. QED
      BY <2>1, <3>2
  <2>6. QED
    BY <2>4, <2>5
<1>3. 0..e \subseteq S
  <2> HIDE DEF S, e
  <2>1. QED
    BY <1>1, <1>2, Ascend
<1>4. ASSUME NEW k \in 1..t, j < k PROVE f[j] < f[k]
  <2>1. k - j \in 0..e /\ k - j > 0 /\ j + (k - j) = k
    BY <1>4
  <2>2. k - j \in S
    BY <1>3, <2>1
  <2>3. QED
    BY <2>1, <2>2
<1>5. QED
  BY <1>4

(* At the end of the loop the last point is kept too: the points kept are  *)
(* one of the samplings allowed.                                           *)
LEMMA KeptSampling ==
  ASSUME NEW s \in Seq(PointSet), NEW t \in Nat, 3 <= t, t < Len(s),
         NEW low \in SUBSET Roundings(Len(s), t),
         NEW kept, KeptSound(kept, Len(s), t, low), Len(kept) = t - 1
  PROVE  LET all == Append(kept, Len(s) - 1)
         IN  /\ all \in Seq(Nat) /\ Len(all) = t
             /\ \A k \in 1..t : all[k] \in 0..(Len(s) - 1)
             /\ \A j, k \in 1..t : j < k => all[j] < all[k]
             /\ {all[k] + 1 : k \in 1..t} \in Samplings(s, t)
<1> DEFINE n == Len(s)
           all == Append(kept, n - 1)
           E(i) == Edge(n, t, low, i)
           K == {all[k] + 1 : k \in 1..t}
<1>0. n \in Nat /\ t < n
  OBVIOUS
<1>1. /\ all \in Seq(Nat) /\ Len(all) = t /\ all[t] = n - 1 /\ all[1] = 0
      /\ \A k \in 1..(t - 1) : all[k] = kept[k]
  <2>1. kept \in Seq(Nat) /\ kept[1] = 0 /\ n - 1 \in Nat
    BY <1>0 DEF KeptSound
  <2> HIDE DEF n
  <2>2. QED
    BY <2>1
<1> HIDE DEF n, all
<1>2. ASSUME NEW k \in 1..t PROVE all[k] \in 0..(n - 1)
  <2>1. CASE k = t
    BY <1>0, <1>1, <2>1
  <2>2. CASE k # t
    <3>1. k \in 1..(t - 1)
      BY <2>2
    <3>2. kept[k] \in 0..(n - 1)
      BY <3>1, KeptFacts DEF n
    <3>3. QED
      BY <1>1, <3>1, <3>2
  <2>3. QED
    BY <2>1, <2>2
<1>3. ASSUME NEW i \in 0..(t - 2)
      PROVE  /\ E(i) \in 1..(n - 1) /\ E(i + 1) \in 2..n /\ E(i) < E(i + 1)
  BY <1>0, EdgeAscends DEF n
<1>4. ASSUME NEW k \in 2..t
      PROVE  all[k] \in Int /\ E(k - 2) \in Int /\ E(k - 1) \in Int
             /\ E(k - 2) <= all[k] /\ all[k] <= E(k - 1) - 1
  <2>0. all[k] \in Int
    BY <1>0, <1>2
  <2>1. k - 2 \in 0..(t - 2) /\ (k - 2) + 1 = k - 1
    OBVIOUS
  <2>2. E(k - 2) \in 1..(n - 1) /\ E(k - 1) \in 2..n
    BY <1>3, <2>1
  <2>3. CASE k = t
    <3>1. E(t - 1) = n
      BY DEF Edge
    <3> HIDE DEF E
    <3>2. QED
      BY <1>0, <1>1, <2>0, <2>2, <2>3, <3>1
  <2>4. CASE k # t
    <3>1. k \in 2..Len(kept) /\ k \in 1..(t - 1)
      BY <2>4
    <3>2. kept[k] \in E(k - 2)..(E(k - 1) - 1)
      BY <3>1 DEF KeptSound, n
    <3> HIDE DEF E
    <3>3. QED
      BY <1>0, <1>1, <2>0, <2>2, <3>1, <3>2
  <2>5. QED
    BY <2>3, <2>4
<1>5. ASSUME NEW k \in 1..(t - 1) PROVE all[k] < all[k + 1]
  <2>1. CASE k = 1
    <3>1. E(0) <= all[2] /\ all[2] \in Int /\ E(0) \in 1..(n - 1)
      BY <1>3, <1>4
    <3> HIDE DEF E
    <3>2. QED
      BY <1>0, <1>1, <2>1, <3>1
  <2>2. CASE k # 1
    <3>1. k \in 2..t /\ k + 1 \in 2..t /\ (k + 1) - 2 = k - 1
      BY <2>2
    <3>2. all[k] <= E(k - 1) - 1 /\ all[k] \in Int /\ E(k - 1) \in Int
      BY <1>4, <3>1
    <3>3. E(k - 1) <= all[k + 1] /\ all[k + 1] \in Int
      BY <1>4, <3>1
    <3> HIDE DEF E
    <3>4. QED
      BY <3>2, <3>3
  <2>3. QED
    BY <2>1, <2>2
<1>6. \A j, k \in 1..t : j < k => all[j] < all[k]
  <2>1. \A k \in 1..t : all[k] \in Int
    BY <1>0, <1>2
  <2>2. QED
    BY <1>5, <2>1, Growing
<1>7. K \in SUBSET (DOMAIN s) /\ DOMAIN s = 1..n
  <2>1. DOMAIN s = 1..n
    BY DEF n
  <2>2. \A k \in 1..t : all[k] + 1 \in 1..n
    BY <1>0, <1>2
  <2>3. QED
    BY <2>1, <2>2
<1>8. Cardinality(K) = t
  <2> DEFINE f == [k \in 1..t |-> all[k] + 1]
  <2>1. IsFiniteSet(1..t) /\ Cardinality(1..t) = t
    BY FS_Interval
  <2>2. \A k \in 1..t : f[k] = all[k] + 1 /\ f[k] \in K
    OBVIOUS
  <2>3. \A j, k \in 1..t : f[j] = f[k] => j = k
    <3> SUFFICES ASSUME NEW j \in 1..t, NEW k \in 1..t, f[j] = f[k], j # k PROVE FALSE
      OBVIOUS
    <3>1. all[j] \in Int /\ all[k] \in Int /\ f[j] = all[j] + 1 /\ f[k] = all[k] + 1
      BY <1>0, <1>2
    <3>2. all[j] + 1 = all[k] + 1
      BY <3>1
    <3>3. all[j] < all[k] \/ all[k] < all[j]
      BY <1>6
    <3> HIDE DEF f
    <3>4. QED
      BY <3>1, <3>2, <3>3
  <2>4. \A z \in K : \E k \in 1..t : f[k] = z
    OBVIOUS
  <2> HIDE DEF f, K
  <2>5. Cardinality(K) = Cardinality(1..t)
    BY <2>1, <2>2, <2>3, <2>4, Matched, ZenonT(60)
  <2>6. QED
    BY <2>1, <2>5
<1>9. {1, n} \subseteq K
  <2>1. 1 \in 1..t /\ t \in 1..t /\ all[1] + 1 = 1 /\ all[t] + 1 = n
    BY <1>0, <1>1
  <2>2. QED
    BY <2>1
<1>10. ASSUME NEW j \in K, NEW k \in K, j < k, \A i \in K : i <= j \/ k <= i
       PROVE  (k - j - 1) * (t - 2) <= 2 * (n - 2) + t
  <2>1. PICK a \in 1..t : j = all[a] + 1
    OBVIOUS
  <2>2. PICK b \in 1..t : k = all[b] + 1
    OBVIOUS
  <2>3. all[a] \in Int /\ all[b] \in Int /\ all[a] < all[b]
    BY <1>0, <1>2, <1>10, <2>1, <2>2, SMTT(60)
  <2>4. a < b
    <3>1. b < a => all[b] < all[a]
      BY <1>6
    <3>2. QED
      BY <2>3, <3>1
  <2>5. b = a + 1
    <3> SUFFICES ASSUME b # a + 1 PROVE FALSE
      OBVIOUS
    <3>1. a + 1 \in 1..t /\ a < a + 1 /\ a + 1 < b
      BY <2>4
    <3>2. all[a + 1] \in Int /\ all[a] < all[a + 1] /\ all[a + 1] < all[b]
      BY <1>0, <1>2, <1>6, <3>1, SMTT(60)
    <3>3. all[a + 1] + 1 \in K
      BY <3>1
    <3> HIDE DEF K
    <3>4. all[a + 1] + 1 <= j \/ k <= all[a + 1] + 1
      BY <1>10, <3>3
    <3>5. QED
      BY <2>1, <2>2, <2>3, <3>2, <3>4
  <2>6. a \in 1..(t - 1) /\ b \in 2..t
    BY <2>4, <2>5
  <2>7. PICK i \in 0..(t - 3) : i = IF a = 1 THEN 0 ELSE a - 2
    BY <2>6
  <2>8. k - j - 1 <= E(i + 2) - E(i) - 2 /\ E(i + 2) \in Int /\ E(i) \in Int
    <3>1. all[b] <= E(b - 1) - 1 /\ E(b - 1) \in Int
      BY <1>4, <2>6
    <3>2. CASE a = 1
      <4>1. b - 1 = 1 /\ i = 0 /\ all[a] = 0 /\ 0 + 1 = 1 /\ 1 + 1 = 2
        BY <1>1, <2>5, <2>7, <3>2
      <4>2. E(0) = 1
        BY DEF Edge
      <4>3. E(1) < E(2) /\ E(2) \in 2..n
        BY <1>3, <4>1
      <4>4. all[b] <= E(1) - 1 /\ E(1) \in Int
        BY <3>1, <4>1
      <4> HIDE DEF E
      <4>5. k - j - 1 <= E(2) - E(0) - 2 /\ E(2) \in Int /\ E(0) \in Int
        BY <1>0, <2>1, <2>2, <2>3, <4>1, <4>2, <4>3, <4>4, SMTT(60)
      <4>6. QED
        BY <4>1, <4>5
    <3>3. CASE a # 1
      <4>1. a \in 2..t /\ i = a - 2 /\ i + 2 = b - 1
        BY <2>5, <2>6, <2>7, <3>3
      <4>2. E(a - 2) <= all[a] /\ E(a - 2) \in Int
        BY <1>4, <4>1
      <4> DEFINE e == E(b - 1)
                 d == E(a - 2)
      <4> HIDE DEF E
      <4>3. k - j - 1 <= e - d - 2
        <5>1. e \in Int /\ d \in Int /\ all[b] <= e - 1 /\ d <= all[a]
          BY <3>1, <4>2
        <5> DEFINE u == all[a]
                   v == all[b]
        <5>2. u \in Int /\ v \in Int /\ j = u + 1 /\ k = v + 1 /\ v <= e - 1 /\ d <= u
          BY <2>1, <2>2, <2>3, <5>1
        <5> HIDE DEF e, d, u, v
        <5>3. QED
          BY <5>1, <5>2
      <4>4. QED
        BY <3>1, <4>1, <4>2, <4>3
    <3>4. QED
      BY <3>2, <3>3
  <2>9. (E(i + 2) - E(i) - 2) * (t - 2) <= 2 * (n - 2) + t
    BY <1>0, EdgeGap DEF n
  <2> HIDE DEF E
  <2> DEFINE g == k - j - 1
             u == E(i + 2) - E(i) - 2
             d == t - 2
             z == 2 * (n - 2) + t
  <2>10. g \in Int /\ u \in Int /\ g <= u /\ d \in Nat /\ u * d <= z /\ z \in Int
    <3>1. k \in Int /\ j \in Int
      BY <2>1, <2>2, <2>3
    <3>2. g \in Int
      BY <3>1
    <3>3. u \in Int /\ g <= u
      BY <2>8
    <3>4. d \in Nat /\ z \in Int
      BY <1>0
    <3>5. u * d <= z
      BY <2>9
    <3>6. QED
      BY <3>2, <3>3, <3>4, <3>5
  <2> HIDE DEF g, u, d, z
  <2>11. g * d <= u * d /\ g * d \in Int /\ u * d \in Int
    BY <2>10
  <2>12. g * d <= z
    BY <2>10, <2>11
  <2>13. QED
    BY <2>12 DEF g, d, z
<1>11. K \in Samplings(s, t)
  <2>1. (IF t = 0 \/ t > n THEN n ELSE t) = t
    BY <1>0
  <2>2. K \in kSubset(t, DOMAIN s)
    BY <1>7, <1>8 DEF kSubset
  <2> HIDE DEF K
  <2>3. QED
    BY <1>9, <1>10, <2>1, <2>2 DEF Samplings, n
<1>12. QED
  BY <1>1, <1>2, <1>6, <1>11 DEF all, n

-----------------------------------------------------------------------------
(* The names of series, and the rows of one of them.                       *)
NameSet == Nat \X Labels
RowOf(n) == {row \in RowSet : row.attack = n[1] /\ row.label = n[2]}
Own(pg, n) == {k \in DOMAIN pg : pg[k].attack = n[1] /\ pg[k].label = n[2]}

(* A page without a row of series n, and one that shows a sampling of its  *)
(* points s: f tells which point a row of the page is.                     *)
Without(pg, n) == Own(pg, n) = {}
Tracks(f, pg, n, s, K) ==
  /\ f \in [Own(pg, n) -> K]
  /\ \A z \in K : \E k \in Own(pg, n) : f[k] = z
  /\ \A j, k \in Own(pg, n) : j < k => f[j] < f[k]
  /\ \A k \in Own(pg, n) : pg[k] = RowsOf(n, s)[f[k]]
ShownOn(pg, n, s, t) == \E K \in Samplings(s, t) : \E f : Tracks(f, pg, n, s, K)

LEMMA RowsFacts ==
  ASSUME NEW n \in NameSet, NEW s \in Seq(PointSet)
  PROVE  /\ Len(s) \in Nat /\ DOMAIN s = 1..Len(s)
         /\ RowsOf(n, s) \in Seq(RowSet) /\ Len(RowsOf(n, s)) = Len(s)
         /\ DOMAIN RowsOf(n, s) = 1..Len(s)
         /\ \A k \in 1..Len(s) : RowsOf(n, s)[k] = [x |-> s[k][1], y |-> s[k][2],
                                                    attack |-> n[1], label |-> n[2]]
         /\ ToSet(RowsOf(n, s)) \subseteq RowOf(n)
<1> DEFINE q == RowsOf(n, s)
<1>1. Len(s) \in Nat /\ DOMAIN s = 1..Len(s) /\ \A k \in 1..Len(s) : s[k] \in PointSet
  OBVIOUS
<1>2. q = [k \in 1..Len(s) |-> [x |-> s[k][1], y |-> s[k][2], attack |-> n[1], label |-> n[2]]]
  BY <1>1 DEF RowsOf
<1>3. \A k \in 1..Len(s) : q[k] = [x |-> s[k][1], y |-> s[k][2], attack |-> n[1], label |-> n[2]]
  BY <1>2
<1>4. DOMAIN q = 1..Len(s)
  BY <1>2
<1> HIDE DEF q
<1>5. ASSUME NEW k \in 1..Len(s) PROVE q[k] \in RowSet /\ q[k] \in RowOf(n)
  <2>1. s[k][1] \in Int /\ s[k][2] \in Int /\ n[1] \in Nat /\ n[2] \in Labels
    BY <1>1 DEF PointSet, NameSet
  <2>2. [x |-> s[k][1], y |-> s[k][2], attack |-> n[1], label |-> n[2]] \in RowSet
    BY <2>1, SMT DEF RowSet
  <2>3. q[k] \in RowSet
    BY <1>3, <2>2
  <2>4. q[k].attack = n[1] /\ q[k].label = n[2]
    <3> DEFINE u == s[k][1]
               v == s[k][2]
               a == n[1]
               b == n[2]
               row == q[k]
    <3>1. row = [x |-> u, y |-> v, attack |-> a, label |-> b]
      BY <1>3
    <3> HIDE DEF u, v, a, b, row
    <3>2. row.attack = a /\ row.label = b
      BY <3>1
    <3>3. QED
      BY <3>2 DEF a, b, row
  <2>5. QED
    BY <2>3, <2>4 DEF RowOf
<1>6. q \in [1..Len(s) -> RowSet]
  BY <1>2, <1>4, <1>5 DEF q
<1>7. q \in Seq(RowSet) /\ Len(q) = Len(s)
  BY <1>1, <1>4, <1>6
<1>8. ToSet(q) \subseteq RowOf(n)
  BY <1>4, <1>5 DEF ToSet
<1>9. QED
  BY <1>1, <1>3, <1>4, <1>7, <1>8 DEF q

(* Rows come to the end of a page: those of the series that it has none of  *)
(* are its own, and those of another series are not.                       *)
LEMMA Joined ==
  ASSUME NEW n, NEW pg \in Seq(RowSet), NEW q \in Seq(RowSet)
  PROVE  /\ Without(pg, n) /\ ToSet(q) \subseteq RowOf(n) =>
              Own(pg \o q, n) = (Len(pg) + 1)..(Len(pg) + Len(q))
         /\ ToSet(q) \cap RowOf(n) = {} => Own(pg \o q, n) = Own(pg, n)
<1> DEFINE l == Len(pg)
           c == Len(q)
           p == pg \o q
<1>1. /\ l \in Nat /\ c \in Nat /\ DOMAIN p = 1..(l + c)
      /\ DOMAIN pg = 1..l /\ DOMAIN q = 1..c
      /\ \A k \in 1..l : p[k] = pg[k]
      /\ \A k \in 1..c : p[l + k] = q[k]
  BY Concat
<1>2. \A k \in 1..c : q[k] \in RowSet /\ q[k] \in ToSet(q)
  BY <1>1 DEF ToSet
<1> DEFINE of(row) == row.attack = n[1] /\ row.label = n[2]
<1> HIDE DEF l, c, p
<1>3. ASSUME NEW k \in 1..(l + c), k \notin 1..l PROVE \E j \in 1..c : k = l + j
  <2>1. k - l \in 1..c /\ k = l + (k - l)
    BY <1>1, <1>3
  <2>2. QED
    BY <2>1
<1>4. \A k \in 1..l : k \in 1..(l + c) /\ k \notin (l + 1)..(l + c)
  BY <1>1
<1>5. \A j \in 1..c : l + j \in 1..(l + c) /\ l + j \in (l + 1)..(l + c) /\ l + j \notin 1..l
  BY <1>1
<1>6. (l + 1)..(l + c) \subseteq 1..(l + c)
  BY <1>1
<1>7. Own(p, n) = {k \in 1..(l + c) : of(p[k])} /\ Own(pg, n) = {k \in 1..l : of(pg[k])}
  BY <1>1 DEF Own
<1>8. \A row \in RowSet : row \in RowOf(n) <=> of(row)
  BY DEF RowOf
<1> HIDE DEF of
<1>9. ASSUME Without(pg, n), ToSet(q) \subseteq RowOf(n) PROVE Own(p, n) = (l + 1)..(l + c)
  <2>1. ASSUME NEW k \in Own(p, n) PROVE k \in (l + 1)..(l + c)
    <3>1. k \notin 1..l
      BY <1>1, <1>7, <1>9, <2>1 DEF Without
    <3>2. QED
      BY <1>3, <1>5, <1>7, <2>1, <3>1
  <2>2. ASSUME NEW k \in (l + 1)..(l + c) PROVE k \in Own(p, n)
    <3>1. k \in 1..(l + c) /\ k \notin 1..l
      BY <1>4, <1>6
    <3>2. PICK j \in 1..c : k = l + j
      BY <1>3, <3>1
    <3>3. of(p[k])
      BY <1>1, <1>2, <1>8, <1>9, <3>2
    <3>4. QED
      BY <1>7, <3>1, <3>3
  <2>3. QED
    BY <2>1, <2>2
<1>10. ASSUME ToSet(q) \cap RowOf(n) = {} PROVE Own(p, n) = Own(pg, n)
  <2>1. ASSUME NEW k \in Own(p, n) PROVE k \in Own(pg, n)
    <3>1. k \in 1..(l + c) /\ of(p[k])
      BY <1>7
    <3>2. ASSUME k \notin 1..l PROVE FALSE
      <4>1. PICK j \in 1..c : k = l + j
        BY <1>3, <3>1, <3>2
      <4>2. of(q[j]) /\ q[j] \in RowSet /\ q[j] \in ToSet(q)
        BY <1>1, <1>2, <3>1, <4>1
      <4>3. QED
        BY <1>8, <1>10, <4>2
    <3>3. QED
      BY <1>1, <1>7, <3>1, <3>2
  <2>2. ASSUME NEW k \in Own(pg, n) PROVE k \in Own(p, n)
    BY <1>1, <1>4, <1>7
  <2>3. QED
    BY <2>1, <2>2
<1>11. QED
  BY <1>9, <1>10 DEF p, l, c

(* Rows q are those of the points in K, in their order: g tells which point *)
(* each of them is.                                                        *)
Lists(g, q, n, s, K) ==
  /\ \A k \in 1..Len(q) : g[k] \in K /\ q[k] = RowsOf(n, s)[g[k]]
  /\ \A z \in K : \E k \in 1..Len(q) : g[k] = z
  /\ \A j, k \in 1..Len(q) : j < k => g[j] < g[k]

(* The rows of a sampling come to a page that has none of its series.      *)
LEMMA Drawn ==
  ASSUME NEW n, NEW s, NEW t, NEW K \in Samplings(s, t), NEW g,
         NEW pg \in Seq(RowSet), NEW q \in Seq(RowSet),
         Without(pg, n), ToSet(q) \subseteq RowOf(n), Lists(g, q, n, s, K)
  PROVE  ShownOn(pg \o q, n, s, t)
<1> DEFINE l == Len(pg)
           c == Len(q)
           p == pg \o q
           O == (l + 1)..(l + c)
           w == RowsOf(n, s)
           f == [k \in O |-> g[k - l]]
<1>1. l \in Nat /\ c \in Nat /\ \A k \in 1..c : p[l + k] = q[k]
  BY Concat
<1>2. Own(p, n) = O
  BY Joined
<1>3. /\ \A k \in 1..c : g[k] \in K /\ q[k] = w[g[k]]
      /\ \A z \in K : \E k \in 1..c : g[k] = z
      /\ \A j, k \in 1..c : j < k => g[j] < g[k]
  BY DEF Lists
<1>4. \A k \in O : f[k] = g[k - l]
  OBVIOUS
<1> HIDE DEF l, c, p, w
<1>5. /\ \A k \in O : k - l \in 1..c /\ l + (k - l) = k
      /\ \A k \in 1..c : l + k \in O /\ (l + k) - l = k
      /\ \A j, k \in O : j < k => j - l < k - l
  BY <1>1
<1>6. f \in [O -> K]
  BY <1>3, <1>5
<1> HIDE DEF O, f
<1>7. \A z \in K : \E k \in O : f[k] = z
  <2> SUFFICES ASSUME NEW z \in K PROVE \E k \in O : f[k] = z
    OBVIOUS
  <2>1. PICK k \in 1..c : g[k] = z
    BY <1>3
  <2>2. l + k \in O /\ f[l + k] = z
    BY <1>4, <1>5, <2>1
  <2>3. QED
    BY <2>2
<1>8. \A j, k \in O : j < k => f[j] < f[k]
  BY <1>3, <1>4, <1>5
<1>9. \A k \in O : p[k] = w[f[k]]
  <2> SUFFICES ASSUME NEW k \in O PROVE p[k] = w[f[k]]
    OBVIOUS
  <2>1. k - l \in 1..c /\ l + (k - l) = k
    BY <1>5
  <2>2. p[l + (k - l)] = q[k - l] /\ q[k - l] = w[g[k - l]]
    BY <1>1, <1>3, <2>1
  <2>3. QED
    BY <1>4, <2>1, <2>2
<1>10. Tracks(f, p, n, s, K)
  BY <1>2, <1>6, <1>7, <1>8, <1>9 DEF Tracks, w
<1>11. QED
  BY <1>10 DEF ShownOn, p

(* The rows of a series come to a page that has none of it.                *)
LEMMA DrawnShort ==
  ASSUME NEW n \in NameSet, NEW s \in Seq(PointSet), NEW t \in Int, Short(Len(s), t),
         NEW pg \in Seq(RowSet), Without(pg, n)
  PROVE  ShownOn(pg \o RowsOf(n, s), n, s, t)
<1> DEFINE q == RowsOf(n, s)
           l == Len(s)
           K == 1..l
<1>1. /\ l \in Nat /\ DOMAIN s = 1..l /\ q \in Seq(RowSet) /\ DOMAIN q = 1..l
  BY RowsFacts
<1> HIDE DEF q, l
<1>2. (IF t = 0 \/ t > l THEN l ELSE t) = l
  <2>1. t >= l \/ t = 0
    BY DEF Short, l
  <2>2. ~(t = 0 \/ t > l) => t = l
    BY <1>1, <2>1
  <2>3. QED
    BY <2>2
<1>3. K \in kSubset(l, DOMAIN s)
  <2>1. Cardinality(1..l) = l
    BY <1>1, FS_Interval
  <2>2. QED
    BY <1>1, <2>1 DEF kSubset
<1>4. s # <<>> => {1, l} \subseteq K
  <2>1. s # <<>> => l # 0
    BY DEF l
  <2>2. QED
    BY <1>1, <2>1
<1>5. ASSUME NEW j \in K, NEW k \in K, j < k, \A i \in K : i <= j \/ k <= i
      PROVE  (k - j - 1) * (t - 2) <= 2 * (l - 2) + t
  <2>1. k = j + 1
    <3> SUFFICES ASSUME k # j + 1 PROVE FALSE
      OBVIOUS
    <3>1. j + 1 \in K /\ j < j + 1 /\ j + 1 < k
      BY <1>1, <1>5
    <3>2. j + 1 <= j \/ k <= j + 1
      BY <1>5, <3>1
    <3>3. QED
      BY <3>1, <3>2
  <2>2. k - j - 1 = 0 /\ l >= 2
    BY <1>1, <2>1
  <2>3. t >= 0
    BY <1>1 DEF Short, l
  <2>4. (k - j - 1) * (t - 2) = 0
    BY <2>2
  <2>5. QED
    BY <1>1, <2>2, <2>3, <2>4
<1>6. K \in Samplings(s, t)
  <2> HIDE DEF K
  <2>1. QED
    BY <1>2, <1>3, <1>4, <1>5 DEF Samplings, l
<1>7. ShownOn(pg \o q, n, s, t)
  <2> DEFINE g == [k \in K |-> k]
  <2>1. Len(q) = l /\ ToSet(q) \subseteq RowOf(n)
    BY RowsFacts DEF q, l
  <2>2. \A k \in 1..l : g[k] = k
    OBVIOUS
  <2> HIDE DEF g, K
  <2>3. \A k \in 1..l : g[k] \in K /\ q[k] = RowsOf(n, s)[g[k]]
    BY <2>2 DEF K, q
  <2>4. \A z \in K : \E k \in 1..l : g[k] = z
    BY <2>2 DEF K
  <2>5. \A j, k \in 1..l : j < k => g[j] < g[k]
    BY <2>2
  <2>6. Lists(g, q, n, s, K)
    BY <2>1, <2>3, <2>4, <2>5 DEF Lists
  <2>7. QED
    BY <1>1, <1>6, <2>1, <2>6, Drawn
<1>8. QED
  BY <1>7 DEF q

(* So do the rows of the points sampled from it.                           *)
LEMMA DrawnSampled ==
  ASSUME NEW n \in NameSet, NEW s \in Seq(PointSet), NEW t \in Nat, 3 <= t, t < Len(s),
         NEW low \in SUBSET Roundings(Len(s), t),
         NEW kept, KeptSound(kept, Len(s), t, low), Len(kept) = t - 1,
         NEW pg \in Seq(RowSet), Without(pg, n)
  PROVE  LET all == Append(kept, Len(s) - 1)
             q == RowsOf(n, [k \in DOMAIN all |-> s[all[k] + 1]])
         IN  q \in Seq(RowSet) /\ ToSet(q) \subseteq RowOf(n) /\ ShownOn(pg \o q, n, s, t)
<1> DEFINE all == Append(kept, Len(s) - 1)
           ps == [k \in DOMAIN all |-> s[all[k] + 1]]
           q == RowsOf(n, ps)
           w == RowsOf(n, s)
           K == {all[k] + 1 : k \in 1..t}
<1>1. /\ all \in Seq(Nat) /\ Len(all) = t
      /\ \A k \in 1..t : all[k] \in 0..(Len(s) - 1)
      /\ \A j, k \in 1..t : j < k => all[j] < all[k]
      /\ K \in Samplings(s, t)
  BY KeptSampling, ZenonT(60)
<1> HIDE DEF all
<1>2. DOMAIN all = 1..t
  BY <1>1
<1>3. ASSUME NEW k \in 1..t
      PROVE  all[k] + 1 \in 1..Len(s) /\ s[all[k] + 1] \in PointSet /\ ps[k] = s[all[k] + 1]
  <2>1. all[k] + 1 \in 1..Len(s)
    BY <1>1
  <2>2. QED
    BY <1>2, <2>1
<1>4. ps \in [1..t -> PointSet]
  BY <1>2, <1>3
<1> HIDE DEF ps
<1>5. ps \in Seq(PointSet) /\ Len(ps) = t
  BY <1>4
<1>6. /\ q \in Seq(RowSet) /\ DOMAIN q = 1..t /\ ToSet(q) \subseteq RowOf(n)
      /\ \A k \in 1..t : q[k] = [x |-> ps[k][1], y |-> ps[k][2],
                                 attack |-> n[1], label |-> n[2]]
  BY <1>5, RowsFacts
<1>7. \A k \in 1..Len(s) : w[k] = [x |-> s[k][1], y |-> s[k][2],
                                   attack |-> n[1], label |-> n[2]]
  BY RowsFacts
<1> HIDE DEF q, w
<1>8. \A k \in 1..t : q[k] = w[all[k] + 1]
  BY <1>3, <1>6, <1>7, ZenonT(60)
<1>9. ShownOn(pg \o q, n, s, t)
  <2> DEFINE g == [k \in 1..t |-> all[k] + 1]
  <2>1. \A k \in 1..t : g[k] = all[k] + 1
    OBVIOUS
  <2>2. \A k \in 1..t : all[k] + 1 \in K
    OBVIOUS
  <2>3. \A z \in K : \E k \in 1..t : all[k] + 1 = z
    OBVIOUS
  <2>4. Len(q) = t
    BY <1>6
  <2> HIDE DEF g, K
  <2>5. \A k \in 1..t : g[k] \in K /\ q[k] = w[g[k]]
    BY <1>8, <2>1, <2>2
  <2>6. \A z \in K : \E k \in 1..t : g[k] = z
    BY <2>1, <2>3
  <2>7. \A j, k \in 1..t : j < k => g[j] < g[k]
    <3> SUFFICES ASSUME NEW j \in 1..t, NEW k \in 1..t, j < k PROVE g[j] < g[k]
      OBVIOUS
    <3>1. all[j] < all[k] /\ all[j] \in Int /\ all[k] \in Int
      BY <1>1, SMTT(60)
    <3>2. QED
      BY <2>1, <3>1
  <2>8. K \in Samplings(s, t) /\ q \in Seq(RowSet) /\ ToSet(q) \subseteq RowOf(n)
    BY <1>1, <1>6, Zenon DEF K
  <2>9. Lists(g, q, n, s, K)
    BY <2>4, <2>5, <2>6, <2>7 DEF w, Lists
  <2>10. QED
    BY <2>8, <2>9, Drawn
<1>10. QED
  BY <1>6, <1>9 DEF q, ps, all

(* Rows of another series change nothing about what a page shows of n.     *)
LEMMA OthersKept ==
  ASSUME NEW n \in NameSet, NEW o \in NameSet, n # o,
         NEW pg \in Seq(RowSet), NEW q \in Seq(RowSet), ToSet(q) \subseteq RowOf(o)
  PROVE  /\ Without(pg, n) => Without(pg \o q, n)
         /\ \A s, t : ShownOn(pg, n, s, t) => ShownOn(pg \o q, n, s, t)
<1>1. ToSet(q) \cap RowOf(n) = {}
  <2>1. n[1] # o[1] \/ n[2] # o[2]
    BY DEF NameSet
  <2>2. QED
    BY <2>1 DEF RowOf
<1>2. Own(pg \o q, n) = Own(pg, n)
  BY <1>1, Joined
<1>3. \A k \in Own(pg, n) : (pg \o q)[k] = pg[k]
  BY Concat DEF Own
<1>4. ASSUME NEW f, NEW s, NEW K, Tracks(f, pg, n, s, K) PROVE Tracks(f, pg \o q, n, s, K)
  BY <1>2, <1>3, <1>4 DEF Tracks
<1>5. QED
  BY <1>2, <1>4 DEF Without, ShownOn

(* The page is sorted: points that ascend stay in their order, also where  *)
(* several have the same time.                                             *)
LEMMA SortedShown ==
  ASSUME NEW n \in NameSet, NEW s \in Seq(PointSet), NEW t,
         \A i, j \in 1..Len(s) : i < j => s[i][1] <= s[j][1],
         NEW pg \in Seq(RowSet), ShownOn(pg, n, s, t)
  PROVE  ShownOn(Sorted(pg), n, s, t)
<1> DEFINE w == RowsOf(n, s)
           p == Sorted(pg)
           D == DOMAIN pg
           O == Own(pg, n)
           P == Own(p, n)
<1>0. PICK K \in Samplings(s, t) : \E f : Tracks(f, pg, n, s, K)
  BY DEF ShownOn
<1>1. PICK f : Tracks(f, pg, n, s, K)
  BY <1>0
<1>2. K \subseteq 1..Len(s)
  BY DEF Samplings, kSubset
<1>3. /\ f \in [O -> K]
      /\ \A z \in K : \E k \in O : f[k] = z
      /\ \A j, k \in O : j < k => f[j] < f[k]
      /\ \A k \in O : pg[k] = w[f[k]]
  BY <1>1 DEF Tracks
<1>4. D = 1..Len(pg) /\ DOMAIN p = D
  BY SortedFacts
<1>5. PICK o \in [D -> D] :
        /\ \A i \in D : p[i] = pg[o[i]]
        /\ \A k \in D : \E i \in D : o[i] = k
        /\ \A i, j \in D : i < j =>
             o[i] # o[j] /\ (pg[o[i]].x < pg[o[j]].x \/ o[i] < o[j])
  BY SortedFacts
<1>6. \A k \in 1..Len(s) : w[k].x = s[k][1] /\ s[k][1] \in Int
  <2> SUFFICES ASSUME NEW k \in 1..Len(s) PROVE w[k].x = s[k][1] /\ s[k][1] \in Int
    OBVIOUS
  <2> DEFINE u == s[k][1]
             v == s[k][2]
             a == n[1]
             b == n[2]
             row == w[k]
  <2>1. row = [x |-> u, y |-> v, attack |-> a, label |-> b]
    BY RowsFacts
  <2>2. s[k] \in PointSet
    OBVIOUS
  <2>3. u \in Int
    BY <2>2 DEF PointSet
  <2> HIDE DEF u, v, a, b, row
  <2>4. row.x = u
    BY <2>1
  <2>5. QED
    BY <2>3, <2>4 DEF row, u
<1>7. P = {i \in D : o[i] \in O} /\ O \subseteq D /\ D \subseteq Int
  <2>1. P = {i \in D : p[i].attack = n[1] /\ p[i].label = n[2]}
    BY <1>4 DEF Own
  <2>2. \A i \in D : o[i] \in O <=> p[i].attack = n[1] /\ p[i].label = n[2]
    BY <1>5 DEF Own
  <2>3. O \subseteq D /\ D \subseteq Int
    BY <1>4 DEF Own
  <2> HIDE DEF P, O, D, p
  <2>4. QED
    BY <2>1, <2>2, <2>3
<1> DEFINE g == [i \in P |-> f[o[i]]]
<1>8. \A i \in P : g[i] = f[o[i]]
  OBVIOUS
<1> HIDE DEF w, p, D, O
<1>9. g \in [P -> K]
  <2> HIDE DEF P
  <2>1. \A i \in P : f[o[i]] \in K
    BY <1>3, <1>7
  <2>2. QED
    BY <2>1
<1> HIDE DEF P, g
<1>10. \A z \in K : \E i \in P : g[i] = z
  <2> SUFFICES ASSUME NEW z \in K PROVE \E i \in P : g[i] = z
    OBVIOUS
  <2>1. PICK k \in O : f[k] = z
    BY <1>3
  <2>2. PICK i \in D : o[i] = k
    BY <1>5, <1>7, <2>1
  <2>3. QED
    BY <1>7, <1>8, <2>1, <2>2
<1>11. ASSUME NEW i \in P, NEW j \in P, i < j PROVE g[i] < g[j]
  <2>1. i \in D /\ j \in D /\ o[i] \in O /\ o[j] \in O /\ o[i] \in Int /\ o[j] \in Int
    BY <1>7
  <2>2. o[i] # o[j] /\ (pg[o[i]].x < pg[o[j]].x \/ o[i] < o[j])
    BY <1>5, <1>11, <2>1
  <2>3. CASE o[i] < o[j]
    BY <1>3, <1>8, <2>1, <2>3
  <2>4. CASE o[j] < o[i]
    <3> DEFINE x == f[o[j]]
               y == f[o[i]]
    <3>1. x < y /\ x \in 1..Len(s) /\ y \in 1..Len(s)
      BY <1>2, <1>3, <2>1, <2>4
    <3>2. pg[o[j]] = w[x] /\ pg[o[i]] = w[y]
      BY <1>3, <2>1
    <3> HIDE DEF x, y
    <3>3. s[x][1] <= s[y][1] /\ w[x].x = s[x][1] /\ w[y].x = s[y][1]
          /\ s[x][1] \in Int /\ s[y][1] \in Int
      BY <1>6, <3>1
    <3>4. pg[o[i]].x < pg[o[j]].x
      BY <2>1, <2>2, <2>4
    <3>5. s[y][1] < s[x][1]
      BY <3>2, <3>3, <3>4
    <3>6. FALSE
      BY <3>3, <3>5
    <3>7. QED
      BY <3>6
  <2>5. QED
    BY <2>1, <2>2, <2>3, <2>4
<1>12. ASSUME NEW i \in P PROVE p[i] = w[g[i]]
  <2>1. i \in D /\ o[i] \in O /\ g[i] = f[o[i]]
    BY <1>7, <1>8
  <2>2. p[i] = pg[o[i]]
    BY <1>5, <2>1
  <2>3. pg[o[i]] = w[f[o[i]]]
    BY <1>3, <2>1
  <2>4. QED
    BY <2>1, <2>2, <2>3
<1>13. Tracks(g, p, n, s, K)
  BY <1>9, <1>10, <1>11, <1>12 DEF Tracks, P, w
<1>14. QED
  BY <1>13 DEF ShownOn, p

(* Function a lists the elements of K, a set of c integers, from the lowest *)
(* up; there is one that does.                                             *)
InOrder(a, c, K) ==
  /\ a \in [1..c -> K]
  /\ \A z \in K : \E i \in 1..c : a[i] = z
  /\ \A i, j \in 1..c : i < j => a[i] < a[j]

LEMMA NotBelow ==
  ASSUME NEW c \in Nat, NEW K \in SUBSET Int, NEW a, NEW b,
         InOrder(a, c, K), InOrder(b, c, K),
         NEW i \in 1..c, \A j \in 1..c : j < i => a[j] = b[j]
  PROVE  ~(a[i] < b[i])
<1> SUFFICES ASSUME a[i] < b[i] PROVE FALSE
  OBVIOUS
<1>1. \A j \in 1..c : a[j] \in Int /\ b[j] \in Int
  BY DEF InOrder
<1>2. PICK k \in 1..c : b[k] = a[i]
  BY DEF InOrder
<1>3. CASE k < i
  <2>1. b[k] = a[k] /\ a[k] < a[i]
    BY <1>3 DEF InOrder
  <2>2. QED
    BY <1>1, <1>2, <2>1
<1>4. CASE k = i
  BY <1>1, <1>2, <1>4
<1>5. CASE i < k
  <2>1. b[i] < b[k]
    BY <1>5 DEF InOrder
  <2>2. QED
    BY <1>1, <1>2, <2>1
<1>6. QED
  BY <1>3, <1>4, <1>5

LEMMA SameList ==
  ASSUME NEW c \in Nat, NEW K \in SUBSET Int, NEW a, NEW b,
         InOrder(a, c, K), InOrder(b, c, K)
  PROVE  \A i \in 1..c : a[i] = b[i]
<1> DEFINE S == {i \in 1..c : a[i] # b[i]}
<1> SUFFICES ASSUME S # {} PROVE FALSE
  OBVIOUS
<1>1. S \in SUBSET Nat
  OBVIOUS
<1>2. PICK i \in S : \A j \in S : i <= j
  <2> HIDE DEF S
  <2>1. QED
    BY <1>1, LeastNatural
<1>3. i \in 1..c /\ a[i] # b[i] /\ \A j \in 1..c : j < i => a[j] = b[j]
  BY <1>2
<1>4. a[i] \in Int /\ b[i] \in Int
  BY <1>3 DEF InOrder
<1> HIDE DEF S
<1>5. ~(a[i] < b[i]) /\ ~(b[i] < a[i])
  BY <1>3, NotBelow
<1>6. QED
  BY <1>3, <1>4, <1>5

(* The order of a finite set of integers.                                  *)
LEMMA PlaceFacts ==
  ASSUME NEW K, IsFiniteSet(K), K \subseteq Int
  PROVE  LET v == Ordered(K, [k \in K |-> k])
         IN Cardinality(K) \in Nat /\ InOrder(v, Cardinality(K), K)
            /\ DOMAIN v = 1..Cardinality(K)
<1> DEFINE key == [k \in K |-> k]
           v == Ordered(K, key)
           c == Cardinality(K)
<1>1. \A k \in K : key[k] = k /\ key[k] \in Int
  OBVIOUS
<1> HIDE DEF key
<1>2. /\ c \in Nat /\ v \in [1..c -> K]
      /\ \A k \in K : \E i \in 1..c : v[i] = k
      /\ \A i, j \in 1..c : i < j => key[v[i]] < key[v[j]] \/ v[i] < v[j]
  <2>1. \A k \in K : key[k] \in Int
    BY <1>1
  <2>2. /\ Cardinality(K) \in Nat
        /\ Ordered(K, key) \in [1..Cardinality(K) -> K]
        /\ \A k \in K : \E i \in 1..Cardinality(K) : Ordered(K, key)[i] = k
        /\ \A i, j \in 1..Cardinality(K) : i < j =>
             /\ Ordered(K, key)[i] # Ordered(K, key)[j]
             /\ key[Ordered(K, key)[i]] <= key[Ordered(K, key)[j]]
             /\ \/ key[Ordered(K, key)[i]] < key[Ordered(K, key)[j]]
                \/ Ordered(K, key)[i] < Ordered(K, key)[j]
    BY <2>1, OrderedFacts
  <2>3. QED
    BY <2>2
<1> HIDE DEF v, c
<1>3. \A i, j \in 1..c : i < j => v[i] < v[j]
  BY <1>1, <1>2
<1>4. InOrder(v, c, K) /\ DOMAIN v = 1..c
  BY <1>2, <1>3 DEF InOrder
<1>5. QED
  BY <1>2, <1>4 DEF v, c, key

(* What a page shows is what Shown says of it.                             *)
LEMMA ShownIs ==
  ASSUME NEW n, NEW s, NEW t, NEW pg \in Seq(RowSet), ShownOn(pg, n, s, t),
         DOMAIN s \subseteq Int
  PROVE  \E K \in Samplings(s, t) : At(pg, Own(pg, n)) = At(RowsOf(n, s), K)
<1> DEFINE w == RowsOf(n, s)
           O == Own(pg, n)
           u == Ordered(O, [k \in O |-> k])
<1>0. PICK K \in Samplings(s, t) : \E f : Tracks(f, pg, n, s, K)
  BY DEF ShownOn
<1>1. PICK f : Tracks(f, pg, n, s, K)
  BY <1>0
<1>2. K \subseteq Int
  BY DEF Samplings, kSubset
<1>3. IsFiniteSet(O) /\ O \subseteq Int
  <2>1. O \in SUBSET (1..Len(pg)) /\ Len(pg) \in Nat
    BY DEF Own
  <2> HIDE DEF O
  <2>2. IsFiniteSet(1..Len(pg))
    BY <2>1, FS_Interval
  <2>3. IsFiniteSet(O)
    BY <2>1, <2>2, FS_Subset
  <2>4. QED
    BY <2>1, <2>3
<1>4. /\ f \in [O -> K]
      /\ \A z \in K : \E k \in O : f[k] = z
      /\ \A j, k \in O : j < k => f[j] < f[k]
      /\ \A k \in O : pg[k] = w[f[k]]
  BY <1>1 DEF Tracks
<1> HIDE DEF O, w
<1> DEFINE v == Ordered(K, [k \in K |-> k])
           c == Cardinality(O)
<1>5. IsFiniteSet(K) /\ Cardinality(K) = c
  <2>1. \A x \in O : f[x] \in K
    BY <1>4
  <2>2. \A x, y \in O : f[x] = f[y] => x = y
    <3> SUFFICES ASSUME NEW x \in O, NEW y \in O, f[x] = f[y], x # y PROVE FALSE
      OBVIOUS
    <3>1. f[x] \in Int /\ f[y] \in Int /\ x \in Int /\ y \in Int
      BY <1>2, <1>3, <2>1
    <3>2. x < y \/ y < x
      BY <3>1
    <3>3. f[x] < f[y] \/ f[y] < f[x]
      BY <1>4, <3>2
    <3>4. QED
      BY <3>1, <3>3
  <2>3. QED
    BY <1>3, <1>4, <2>1, <2>2, Matched
<1>6. c \in Nat /\ InOrder(u, c, O) /\ DOMAIN u = 1..c
  BY <1>3, PlaceFacts
<1>7. InOrder(v, c, K) /\ DOMAIN v = 1..c
  BY <1>2, <1>5, PlaceFacts
<1> DEFINE a == [i \in 1..c |-> f[u[i]]]
<1> HIDE DEF u, v, c
<1>8. InOrder(a, c, K)
  <2>1. \A i \in 1..c : a[i] = f[u[i]] /\ u[i] \in O
    BY <1>6 DEF InOrder
  <2>2. a \in [1..c -> K]
    BY <1>4, <2>1
  <2> HIDE DEF a
  <2>3. \A z \in K : \E i \in 1..c : a[i] = z
    <3> SUFFICES ASSUME NEW z \in K PROVE \E i \in 1..c : a[i] = z
      OBVIOUS
    <3>1. PICK k \in O : f[k] = z
      BY <1>4
    <3>2. PICK i \in 1..c : u[i] = k
      BY <1>6 DEF InOrder
    <3>3. QED
      BY <2>1, <3>1, <3>2
  <2>4. \A i, j \in 1..c : i < j => a[i] < a[j]
    <3>1. \A i, j \in 1..c : i < j => u[i] < u[j]
      BY <1>6 DEF InOrder
    <3>2. QED
      BY <1>4, <2>1, <3>1
  <2>5. QED
    BY <2>2, <2>3, <2>4 DEF InOrder
<1>9. \A i \in 1..c : f[u[i]] = v[i] /\ u[i] \in O
  <2>1. \A i \in 1..c : a[i] = v[i]
    <3> HIDE DEF a
    <3>1. K \in SUBSET Int
      BY <1>2
    <3>2. QED
      BY <1>6, <1>7, <1>8, <3>1, SameList
  <2>2. QED
    BY <1>6, <2>1 DEF InOrder
<1>10. At(pg, O) = [i \in 1..c |-> pg[u[i]]]
  BY <1>6 DEF At, u
<1>11. At(w, K) = [i \in 1..c |-> w[v[i]]]
  BY <1>7 DEF At, v
<1>12. \A i \in 1..c : pg[u[i]] = w[v[i]]
  BY <1>4, <1>9
<1>13. At(pg, O) = At(w, K)
  BY <1>10, <1>11, <1>12
<1>14. QED
  BY <1>13 DEF O, w

(* What is read are results.                                               *)
LEMMA AddedFacts ==
  ASSUME ReadType
  PROVE  /\ Len(added) \in Nat /\ DOMAIN added = 1..Len(added)
         /\ \A k \in DOMAIN added : added[k].res \in ResultSet
<1> DEFINE R0 == [file : DOMAIN files, n : Nat, res : ResultSet]
<1>1. added \in Seq(R0)
  BY DEF ReadType
<1>2. \A e \in R0 : e.res \in ResultSet
  OBVIOUS
<1> HIDE DEF R0
<1>3. Len(added) \in Nat /\ DOMAIN added = 1..Len(added) /\ \A k \in DOMAIN added : added[k] \in R0
  BY <1>1
<1>4. QED
  BY <1>2, <1>3

(* The results read have names, and their series are of points: if a       *)
(* result is in a series, so the first of its attack was read.             *)
LEMMA NamesFacts ==
  ASSUME ReadType
  PROVE  Names \subseteq NameSet
<1>1. \A k \in DOMAIN added : added[k].res \in ResultSet
  BY AddedFacts
<1>2. \A x \in ToSet(Res(added)) : x \in ResultSet
  BY <1>1 DEF ToSet, Res
<1>3. \A x \in ResultSet : x.attack \in Nat /\ ErrorLabeler(x) \in Labels
  BY DEF ResultSet, ErrorLabeler, Labels
<1>4. QED
  BY <1>2, <1>3 DEF Names, NameSet

(* Rounding down keeps the order.                                          *)
LEMMA DivGrows ==
  ASSUME NEW d \in Nat \ {0}, NEW a \in Int
  PROVE  a \div d \in Int /\ \A b \in Int : a <= b => a \div d <= b \div d
<1>1. \A b \in Int : b \div d \in Int /\ d * (b \div d) <= b /\ b < d * (b \div d) + d
  BY SMTT(30)
<1>2. ASSUME NEW b \in Int, a <= b, b \div d < a \div d PROVE FALSE
  <2> DEFINE x == a \div d
             y == b \div d
  <2>1. x \in Int /\ y \in Int /\ d * x <= a /\ b < d * y + d /\ y + 1 <= x
    BY <1>1, <1>2
  <2> HIDE DEF x, y
  <2>2. d * (y + 1) <= d * x
    BY <2>1
  <2>3. d * (y + 1) = d * y + d
    BY <2>1
  <2>4. d * x \in Int /\ d * y \in Int
    BY <2>1
  <2>5. QED
    BY <1>2, <2>1, <2>2, <2>3, <2>4
<1>3. QED
  BY <1>1, <1>2

(* An attack that has a gapless result has a first one.                    *)
LEMMA BeganFacts ==
  ASSUME ReadType, NEW a, NEW k \in DOMAIN added,
         added[k].res.attack = a, Gapless(added[k].res)
  PROVE  (CHOOSE x \in ToSet(Res(added)) : x.attack = a /\ x.seq = 0).ts \in Nat
<1> DEFINE z == added[k].res
           began == CHOOSE x \in ToSet(Res(added)) : x.attack = a /\ x.seq = 0
<1>1. /\ \A i \in DOMAIN added : added[i].res \in ResultSet
      /\ \A x \in ResultSet : x.seq \in Nat /\ x.ts \in Nat
  BY AddedFacts DEF ResultSet
<1>2. 0 \in 0..z.seq
  BY <1>1
<1>3. PICK j \in DOMAIN added : added[j].res.attack = z.attack /\ added[j].res.seq = 0
  BY <1>2 DEF Gapless
<1>4. DOMAIN Res(added) = DOMAIN added /\ Res(added)[j] = added[j].res
  BY DEF Res
<1>5. began \in ToSet(Res(added))
  BY <1>3, <1>4 DEF ToSet
<1> HIDE DEF began
<1>6. began \in ResultSet
  BY <1>1, <1>5 DEF ToSet, Res
<1>7. began.ts \in Nat
  BY <1>1, <1>6
<1>8. QED
  BY <1>7 DEF began

LEMMA SeriesFacts ==
  ASSUME ReadType, NEW name
  PROVE  Series(name) \in Seq(PointSet)
<1> DEFINE of(x) == x.attack = name[1] /\ ErrorLabeler(x) = name[2]
           own == {k \in DOMAIN added : of(added[k].res) /\ Gapless(added[k].res)}
           key == [k \in DOMAIN added |-> added[k].res.seq]
           inOrder == Ordered(own, key)
           began == CHOOSE x \in ToSet(Res(added)) : x.attack = name[1] /\ x.seq = 0
           point(x) == <<(x.ts - began.ts) \div Milli, x.latency>>
           l == Cardinality(own)
<1>1. /\ Len(added) \in Nat /\ DOMAIN added = 1..Len(added)
      /\ \A k \in DOMAIN added : added[k].res \in ResultSet
  BY AddedFacts
<1>2. \A x \in ResultSet : x.seq \in Nat /\ x.ts \in Nat /\ x.latency \in Nat
  BY DEF ResultSet
<1>3. own \subseteq DOMAIN added /\ \A k \in own : of(added[k].res) /\ Gapless(added[k].res)
  OBVIOUS
<1>4. IsFiniteSet(own) /\ own \subseteq Int
  <2>1. IsFiniteSet(DOMAIN added) /\ DOMAIN added \subseteq Int
    BY <1>1, FS_Interval
  <2> HIDE DEF own
  <2>2. QED
    BY <1>3, <2>1, FS_Subset
<1>5. \A k \in own : key[k] \in Int
  <2> HIDE DEF own
  <2>1. QED
    BY <1>1, <1>2, <1>3
<1> DEFINE S == [i \in DOMAIN inOrder |-> point(added[inOrder[i]].res)]
<1>6. Series(name) = S
  BY DEF Series
<1>7. l \in Nat /\ inOrder \in [1..l -> own]
  <2> HIDE DEF own, key
  <2>1. QED
    BY <1>4, <1>5, OrderedFacts
<1>8. ASSUME NEW k \in own PROVE point(added[k].res) \in PointSet
  <2> DEFINE z == added[k].res
  <2>1. z \in ResultSet /\ z.seq \in Nat /\ z.ts \in Nat /\ z.latency \in Nat
    BY <1>1, <1>2, <1>3
  <2>2. z.attack = name[1] /\ Gapless(z)
    OBVIOUS
  <2>3. began.ts \in Nat
    BY <1>3, BeganFacts
  <2> HIDE DEF began, z
  <2>4. z.ts - began.ts \in Int /\ z.latency \in Int
    BY <2>1, <2>3
  <2>5. (z.ts - began.ts) \div Milli \in Int
    BY <2>4, DivGrows, ReportAssumption
  <2>6. <<(z.ts - began.ts) \div Milli, z.latency>> \in PointSet
    BY <2>4, <2>5 DEF PointSet
  <2>7. QED
    BY <2>6 DEF z
<1> HIDE DEF own, key, began, inOrder, l, point
<1>9. S \in [1..l -> PointSet]
  BY <1>7, <1>8
<1>10. S \in Seq(PointSet)
  <2> HIDE DEF S
  <2>1. QED
    BY <1>7, <1>9
<1>11. QED
  BY <1>6, <1>10

-----------------------------------------------------------------------------
(* The results that are plotted are those of the files: every Result that  *)
(* is decoded into is new, since only one of several files could leave it  *)
(* half set.                                                               *)
PlainInv ==
  cmd.name = "plot" =>
    /\ stage = "decode" => r = Zero
    /\ \A k \in DOMAIN added : added[k].res = files[added[k].file].entries[added[k].n].res

LEMMA PlainFiles ==
  ASSUME cmd \in Commands, files \in FileLists[cmd.name], cmd.name = "plot"
  PROVE  Numbered(files)
BY ReportAssumption

LEMMA PlainQuiet ==
  ASSUME PlainInv, UNCHANGED <<cmd, files, r, added>>, stage' = "decode" => stage = "decode"
  PROVE  PlainInv'
BY DEF PlainInv

LEMMA PlainDecode ==
  ASSUME ReadInv, MetricsInv, PlainInv, DecodeAndAdd
  PROVE  PlainInv'
<1> DEFINE f == NextFile
<1>1. Decode /\ ReadType
  BY DEF DecodeAndAdd, ReadInv
<1>2. /\ f \in DOMAIN files /\ UNCHANGED <<cmd, files>> /\ stage = "decode"
      /\ ~AtEnd(f) => pos[f] < Size(f) /\ pos[f] \in Nat
  BY <1>1, DecodeFacts
<1>3. CASE AtEnd(f)
  <2>1. UNCHANGED <<r, added>>
    BY <1>1, <1>3 DEF Decode, NextFile, N
  <2>2. QED
    BY <1>2, <2>1, PlainQuiet
<1>4. ASSUME ~AtEnd(f)
      PROVE  /\ pos[f] \in Nat /\ pos[f] < Len(files[f].entries)
             /\ pos[f] + 1 \in DOMAIN files[f].entries
  <2>1. Size(f) \in 0..Len(files[f].entries) /\ Len(files[f].entries) \in Nat
    BY <1>1, <1>2, FileFacts
  <2>2. pos[f] \in Nat /\ pos[f] < Len(files[f].entries)
    BY <1>2, <1>4, <2>1
  <2>3. files[f].entries \in Seq([kind : {"ok", "bad", "half"}, res : ResultSet])
    BY <1>1, <1>2, FileFacts DEF FileSet
  <2>4. QED
    BY <2>1, <2>2, <2>3
<1>5. CASE ~AtEnd(f) /\ Entry(f).kind # "ok"
  <2> SUFFICES ASSUME cmd.name = "plot" PROVE PlainInv'
    BY <1>2 DEF PlainInv
  <2>1. Missed("error") /\ UNCHANGED added
    BY <1>1, <1>5 DEF Decode, NextFile, N
  <2>2. ~(N > 1)
    <3>1. Numbered(files)
      BY PlainFiles DEF MetricsInv
    <3>2. N > 1 => files[f].entries[pos[f] + 1].kind = "ok"
      BY <1>2, <1>4, <1>5, <3>1 DEF Numbered, N
    <3>3. QED
      BY <1>5, <3>2 DEF Entry
  <2>3. tries + 1 = N
    <3>1. N \in Nat /\ N > 0 /\ tries \in 0..(N - 1)
      BY <1>1, FileFacts DEF ReadType
    <3>2. QED
      BY <2>2, <3>1
  <2>4. stage' # "decode"
    BY <2>1, <2>3 DEF Missed, Done, N
  <2>5. QED
    BY <1>2, <2>1, <2>4 DEF PlainInv
<1>6. CASE ~AtEnd(f) /\ Entry(f).kind = "ok"
  <2> SUFFICES ASSUME cmd.name = "plot" PROVE PlainInv'
    BY <1>2 DEF PlainInv
  <2>1. Filled(f, r) = Entry(f).res
    <3>1. r = Zero
      BY <1>2 DEF PlainInv
    <3>2. QED
      BY <1>1, <1>2, <1>4, <1>6, <3>1, FilledFacts
  <2>2. /\ pos' = [pos EXCEPT ![f] = @ + 1] /\ r' = Filled(f, r)
        /\ added' = Append(added, [file |-> f, n |-> pos'[f], res |-> r'])
        /\ stage' = "select"
    BY <1>1, <1>6 DEF Decode, NextFile, N
  <2> DEFINE a == [file |-> f, n |-> pos[f] + 1, res |-> Filled(f, r)]
             A == [file : DOMAIN files, n : Nat, res : ResultSet]
  <2>3. added' = Append(added, a)
    <3>1. pos'[f] = pos[f] + 1
      BY <1>1, <1>2, <1>4, <1>6, <2>2 DEF ReadType
    <3>2. QED
      BY <2>2, <3>1
  <2>4. a.res = files[a.file].entries[a.n].res
    BY <2>1 DEF Entry
  <2>5. added \in Seq(A)
    BY <1>1 DEF ReadType
  <2> HIDE DEF a, A
  <2>6. ASSUME NEW k \in DOMAIN added'
        PROVE  added'[k].res = files[added'[k].file].entries[added'[k].n].res
    <3>1. (k \in DOMAIN added /\ added'[k] = added[k]) \/ added'[k] = a
      BY <2>3, <2>5
    <3>2. QED
      BY <2>4, <3>1 DEF PlainInv
  <2>7. QED
    BY <1>2, <2>2, <2>6 DEF PlainInv
<1>7. QED
  BY <1>3, <1>5, <1>6

LEMMA PlainNext ==
  ASSUME ReadInv, MetricsInv, PlainInv, [ReportNext]_vars
  PROVE  PlainInv'
<1> USE DEF reportVars, plotVars, pipeVars, loopVars, decVars
<1>1. CASE Writer
  <2>1. UNCHANGED <<cmd, files, r, added, stage>>
    BY <1>1 DEF Writer, WriteResult, WriteResultFails, WriterStops, Write, WriterEnds
  <2>2. QED
    BY <2>1, PlainQuiet
<1>2. CASE Signal \/ Tick
  <2>1. UNCHANGED <<cmd, files, r, added, stage>>
    BY <1>2 DEF Signal, Tick
  <2>2. QED
    BY <2>1, PlainQuiet
<1>3. CASE Open
  <2>1. UNCHANGED <<cmd, files, r, added>> /\ stage' # "decode"
    BY <1>3 DEF Open, Done
  <2>2. QED
    BY <2>1, PlainQuiet
<1>4. CASE SelectDecode
  BY <1>4 DEF SelectDecode, PlainInv
<1>5. CASE DecodeAndAdd
  BY <1>5, PlainDecode
<1>6. CASE SelectTick
  <2>1. UNCHANGED <<cmd, files, r, added>> /\ stage' # "decode"
    BY <1>6 DEF SelectTick, Done
  <2>2. QED
    BY <2>1, PlainQuiet
<1>7. CASE Close
  <2>1. UNCHANGED <<cmd, files, r, added>>
    BY <1>7 DEF Close
  <2>2. stage' = "done" \/ stage' = "draw"
    BY <1>7, Zenon DEF Close, Done
  <2>3. QED
    BY <2>1, <2>2, PlainQuiet
<1>8. CASE DrawSeries
  <2>1. UNCHANGED <<cmd, files, r, added>> /\ stage' # "decode"
    <3>1. UNCHANGED <<cmd, files, r, added>> /\ stage = "draw"
      BY <1>8, Zenon DEF DrawSeries
    <3>2. stage' = stage \/ stage' = "done"
      BY <1>8 DEF DrawSeries, Done
    <3>3. QED
      BY <3>1, <3>2
  <2>2. QED
    BY <2>1, PlainQuiet
<1>9. CASE DrawSample
  <2>1. UNCHANGED <<cmd, files, r, added, stage>>
    BY <1>9, Zenon DEF DrawSample
  <2>2. QED
    BY <2>1, PlainQuiet
<1>10. CASE WritePage
  <2>1. UNCHANGED <<cmd, files, r, added>> /\ stage' # "decode"
    BY <1>10 DEF WritePage, Done
  <2>2. QED
    BY <2>1, PlainQuiet
<1>11. CASE EncodeFails
  <2>1. UNCHANGED <<cmd, files, r, added>> /\ stage' # "decode"
    BY <1>11 DEF EncodeFails, Done
  <2>2. QED
    BY <2>1, PlainQuiet
<1>12. CASE TakeSignal
  <2>1. UNCHANGED <<cmd, files, r, added>> /\ stage' # "decode"
    BY <1>12 DEF TakeSignal, SelectSignal
  <2>2. QED
    BY <2>1, PlainQuiet
<1>13. CASE UNCHANGED vars
  <2>1. UNCHANGED <<cmd, files, r, added, stage>>
    BY <1>13 DEF vars, decodingVars
  <2>2. QED
    BY <2>1, PlainQuiet
<1>14. QED
  BY <1>1, <1>2, <1>3, <1>4, <1>5, <1>6, <1>7, <1>8, <1>9, <1>10, <1>11, <1>12, <1>13
  DEF ReportNext, Program

(* The numbers of an attack follow its timestamps, so that the points of a *)
(* series, which are in the order of the numbers, ascend.                  *)
LEMMA SeriesAscend ==
  ASSUME ReadInv, MetricsInv, PlainInv, cmd.name = "plot", NEW name
  PROVE  \A i, j \in 1..Len(Series(name)) :
           i < j => Series(name)[i][1] <= Series(name)[j][1]
<1> DEFINE of(x) == x.attack = name[1] /\ ErrorLabeler(x) = name[2]
           own == {k \in DOMAIN added : of(added[k].res) /\ Gapless(added[k].res)}
           key == [k \in DOMAIN added |-> added[k].res.seq]
           inOrder == Ordered(own, key)
           began == CHOOSE x \in ToSet(Res(added)) : x.attack = name[1] /\ x.seq = 0
           point(x) == <<(x.ts - began.ts) \div Milli, x.latency>>
           l == Cardinality(own)
           S == [i \in DOMAIN inOrder |-> point(added[inOrder[i]].res)]
<1>0. ReadType
  BY DEF ReadInv
<1>1. /\ Len(added) \in Nat /\ DOMAIN added = 1..Len(added)
      /\ \A k \in DOMAIN added : added[k].res \in ResultSet
  BY <1>0, AddedFacts
<1>2. \A x \in ResultSet : x.seq \in Nat /\ x.ts \in Nat
  BY DEF ResultSet
<1>3. own \subseteq DOMAIN added /\ \A k \in own : added[k].res.attack = name[1] /\ Gapless(added[k].res)
  OBVIOUS
<1>4. IsFiniteSet(own) /\ own \subseteq Int
  <2>1. IsFiniteSet(DOMAIN added) /\ DOMAIN added \subseteq Int
    BY <1>1, FS_Interval
  <2> HIDE DEF own
  <2>2. QED
    BY <1>3, <2>1, FS_Subset
<1>5. \A k \in own : key[k] = added[k].res.seq /\ key[k] \in Int
  <2> HIDE DEF own
  <2>1. QED
    BY <1>1, <1>2, <1>3
<1>6. Series(name) = S /\ Series(name) \in Seq(PointSet)
  <2>1. Series(name) = S
    BY DEF Series
  <2> HIDE DEF S
  <2>2. QED
    BY <1>0, <2>1, SeriesFacts
<1>7. /\ l \in Nat /\ inOrder \in [1..l -> own]
      /\ \A i, j \in 1..l : i < j => key[inOrder[i]] <= key[inOrder[j]]
  <2> HIDE DEF own, key
  <2>1. \A k \in own : key[k] \in Int
    BY <1>5
  <2>2. /\ Cardinality(own) \in Nat
        /\ Ordered(own, key) \in [1..Cardinality(own) -> own]
        /\ \A k \in own : \E i \in 1..Cardinality(own) : Ordered(own, key)[i] = k
        /\ \A i, j \in 1..Cardinality(own) : i < j =>
             /\ Ordered(own, key)[i] # Ordered(own, key)[j]
             /\ key[Ordered(own, key)[i]] <= key[Ordered(own, key)[j]]
             /\ \/ key[Ordered(own, key)[i]] < key[Ordered(own, key)[j]]
                \/ Ordered(own, key)[i] < Ordered(own, key)[j]
    BY <1>4, <2>1, OrderedFacts
  <2>3. QED
    BY <2>2
<1>8. ASSUME NEW j \in own, NEW k \in own, key[j] <= key[k]
      PROVE  added[j].res.ts <= added[k].res.ts
  <2> DEFINE f == added[j].file
             g == added[k].file
             a == added[j].n
             b == added[k].n
             x == files[f].entries[a]
             y == files[g].entries[b]
  <2>1. j \in DOMAIN added /\ k \in DOMAIN added
    BY <1>3
  <2>2. /\ f \in DOMAIN files /\ a \in DOMAIN files[f].entries
        /\ g \in DOMAIN files /\ b \in DOMAIN files[g].entries
        /\ x.kind = "ok" /\ y.kind = "ok"
    <3>1. ASSUME NEW i \in DOMAIN added
          PROVE  /\ added[i].file \in DOMAIN files
                 /\ added[i].n \in DOMAIN files[added[i].file].entries
                 /\ files[added[i].file].entries[added[i].n].kind = "ok"
      <4> DEFINE e == added[i].file
                 d == added[i].n
      <4>1. <<e, d>> \in Read
        BY DEF Read
      <4>2. /\ e \in DOMAIN files /\ d \in 1..pos[e] /\ pos[e] <= Size(e)
            /\ files[e].entries[d].kind = "ok"
        BY <4>1 DEF ReadInv, OrderInv
      <4> HIDE DEF e, d
      <4>3. /\ Size(e) \in 0..Len(files[e].entries) /\ Len(files[e].entries) \in Nat
            /\ pos[e] \in Nat /\ files[e] \in FileSet
        BY <1>0, <4>2, FileFacts DEF ReadType
      <4>4. DOMAIN files[e].entries = 1..Len(files[e].entries)
        BY <4>3 DEF FileSet
      <4>5. d \in DOMAIN files[e].entries
        BY <4>2, <4>3, <4>4
      <4>6. QED
        BY <4>2, <4>5 DEF e, d
    <3>2. QED
      BY <2>1, <3>1
  <2>3. added[j].res = x.res /\ added[k].res = y.res
    BY <2>1 DEF PlainInv
  <2>4. x.res.attack = y.res.attack /\ x.res.seq <= y.res.seq
        /\ x.res.seq \in Nat /\ y.res.seq \in Nat /\ x.res.ts \in Nat /\ y.res.ts \in Nat
    BY <1>1, <1>2, <1>3, <1>5, <1>8, <2>1, <2>3
  <2>5. Numbered(files)
    BY PlainFiles DEF MetricsInv
  <2> HIDE DEF f, g, a, b
  <2>6. <<f, a>> # <<g, b>> =>
          x.res.seq # y.res.seq /\ (x.res.seq < y.res.seq => x.res.ts <= y.res.ts)
    BY <2>2, <2>4, <2>5 DEF Numbered
  <2>7. <<f, a>> = <<g, b>> => x = y
    OBVIOUS
  <2> HIDE DEF x, y
  <2>8. x.res.ts <= y.res.ts
    BY <2>4, <2>6, <2>7
  <2>9. QED
    BY <2>3, <2>8
<1>9. ASSUME NEW j \in own, NEW k \in own, key[j] <= key[k]
      PROVE  point(added[j].res)[1] <= point(added[k].res)[1]
  <2> DEFINE b == began.ts
             x == added[j].res.ts
             y == added[k].res.ts
  <2>1. x <= y /\ x \in Nat /\ y \in Nat
    BY <1>1, <1>2, <1>3, <1>8, <1>9
  <2>2. b \in Nat
    BY <1>0, <1>3, BeganFacts
  <2> HIDE DEF b, x, y
  <2>3. x - b \in Int /\ y - b \in Int /\ x - b <= y - b
    BY <2>1, <2>2
  <2>4. (x - b) \div Milli <= (y - b) \div Milli
    BY <2>3, DivGrows, ReportAssumption
  <2>5. QED
    BY <2>4 DEF b, x, y
<1> HIDE DEF own, key, inOrder, l, point
<1>10. /\ DOMAIN Series(name) = 1..l /\ Len(Series(name)) = l
       /\ \A i \in 1..l : Series(name)[i] = point(added[inOrder[i]].res)
  <2>1. DOMAIN S = 1..l /\ \A i \in 1..l : S[i] = point(added[inOrder[i]].res)
    BY <1>7
  <2> HIDE DEF S
  <2>2. QED
    BY <1>6, <1>7, <2>1
<1>11. ASSUME NEW i \in 1..l, NEW j \in 1..l, i < j
       PROVE  Series(name)[i][1] <= Series(name)[j][1]
  <2>1. inOrder[i] \in own /\ inOrder[j] \in own /\ key[inOrder[i]] <= key[inOrder[j]]
    BY <1>7, <1>11
  <2>2. QED
    BY <1>9, <1>10, <2>1
<1>12. QED
  BY <1>10, <1>11

(* Of any names one comes first.                                           *)
LEMMA FirstName ==
  ASSUME NEW T \in SUBSET NameSet, T # {}
  PROVE  \E n \in T : \A o \in T \ {n} : NameBefore(n, o)
<1> DEFINE rank == [n \in NameSet |-> 2 * n[1] + (IF n[2] = "ERROR" THEN 0 ELSE 1)]
           S == {rank[n] : n \in T}
<1>1. ASSUME NEW n \in NameSet
      PROVE  /\ n[1] \in Nat /\ n[2] \in {"OK", "ERROR"} /\ n = <<n[1], n[2]>>
             /\ rank[n] = 2 * n[1] + (IF n[2] = "ERROR" THEN 0 ELSE 1)
             /\ rank[n] \in Nat
  <2>1. n[1] \in Nat /\ n[2] \in {"OK", "ERROR"} /\ n = <<n[1], n[2]>>
    BY DEF NameSet, Labels
  <2>2. rank[n] = 2 * n[1] + (IF n[2] = "ERROR" THEN 0 ELSE 1)
    OBVIOUS
  <2> HIDE DEF rank
  <2>3. rank[n] \in Nat
    BY <2>1, <2>2
  <2>4. QED
    BY <2>1, <2>2, <2>3
<1> HIDE DEF rank
<1>2. S \in SUBSET Nat /\ S # {}
  BY <1>1
<1>3. PICK n \in T : \A o \in T : rank[n] <= rank[o]
  <2>1. PICK x \in S : \A y \in S : x <= y
    <3> HIDE DEF S
    <3>1. QED
      BY <1>2, LeastNatural
  <2>2. QED
    BY <2>1
<1>4. ASSUME NEW o \in T \ {n} PROVE NameBefore(n, o)
  <2> DEFINE a == n[1]
             b == n[2]
             c == o[1]
             d == o[2]
  <2>1. /\ a \in Nat /\ c \in Nat /\ b \in {"OK", "ERROR"} /\ d \in {"OK", "ERROR"}
        /\ a # c \/ b # d
    BY <1>1, <1>4
  <2>2. /\ rank[n] = 2 * a + (IF b = "ERROR" THEN 0 ELSE 1)
        /\ rank[o] = 2 * c + (IF d = "ERROR" THEN 0 ELSE 1)
        /\ rank[n] <= rank[o]
    BY <1>1, <1>3, <1>4
  <2> HIDE DEF a, b, c, d
  <2>3. a < c \/ (a = c /\ b = "ERROR" /\ d = "OK")
    BY <2>1, <2>2
  <2>4. QED
    BY <2>3 DEF NameBefore, a, b, c, d
<1>5. QED
  BY <1>4

(* Steps that read nothing leave the series as they are.                   *)
LEMMA SeriesStay ==
  ASSUME UNCHANGED added
  PROVE  Names' = Names /\ \A n : Series(n)' = Series(n)
BY DEF Names, Series, Gapless

-----------------------------------------------------------------------------
(* The series that is being sampled, and the series not yet on the page.   *)
CurInv ==
  \E n \in Names \ todo :
    /\ cur = [name |-> n, points |-> Series(n), low |-> cur.low, kept |-> cur.kept]
    /\ cmd.threshold \in Nat /\ 3 <= cmd.threshold /\ cmd.threshold < Len(cur.points)
    /\ cur.low \in SUBSET Roundings(Len(cur.points), cmd.threshold)
    /\ KeptSound(cur.kept, Len(cur.points), cmd.threshold, cur.low)
Pending(n) == n \in todo \/ (cur # NoSeries /\ n = cur.name)

(* While a page is drawn it shows the series that were taken, and has no   *)
(* row of the others.                                                      *)
DrawInv ==
  /\ cmd.name = "plot"
  /\ todo \subseteq Names
  /\ cur # NoSeries => CurInv
  /\ \A n \in Names : IF Pending(n) THEN Without(page, n)
                      ELSE ShownOn(page, n, Series(n), cmd.threshold)
PageInv ==
  /\ page \in Seq(RowSet)
  /\ stage \notin {"draw", "done"} => page = <<>> /\ cur = NoSeries
  /\ stage # "done" => outcome = "none"
  /\ stage = "draw" => DrawInv
  /\ PageSound

(* Steps that leave the page and what it is drawn from alone, and those    *)
(* before the command draws.                                               *)
LEMMA PageQuiet ==
  ASSUME PageInv, UNCHANGED <<cmd, added, page, todo, cur, stage, outcome>>
  PROVE  PageInv'
<1>1. Names' = Names /\ \A n : Series(n)' = Series(n)
  BY SeriesStay
<1>2. PageSound'
  <2>1. PageSound
    BY DEF PageInv
  <2>2. \A n : Shown(n) => Shown(n)'
    BY <1>1 DEF Shown
  <2>3. QED
    BY <1>1, <2>1, <2>2 DEF PageSound
<1>3. stage = "draw" => DrawInv'
  <2> SUFFICES ASSUME stage = "draw" PROVE DrawInv'
    OBVIOUS
  <2>0. DrawInv
    BY DEF PageInv
  <2>1. cur # NoSeries => CurInv'
    BY <1>1, <2>0 DEF DrawInv, CurInv
  <2>2. \A n : Pending(n)' = Pending(n)
    BY DEF Pending
  <2>3. QED
    BY <1>1, <2>0, <2>1, <2>2 DEF DrawInv
<1>4. QED
  BY <1>2, <1>3 DEF PageInv

LEMMA PageBefore ==
  ASSUME PageInv, stage \notin {"draw", "done"}, UNCHANGED <<cmd, page, cur>>,
         \/ stage' \notin {"draw", "done"} /\ outcome' = outcome
         \/ stage' = "done" /\ (outcome' # "ok" \/ cmd.name # "plot")
  PROVE  PageInv'
BY DEF PageInv, PageSound

(* The command has left its loop: plot draws all series, on an empty page. *)
LEMMA CloseDraws ==
  ASSUME PageInv, ReadType, Close
  PROVE  PageInv'
<1>1. stage = "close" /\ UNCHANGED <<cmd, added, page, cur>>
  BY DEF Close, pipeVars
<1>2. page = <<>> /\ cur = NoSeries /\ outcome = "none" /\ page \in Seq(RowSet)
  BY <1>1 DEF PageInv
<1>3. CASE cmd.name = "plot"
  <2>1. stage' = "draw" /\ todo' = Names /\ UNCHANGED outcome
    BY <1>3 DEF Close
  <2>2. Names' = Names
    BY <1>1, SeriesStay
  <2>3. \A n : Without(page', n)
    BY <1>1, <1>2 DEF Without, Own
  <2>4. DrawInv'
    <3>1. \A n \in Names' : Pending(n)'
      BY <2>1, <2>2 DEF Pending
    <3>2. cur' = NoSeries /\ todo' = Names'
      BY <1>1, <1>2, <2>1, <2>2
    <3>3. QED
      BY <1>1, <1>3, <2>3, <3>1, <3>2 DEF DrawInv
  <2>5. PageSound'
    BY <1>2, <2>1 DEF PageSound
  <2>6. QED
    BY <1>1, <1>2, <2>1, <2>4, <2>5 DEF PageInv
<1>4. CASE cmd.name # "plot"
  <2>1. stage' = "done"
    BY <1>1, <1>4 DEF Close, Done
  <2>2. QED
    BY <1>1, <1>4, <2>1, PageBefore
<1>5. QED
  BY <1>3, <1>4

(* The series that is taken first is one of those left.                    *)
LEMMA DrawSeriesStep ==
  ASSUME PageInv, ReadType, cmd.threshold \in Int, DrawSeries
  PROVE  PageInv'
<1> DEFINE t == cmd.threshold
<1>1. /\ stage = "draw" /\ cur = NoSeries /\ todo # {} /\ UNCHANGED <<cmd, added>>
  BY DEF DrawSeries, pipeVars
<1>2. /\ Names' = Names /\ (\A n : Series(n)' = Series(n))
      /\ \A n : Series(n) \in Seq(PointSet)
      /\ Names \subseteq NameSet
  BY <1>1, SeriesStay, SeriesFacts, NamesFacts
<1>3. DrawInv /\ page \in Seq(RowSet) /\ outcome = "none"
  BY <1>1 DEF PageInv
<1>4. PICK o : o = CHOOSE n \in todo : \A p \in todo \ {n} : NameBefore(n, p)
  OBVIOUS
<1>5. o \in todo /\ o \in Names /\ o \in NameSet
  <2>1. todo \in SUBSET NameSet
    BY <1>2, <1>3 DEF DrawInv
  <2>2. \E n \in todo : \A p \in todo \ {n} : NameBefore(n, p)
    BY <1>1, <2>1, FirstName
  <2>3. QED
    BY <1>3, <1>4, <2>1, <2>2 DEF DrawInv
<1>6. PICK s : s = Series(o)
  OBVIOUS
<1>7. s \in Seq(PointSet) /\ Len(s) \in Nat
  BY <1>2, <1>6
<1>8. IF TooLow(Len(s), t)
      THEN Done("error") /\ UNCHANGED plotVars
      ELSE /\ todo' = todo \ {o}
           /\ UNCHANGED <<stage, outcome>>
           /\ IF Short(Len(s), t)
              THEN page' = page \o RowsOf(o, s) /\ UNCHANGED cur
              ELSE /\ \E low \in SUBSET Roundings(Len(s), t) :
                        cur' = [name |-> o, points |-> s, low |-> low, kept |-> <<0>>]
                   /\ UNCHANGED page
  BY <1>4, <1>6 DEF DrawSeries
<1>9. CASE TooLow(Len(s), t)
  <2>1. stage' = "done" /\ outcome' = "error" /\ UNCHANGED page
    BY <1>8, <1>9 DEF Done, plotVars
  <2>2. QED
    BY <1>3, <2>1 DEF PageInv, PageSound
<1>10. CASE ~TooLow(Len(s), t) /\ Short(Len(s), t)
  <2>1. /\ todo' = todo \ {o} /\ page' = page \o RowsOf(o, s)
        /\ UNCHANGED <<stage, outcome, cur>>
    BY <1>8, <1>10
  <2>2. RowsOf(o, s) \in Seq(RowSet) /\ ToSet(RowsOf(o, s)) \subseteq RowOf(o)
    BY <1>5, <1>7, RowsFacts
  <2>3. page' \in Seq(RowSet)
    BY <1>3, <2>1, <2>2, Concat
  <2>4. Without(page, o)
    BY <1>3, <1>5 DEF DrawInv, Pending
  <2>5. ShownOn(page', o, s, t)
    BY <1>3, <1>5, <1>7, <1>10, <2>1, <2>4, DrawnShort
  <2>6. ASSUME NEW n \in Names
        PROVE  IF n \in todo' THEN Without(page', n) ELSE ShownOn(page', n, Series(n), t)
    <3>1. CASE n = o
      BY <1>6, <2>1, <2>5, <3>1
    <3>2. CASE n # o
      <4>1. n \in NameSet
        BY <1>2
      <4>2. IF n \in todo THEN Without(page, n) ELSE ShownOn(page, n, Series(n), t)
        BY <1>1, <1>3 DEF DrawInv, Pending
      <4>3. n \in todo' <=> n \in todo
        BY <2>1, <3>2
      <4>4. /\ Without(page, n) => Without(page', n)
            /\ \A u, v : ShownOn(page, n, u, v) => ShownOn(page', n, u, v)
        BY <1>3, <1>5, <2>1, <2>2, <3>2, <4>1, OthersKept
      <4>5. QED
        BY <4>2, <4>3, <4>4
    <3>3. QED
      BY <3>1, <3>2
  <2>7. DrawInv'
    <3>1. cur' = NoSeries /\ todo' \subseteq Names' /\ cmd'.threshold = t
          /\ cmd'.name = "plot"
      BY <1>1, <1>2, <1>3, <2>1 DEF DrawInv
    <3>2. \A n : Pending(n)' <=> n \in todo'
      BY <3>1 DEF Pending
    <3>3. QED
      BY <1>2, <2>6, <3>1, <3>2 DEF DrawInv
  <2>8. PageSound'
    BY <1>3, <2>1 DEF PageSound
  <2>9. QED
    BY <1>1, <1>3, <2>1, <2>3, <2>7, <2>8 DEF PageInv
<1>11. CASE ~TooLow(Len(s), t) /\ ~Short(Len(s), t)
  <2>1. PICK low \in SUBSET Roundings(Len(s), t) :
          cur' = [name |-> o, points |-> s, low |-> low, kept |-> <<0>>]
    BY <1>8, <1>11
  <2>2. todo' = todo \ {o} /\ UNCHANGED <<stage, outcome, page>>
    BY <1>8, <1>11
  <2>3. t \in Nat /\ 3 <= t /\ t < Len(s)
    BY <1>7, <1>11 DEF TooLow, Short
  <2>4. cur'.name = o /\ cur'.points = s /\ cur'.low = low /\ cur'.kept = <<0>>
    BY <2>1
  <2>5. KeptSound(<<0>>, Len(s), t, low)
    BY <2>3 DEF KeptSound
  <2>6. cur' # NoSeries
    <3>1. cur'.kept # NoSeries.kept
      BY <2>4 DEF NoSeries
    <3>2. QED
      BY <3>1
  <2>7. CurInv'
    <3>1. o \in Names' \ todo' /\ s = Series(o)' /\ cmd'.threshold = t
      BY <1>1, <1>2, <1>5, <1>6, <2>2
    <3>2. QED
      BY <2>1, <2>3, <2>4, <2>5, <3>1 DEF CurInv
  <2>8. ASSUME NEW n \in Names PROVE Pending(n)' <=> Pending(n)
    BY <1>1, <1>5, <2>2, <2>4, <2>6 DEF Pending
  <2>9. DrawInv'
    <3>1. todo' \subseteq Names' /\ cmd'.threshold = t /\ cmd'.name = "plot"
      BY <1>1, <1>2, <1>3, <2>2 DEF DrawInv
    <3>2. QED
      BY <1>2, <1>3, <2>2, <2>7, <2>8, <3>1 DEF DrawInv
  <2>10. PageSound'
    BY <1>3, <2>2 DEF PageSound
  <2>11. QED
    BY <1>1, <1>3, <2>2, <2>9, <2>10 DEF PageInv
<1>12. QED
  BY <1>9, <1>10, <1>11

(* A bucket is sampled, or the last point completes the series.            *)
LEMMA DrawSampleStep ==
  ASSUME PageInv, ReadType, DrawSample
  PROVE  PageInv'
<1> DEFINE t == cmd.threshold
<1>1. /\ stage = "draw" /\ cur # NoSeries
      /\ UNCHANGED <<cmd, added, todo, stage, outcome>>
  BY Zenon DEF DrawSample, pipeVars, loopVars
<1>2. /\ Names' = Names /\ (\A n : Series(n)' = Series(n))
      /\ \A n : Series(n) \in Seq(PointSet)
      /\ Names \subseteq NameSet
  BY <1>1, SeriesStay, SeriesFacts, NamesFacts
<1>3. DrawInv /\ page \in Seq(RowSet) /\ outcome = "none"
  BY <1>1 DEF PageInv
<1>4. PICK o \in Names \ todo :
        /\ cur = [name |-> o, points |-> Series(o), low |-> cur.low, kept |-> cur.kept]
        /\ t \in Nat /\ 3 <= t /\ t < Len(cur.points)
        /\ cur.low \in SUBSET Roundings(Len(cur.points), t)
        /\ KeptSound(cur.kept, Len(cur.points), t, cur.low)
  BY <1>1, <1>3 DEF DrawInv, CurInv
<1>5. PICK s, low, kept : s = Series(o) /\ low = cur.low /\ kept = cur.kept
  OBVIOUS
<1>6. /\ cur = [name |-> o, points |-> s, low |-> low, kept |-> kept]
      /\ cur.name = o /\ cur.points = s
  <2>1. cur = [name |-> o, points |-> s, low |-> low, kept |-> kept]
    BY <1>4, <1>5
  <2>2. QED
    BY <2>1
<1>7. /\ o \in NameSet /\ s \in Seq(PointSet) /\ s = Series(o)
      /\ t \in Nat /\ 3 <= t /\ t < Len(s)
      /\ low \in SUBSET Roundings(Len(s), t)
      /\ KeptSound(kept, Len(s), t, low)
  BY <1>2, <1>4, <1>5, <1>6
<1> DEFINE all == Append(kept, Len(s) - 1)
           q == RowsOf(o, [k \in DOMAIN all |-> s[all[k] + 1]])
<1>8. IF Len(kept) < t - 1
      THEN /\ cur' = [cur EXCEPT !.kept = Append(@, SampleNext(s, t, low, kept))]
           /\ UNCHANGED page
      ELSE page' = page \o q /\ cur' = NoSeries
  BY <1>4, <1>5, <1>6, Zenon DEF DrawSample
<1> HIDE DEF q
<1>9. CASE Len(kept) < t - 1
  <2> DEFINE u == Append(kept, SampleNext(s, t, low, kept))
  <2>1. cur' = [cur EXCEPT !.kept = u] /\ UNCHANGED page
    BY <1>5, <1>8, <1>9
  <2>2. KeptSound(u, Len(s), t, low)
    BY <1>7, <1>9, SampleNextFacts
  <2>3. /\ cur'.name = o /\ cur'.points = s /\ cur'.low = low /\ cur'.kept = u
    <3> HIDE DEF u
    <3>1. cur' = [name |-> o, points |-> s, low |-> low, kept |-> u]
      BY <1>6, <2>1
    <3>2. QED
      BY <3>1
  <2> HIDE DEF u
  <2>4. cur' # NoSeries
    <3>1. cur'.kept # NoSeries.kept
      <4>1. Len(cur'.kept) # 0
        BY <1>7, <2>2, <2>3 DEF KeptSound
      <4>2. QED
        BY <4>1 DEF NoSeries
    <3>2. QED
      BY <3>1
  <2>5. CurInv'
    <3>1. o \in Names' \ todo' /\ s = Series(o)' /\ cmd'.threshold = t
      BY <1>1, <1>2, <1>4, <1>7
    <3>2. QED
      BY <1>7, <1>6, <2>1, <2>2, <2>3, <3>1 DEF CurInv
  <2>6. ASSUME NEW n \in Names PROVE Pending(n)' <=> Pending(n)
    BY <1>1, <1>4, <1>6, <2>3, <2>4 DEF Pending
  <2>7. DrawInv'
    <3>1. todo' \subseteq Names' /\ cmd'.threshold = t /\ cmd'.name = "plot"
      BY <1>1, <1>2, <1>3 DEF DrawInv
    <3>2. QED
      BY <1>2, <1>3, <2>1, <2>5, <2>6, <3>1 DEF DrawInv
  <2>8. PageSound'
    BY <1>1, <1>3 DEF PageSound
  <2>9. QED
    BY <1>1, <1>3, <2>1, <2>7, <2>8 DEF PageInv
<1>10. CASE ~(Len(kept) < t - 1)
  <2>1. page' = page \o q /\ cur' = NoSeries
    BY <1>8, <1>10
  <2>2. Len(kept) = t - 1
    BY <1>7, <1>10 DEF KeptSound
  <2>3. Without(page, o)
    BY <1>1, <1>3, <1>4, <1>6 DEF DrawInv, Pending
  <2>4. /\ q \in Seq(RowSet) /\ ToSet(q) \subseteq RowOf(o)
        /\ ShownOn(page \o q, o, s, t)
    BY <1>3, <1>7, <2>2, <2>3, DrawnSampled, ZenonT(60) DEF q
  <2>5. page' \in Seq(RowSet)
    BY <1>3, <2>1, <2>4, Concat
  <2>6. ASSUME NEW n \in Names
        PROVE  IF n \in todo' THEN Without(page', n) ELSE ShownOn(page', n, Series(n), t)
    <3>1. CASE n = o
      BY <1>1, <1>4, <1>7, <2>1, <2>4, <3>1
    <3>2. CASE n # o
      <4>1. n \in NameSet
        BY <1>2
      <4>2. IF n \in todo THEN Without(page, n) ELSE ShownOn(page, n, Series(n), t)
        BY <1>3, <1>4, <1>6, <3>2 DEF DrawInv, Pending
      <4>3. /\ Without(page, n) => Without(page', n)
            /\ \A u, v : ShownOn(page, n, u, v) => ShownOn(page', n, u, v)
        BY <1>3, <1>7, <2>1, <2>4, <3>2, <4>1, OthersKept
      <4>4. QED
        BY <1>1, <4>2, <4>3
    <3>3. QED
      BY <3>1, <3>2
  <2>7. DrawInv'
    <3>1. cur' = NoSeries /\ todo' \subseteq Names' /\ cmd'.threshold = t
          /\ cmd'.name = "plot"
      BY <1>1, <1>2, <1>3, <2>1 DEF DrawInv
    <3>2. \A n : Pending(n)' <=> n \in todo'
      BY <3>1 DEF Pending
    <3>3. QED
      BY <1>2, <2>6, <3>1, <3>2 DEF DrawInv
  <2>8. PageSound'
    BY <1>1, <1>3 DEF PageSound
  <2>9. QED
    BY <1>1, <1>3, <2>5, <2>7, <2>8 DEF PageInv
<1>11. QED
  BY <1>9, <1>10

(* The page that is written shows all series, and is in order.             *)
LEMMA WritePageStep ==
  ASSUME ReadInv, MetricsInv, PlainInv, PageInv, WritePage
  PROVE  PageInv'
<1>0. ReadType
  BY DEF ReadInv
<1>1. /\ stage = "draw" /\ cur = NoSeries /\ todo = {} /\ UNCHANGED <<cmd, added>>
      /\ page' = Sorted(page) /\ stage' = "done"
  BY DEF WritePage, pipeVars, Done
<1>2. /\ Names' = Names /\ (\A n : Series(n)' = Series(n))
      /\ \A n : Series(n) \in Seq(PointSet)
      /\ Names \subseteq NameSet
  BY <1>0, <1>1, SeriesStay, SeriesFacts, NamesFacts
<1>3. DrawInv /\ page \in Seq(RowSet)
  BY <1>1 DEF PageInv
<1>4. /\ page' \in Seq(RowSet)
      /\ \A k \in 1..(Len(page') - 1) : page'[k].x <= page'[k + 1].x
  BY <1>1, <1>3, SortedFacts
<1>5. ASSUME NEW n \in Names PROVE Shown(n)'
  <2>1. PICK s, t, pg : s = Series(n) /\ t = cmd.threshold /\ pg = page'
    OBVIOUS
  <2>2. n \in NameSet /\ s \in Seq(PointSet) /\ pg \in Seq(RowSet) /\ DOMAIN s \subseteq Int
    BY <1>2, <1>4, <2>1, RowsFacts
  <2>3. ShownOn(page, n, s, t)
    BY <1>1, <1>3, <2>1 DEF DrawInv, Pending
  <2>4. \A i, j \in 1..Len(s) : i < j => s[i][1] <= s[j][1]
    BY <1>3, <2>1, SeriesAscend DEF DrawInv
  <2>5. ShownOn(pg, n, s, t)
    BY <1>1, <1>3, <2>1, <2>2, <2>3, <2>4, SortedShown
  <2>6. \E K \in Samplings(s, t) : At(pg, Own(pg, n)) = At(RowsOf(n, s), K)
    BY <2>2, <2>5, ShownIs
  <2>7. s = Series(n)' /\ t = cmd'.threshold
    BY <1>1, <1>2, <2>1
  <2>8. QED
    BY <2>1, <2>6, <2>7 DEF Shown, Own
<1>6. PageSound'
  BY <1>2, <1>4, <1>5 DEF PageSound
<1>7. QED
  BY <1>1, <1>4, <1>6 DEF PageInv

LEMMA PageInit ==
  ASSUME ReportInit
  PROVE  PlainInv /\ PageInv
<1>1. /\ stage = "open" /\ outcome = "none" /\ page = <<>> /\ cur = NoSeries
      /\ added = <<>>
  BY DEF ReportInit, DecodingInit
<1>2. QED
  BY <1>1 DEF PageInv, PageSound, PlainInv

LEMMA PageNext ==
  ASSUME ReadInv, MetricsInv, PlainInv, PageInv, [ReportNext]_vars
  PROVE  PageInv'
<1>0. ReadType /\ cmd.threshold \in Int
  BY ReportAssumption DEF ReadInv, MetricsInv
<1>1. CASE Writer
  <2>1. UNCHANGED <<cmd, added, page, todo, cur, stage, outcome>>
    BY <1>1 DEF Writer, WriteResult, WriteResultFails, WriterStops, Write, WriterEnds,
                reportVars, plotVars, loopVars
  <2>2. QED
    BY <2>1, PageQuiet
<1>2. CASE Signal /\ UNCHANGED <<reportVars, exporter>>
  <2>1. UNCHANGED <<cmd, added, page, todo, cur, stage, outcome>>
    BY <1>2 DEF Signal, reportVars, plotVars, pipeVars
  <2>2. QED
    BY <2>1, PageQuiet
<1>3. CASE Tick
  <2>1. UNCHANGED <<cmd, added, page, todo, cur, stage, outcome>>
    BY <1>3 DEF Tick, reportVars, plotVars, pipeVars
  <2>2. QED
    BY <2>1, PageQuiet
<1>4. CASE (Open \/ SelectDecode) /\ UNCHANGED <<reportVars, exporter>>
  <2>1. UNCHANGED <<cmd, page, cur>> /\ stage \notin {"draw", "done"}
    BY <1>4 DEF Open, SelectDecode, reportVars, plotVars, pipeVars
  <2>2. \/ stage' \notin {"draw", "done"} /\ outcome' = outcome
        \/ stage' = "done" /\ outcome' = "refused"
    BY <1>4 DEF Open, SelectDecode, Done
  <2>3. QED
    BY <2>1, <2>2, PageBefore
<1>5. CASE DecodeAndAdd
  <2>1. UNCHANGED <<cmd, page, cur>> /\ stage = "decode"
    BY <1>5 DEF DecodeAndAdd, Decode, plotVars, pipeVars
  <2>2. \/ stage' \in {"decode", "select", "close"} /\ outcome' = outcome
        \/ stage' = "done" /\ outcome' = "error"
    <3>1. Decode
      BY <1>5 DEF DecodeAndAdd
    <3>2. \/ \E e \in {"EOF", "error"} : Missed(e)
          \/ stage' = "select" /\ outcome' = outcome
      BY <3>1 DEF Decode
    <3>3. QED
      BY <2>1, <3>1, <3>2 DEF Missed, Done
  <2>3. QED
    BY <2>1, <2>2, PageBefore
<1>6. CASE SelectTick
  <2>1. UNCHANGED <<cmd, page, cur>> /\ stage = "select"
    BY <1>6 DEF SelectTick, plotVars, pipeVars
  <2>2. \/ stage' = "select" /\ outcome' = outcome
        \/ stage' = "done" /\ outcome' \in {"panic", "error"}
    BY <1>6, <2>1 DEF SelectTick, Done
  <2>3. QED
    BY <2>1, <2>2, PageBefore
<1>7. CASE Close
  BY <1>0, <1>7, CloseDraws
<1>8. CASE DrawSeries
  BY <1>0, <1>8, DrawSeriesStep
<1>9. CASE DrawSample
  BY <1>0, <1>9, DrawSampleStep
<1>10. CASE WritePage
  BY <1>10, WritePageStep
<1>11. CASE EncodeFails
  <2>1. UNCHANGED <<cmd, page, cur>> /\ stage = "select"
    BY <1>11 DEF EncodeFails, reportVars, plotVars, pipeVars
  <2>2. stage' = "done" /\ outcome' = "error"
    BY <1>11 DEF EncodeFails, Done
  <2>3. QED
    BY <2>1, <2>2, PageBefore
<1>12. CASE TakeSignal
  <2>1. UNCHANGED <<cmd, page, cur, outcome>> /\ stage = "select" /\ stage' = "close"
    BY <1>12 DEF TakeSignal, SelectSignal, reportVars, plotVars, pipeVars
  <2>2. QED
    BY <2>1, PageBefore
<1>13. CASE UNCHANGED vars
  <2>1. UNCHANGED <<cmd, added, page, todo, cur, stage, outcome>>
    BY <1>13 DEF vars, decodingVars, reportVars, plotVars, pipeVars, loopVars
  <2>2. QED
    BY <2>1, PageQuiet
<1>14. QED
  BY <1>1, <1>2, <1>3, <1>4, <1>5, <1>6, <1>7, <1>8, <1>9, <1>10, <1>11, <1>12, <1>13
  DEF ReportNext, Program

(* While a page is drawn, it shows the series that were taken as the       *)
(* threshold allows, and nothing of the others.                            *)
THEOREM PageInvariant == ReportSpec => [](PlainInv /\ PageInv)
<1>1. ReportInit => PlainInv /\ PageInv
  BY PageInit
<1>2. PlainInv /\ PageInv /\ TalliesInv /\ ReadInv /\ [ReportNext]_vars => PlainInv' /\ PageInv'
  BY PlainNext, PageNext DEF TalliesInv
<1>3. QED
  BY <1>1, <1>2, ReadInvariant, TalliesInvariant, PTL DEF ReportSpec

(* The page that plot writes is in the order of time (lib/plot/plot.go     *)
(* data, sort.Stable), and shows of every series all points up to the      *)
(* threshold, and of a longer one exactly threshold points, its first and  *)
(* its last among them, no point twice and never skipping more than two    *)
(* buckets in a row (lib/lttb/lttb.go Downsample); and it shows them in    *)
(* the order of the hits, also those that share a millisecond.             *)
THEOREM PageIsSound == ReportSpec => []PageSound
<1>1. PageInv => PageSound
  BY DEF PageInv
<1>2. QED
  BY <1>1, PageInvariant, PTL

=============================================================================
