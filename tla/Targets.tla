------------------------------ MODULE Targets ------------------------------
(***************************************************************************)
(* The targeters of lib/targets.go and the concurrent hits that use them.  *)
(* A targets file is a sequence of lines of which only the kind matters:   *)
(* what it would be taken for where a target starts and where a header is  *)
(* expected.  A target and a header value are named by their line.  All    *)
(* header lines have the key of the default header of -header, whose       *)
(* values every target of the HTTP format starts from.                     *)
(***************************************************************************)
EXTENDS Integers, Sequences, FiniteSets, FiniteSetsExt, SequencesExt

CONSTANTS Hits,      \* the hits that ask for a target
          Defaults,  \* how often -header was given
          MaxLines,  \* bound on the length of a targets file
          Kinds      \* the kinds of lines of the file

ASSUME TargetsAssumption ==
  /\ Defaults \in Nat
  /\ MaxLines \in Nat
  /\ Kinds \subseteq {"blank", "comment", "header", "body",
                      "target",    \* a method and a URL
                      "path",      \* the same, and no header: GET /a
                      "badurl",    \* a method and no URL, but a header
                      "nourl",     \* a method, neither a URL nor a header
                      "bad",       \* nothing, or an unreadable body file
                      "broken"}    \* where the reader of the file fails

VARIABLES input,   \* format, -lazy and the lines of the file
          next,    \* the next line the scanner returns
          phase,   \* "reading" (ReadAllTargets), "attacking" or "refused"
          tgts,    \* the targets read eagerly
          i,       \* the counter of the static targeter
          spare,   \* values in the spare capacity of the default header
          pc,      \* where each hit is: "ready", "picked", "failed", "made"
          tgt,     \* the target each hit has in hand
          handed,  \* history: the targets handed to hits, in order
          made     \* the requests built

vars == <<input, next, phase, tgts, i, spare, pc, tgt, handed, made>>

-----------------------------------------------------------------------------
\* headers.Set appends one value at a time; append grows 0, 1, 2, 4, 8...
CapOf(n) == IF n = 0 THEN 0 ELSE Min({c \in {2^k : k \in 0..n} : c >= n})
Spare == CapOf(Defaults) - Defaults

\* Lines that look like a request's (startsWithHTTPMethod), those that are
\* one, and those that fail where a header or a body is expected.
Methods == {"target", "path", "badurl", "nourl"}
Starts == {"target", "path"}
NoHeader == {"path", "nourl", "bad"}

\* A line of the JSON format is a target, empty or neither.
JSONKinds == Kinds \cap {"blank", "target", "bad", "broken"}

Inputs ==
  [format : {"http"}, lazy : BOOLEAN, lines : BoundedSeq(Kinds, MaxLines),
   eol : {TRUE}]
  \cup
  [format : {"json"}, lazy : BOOLEAN, lines : BoundedSeq(JSONKinds, MaxLines),
   eol : BOOLEAN]

Lines == input.lines
Eof == Len(Lines)

\* The lines of a set in the order of the file.
InOrder(S) ==
  LET place(k) == Cardinality({j \in S : j <= k})
  IN [n \in 1..Cardinality(S) |-> CHOOSE k \in S : place(k) = n]

\* The first line from n on of one of the kinds, or the end of the file.
FirstOf(n, kinds) == Min({k \in n..Eof : Lines[k] \in kinds} \cup {Eof + 1})
\* Scan returns false at k.
Ended(k) == k > Eof \/ Lines[k] = "broken"

\* A header: the values appended to the default ones, and whether they are
\* in the shared array.
Header(own) == [own |-> own, view |-> Len(own) <= Spare]
NoTarget == [line |-> 0, header |-> Header(<<>>), body |-> 0]
Fail(e, n) == [err |-> e, next |-> n, tgt |-> NoTarget, own |-> <<>>]

\* Mutant: a comment line is not skipped among the headers.
HeadersWithComments(s, e) == [k \in 1..(e - s - 1) |-> s + k]

\* The header lines of the section (s, e); any line with a colon is one,
\* that of another target too.
HeaderLines(s, e) ==
  InOrder({k \in (s + 1)..(e - 1) : Lines[k] # "comment"})

\* The rest of a target at line s whose next line is no request's and not
\* empty: header lines up to an empty line, a body or the end of the file.
Section(s) ==
  LET e == FirstOf(s + 1, {"blank", "body", "broken"} \cup NoHeader)
      own == HeaderLines(s, e)
      body == IF e <= Eof /\ Lines[e] = "body" THEN e ELSE 0
  IN [err  |-> IF e > Eof \/ Lines[e] \in {"blank", "body"} THEN "nil"
               ELSE IF Lines[e] = "broken" THEN "ErrNoTargets"
               ELSE "badHeader",
      next |-> IF Ended(e) THEN e ELSE e + 1,
      tgt  |-> [line |-> s, header |-> Header(own), body |-> body],
      own  |-> own]

\* One call of the HTTP targeter with the scanner at line n.  A line that
\* looks like a request's ends the target before it, whatever its URL; Peek
\* consumes an empty line, since it leaves nothing peeked.
HTTPTargeter(n) ==
  LET s == FirstOf(n, Kinds \ {"blank", "comment"})
  IN IF Ended(s) THEN Fail("ErrNoTargets", s)
     ELSE IF Lines[s] \notin Starts THEN Fail("badTarget", s + 1)
     ELSE IF Ended(s + 1) \/ Lines[s + 1] \in {"blank"} \cup Methods
       THEN [err |-> "nil", tgt |-> [NoTarget EXCEPT !.line = s],
             own |-> <<>>,
             next |-> IF ~Ended(s + 1) /\ Lines[s + 1] = "blank"
                      THEN s + 2 ELSE s + 1]
     ELSE Section(s)

\* One call of the JSON targeter: a line is one target with its own header
\* and body, and counts only with its newline.  The values are copied.
JSONTargeter(n) ==
  LET s == FirstOf(n, Kinds \ {"blank"})
  IN IF s > Eof \/ (s = Eof /\ ~input.eol /\ Lines[s] # "broken")
       THEN Fail("ErrNoTargets", Eof + 1)
     ELSE IF Lines[s] = "broken" THEN Fail("readError", s)
     ELSE IF Lines[s] # "target" THEN Fail("badTarget", s + 1)
     ELSE [err |-> "nil", next |-> s + 1, own |-> <<>>,
           tgt |-> [line |-> s, body |-> s,
                    header |-> [own |-> <<s>>, view |-> FALSE]]]

Targeter(n) ==
  IF input.format = "json" THEN JSONTargeter(n) ELSE HTTPTargeter(n)

\* append writes the first own values into the spare capacity.
Written(own) ==
  [k \in 1..Spare |-> IF k <= Len(own) THEN own[k] ELSE spare[k]]

-----------------------------------------------------------------------------
Init ==
  /\ input \in Inputs
  /\ next = 1
  /\ phase = IF input.lazy THEN "attacking" ELSE "reading"
  /\ tgts = <<>>
  /\ i = -1
  /\ spare = [k \in 1..Spare |-> 0]
  /\ pc = [h \in Hits |-> "ready"]
  /\ tgt = [h \in Hits |-> NoTarget]
  /\ handed = <<>>
  /\ made = {}

\* ReadAllTargets, one call of the targeter at a time.
ReadAllTargets ==
  LET d == Targeter(next)
  IN /\ phase = "reading"
     /\ next' = d.next
     /\ spare' = Written(d.own)
     /\ tgts' = IF d.err = "nil" THEN Append(tgts, d.tgt) ELSE tgts
     /\ phase' = CASE d.err = "nil" -> "reading"
                   [] d.err = "ErrNoTargets" /\ tgts # <<>> -> "attacking"
                   [] OTHER -> "refused"
     /\ UNCHANGED <<input, i, pc, tgt, handed, made>>

Decode(h) ==
  LET d == Targeter(next)
  IN /\ input.lazy
     /\ next' = d.next
     /\ spare' = Written(d.own)
     /\ pc' = [pc EXCEPT ![h] = IF d.err = "nil" THEN "picked" ELSE "failed"]
     /\ tgt' = [tgt EXCEPT ![h] = IF d.err = "nil" THEN d.tgt ELSE NoTarget]
     /\ handed' = IF d.err = "nil" THEN Append(handed, d.tgt.line) ELSE handed
     /\ UNCHANGED i

\* Mutant: the counter is read and written in two steps, as i++ would.
StaticTargeterNotAtomic(h) ==
  /\ ~input.lazy
  /\ \E old \in {i, i - 1} :
       LET t == tgts[((old + 1) % Len(tgts)) + 1]
       IN /\ old >= -1
          /\ i' = old + 1
          /\ pc' = [pc EXCEPT ![h] = "picked"]
          /\ tgt' = [tgt EXCEPT ![h] = t]
          /\ handed' = Append(handed, t.line)
  /\ UNCHANGED <<next, spare>>

\* The static targeter copies the next target, its map of headers included.
StaticTargeter(h) ==
  LET t == tgts[((i + 1) % Len(tgts)) + 1]
  IN /\ ~input.lazy
     /\ i' = i + 1
     /\ pc' = [pc EXCEPT ![h] = "picked"]
     /\ tgt' = [tgt EXCEPT ![h] = t]
     /\ handed' = Append(handed, t.line)
     /\ UNCHANGED <<next, spare>>

\* hit asks the targeter for a target; on an error it stops the attack.
Pick(h) ==
  /\ phase = "attacking"
  /\ pc[h] = "ready"
  /\ Decode(h) \/ StaticTargeter(h)
  /\ UNCHANGED <<input, phase, tgts, made>>

\* Target.Request copies the values of the header, without a lock.
Request(h) ==
  /\ pc[h] = "picked"
  /\ LET t == tgt[h]
         n == Len(t.header.own)
         vs == IF t.header.view THEN SubSeq(spare, 1, n) ELSE t.header.own
     IN made' = made \cup {[line |-> t.line, values |-> vs, body |-> t.body]}
  /\ pc' = [pc EXCEPT ![h] = "made"]
  /\ tgt' = [tgt EXCEPT ![h] = NoTarget]
  /\ UNCHANGED <<input, next, phase, tgts, i, spare, handed>>

\* The command ended, or every hit has built its request or failed.
Finished ==
  /\ \/ phase = "refused"
     \/ \A h \in Hits : pc[h] \in {"failed", "made"}
  /\ UNCHANGED vars

Next ==
  \/ ReadAllTargets
  \/ \E h \in Hits : Pick(h) \/ Request(h)
  \/ Finished

Spec == Init /\ [][Next]_vars

-----------------------------------------------------------------------------
(***************************************************************************)
(* What the file says by README.md and the comment of NewHTTPTargeter,     *)
(* whatever the code makes of it: comments are as if they were not there;  *)
(* a target ends at an empty line, after its body or, if nothing but       *)
(* comments follow its first line, at the next target.  The mode is where  *)
(* a reader is before each line: outside of a target, just after the line  *)
(* that starts one, or among its headers.                                  *)
(***************************************************************************)
After(m, kind) ==
  IF m = "lost" \/ kind = "broken" THEN "lost"
  ELSE IF kind = "comment" THEN m
  ELSE IF kind \in Starts /\ m # "in" THEN "fresh"
  ELSE IF m = "in" /\ kind \in {"header", "target", "badurl"} THEN "in"
  ELSE IF m = "fresh" /\ kind = "header" THEN "in"
  ELSE "out"

Mode ==
  LET mode[k \in 1..(Eof + 1)] ==
        IF k = 1 THEN "out" ELSE After(mode[k - 1], Lines[k - 1])
  IN mode

\* The line that starts the target to which line k belongs, 0 if none.
StartOf(k) ==
  IF Mode[k] \in {"out", "lost"} \/ (Mode[k] = "fresh" /\ Lines[k] \in Methods)
  THEN 0
  ELSE Max({s \in 1..(k - 1) : Lines[s] \in Starts /\ Mode[s] # "in"})

Belonging(s) == {k \in 1..Eof : StartOf(k) = s}
OwnValues(s) ==
  InOrder({k \in Belonging(s) : Lines[k] \in {"header", "target", "badurl"}})
OwnBody(s) ==
  LET bodies == {k \in Belonging(s) : Lines[k] = "body"}
  IN IF bodies = {} THEN 0 ELSE Max(bodies)

\* A line that is not what a reader expects there.
Bad(k) ==
  \/ Mode[k] = "in" /\ Lines[k] \in NoHeader
  \/ Mode[k] = "fresh" /\ Lines[k] \in {"badurl", "nourl", "bad"}
  \/ Mode[k] = "out" /\ Lines[k] \in {"badurl", "nourl", "bad", "header", "body"}

\* The targets of the file that can be decoded, and whether it has an error.
HTTPGiven ==
  {s \in 1..Eof :
     /\ Lines[s] \in Starts /\ Mode[s] \in {"out", "fresh"}
     /\ \A k \in Belonging(s) :
          ~Bad(k) /\ ~(Lines[k] = "broken" /\ Mode[k] = "in")}
HTTPWrong == \E k \in 1..Eof : Bad(k)

Readable == {k \in 1..Eof : (k < Eof \/ input.eol)
                              /\ \A j \in 1..k : Lines[j] # "broken"}
JSONGiven == {k \in Readable : Lines[k] = "target"}
JSONWrong == \/ \E k \in Readable : Lines[k] \notin {"blank", "target"}
             \/ \E k \in 1..Eof : Lines[k] = "broken"

Given == IF input.format = "json" THEN JSONGiven ELSE HTTPGiven
Wrong == IF input.format = "json" THEN JSONWrong ELSE HTTPWrong

\* ls lists the lines of S, each once and in the order of the file.
Lists(ls, S) ==
  /\ ToSet(ls) = S
  /\ \A j, k \in DOMAIN ls : j < k => ls[j] < ls[k]

\* Comments between the line of a target and the next request's are not as
\* if they were not there: the targeter goes on reading headers after them.
CommentsClear ==
  \A k \in 2..Eof : Lines[k - 1] = "comment" /\ Mode[k] = "fresh" =>
    Lines[k] \notin Methods \cup {"broken"}

(* README.md: "Lines starting with # are ignored."  Concurrent hits are    *)
(* handed the targets that the file says, each once, in its order and none *)
(* left out (-lazy, NewHTTPTargeter and NewJSONTargeter), or in turn       *)
(* (NewStaticTargeter); read eagerly, a file with an error or without a    *)
(* target is refused and any other is not.                                 *)
CommentsIgnored ==
  /\ input.lazy =>
       /\ \E n \in 1..(Eof + 1) : Lists(handed, {s \in Given : s < n})
       /\ Ended(next) => Lists(handed, Given)
  /\ ~input.lazy =>
       LET read == [k \in DOMAIN tgts |-> tgts[k].line]
       IN /\ phase = "attacking" =>
               /\ ~Wrong
               /\ Lists(read, Given)
               /\ \A n \in DOMAIN handed :
                    handed[n] = read[((n - 1) % Len(read)) + 1]
          /\ phase = "refused" => Wrong \/ Given = {}

(* The same for every file but those that CommentsClear sets apart, so for *)
(* any other place of comments, empty lines, errors and the file's end.    *)
TargetsInOrder == CommentsClear => CommentsIgnored

(* The comment of NewHTTPTargeter: the default header is merged with each  *)
(* target's.  Every request carries the header values and the body that    *)
(* the lines of its own target say, whatever other hits decode meanwhile.  *)
RequestsFaithful ==
  CommentsClear =>
    \A r \in made :
      IF input.format = "json"
      THEN r.values = <<r.line>> /\ r.body = r.line
      ELSE r.values = OwnValues(r.line) /\ r.body = OwnBody(r.line)

=============================================================================
