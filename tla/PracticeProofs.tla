--------------------------- MODULE PracticeProofs ---------------------------
(***************************************************************************)
(* For any clients, links, answers and corrections, however requests that  *)
(* hold no lock overlap or die: graduation is earned, the evidence of a    *)
(* solve is written when and as often as EvidenceOnce says, an import adds *)
(* no problem that its client has logged, whoever follows the cursors sees *)
(* every problem once, and the schedule of a problem with one writer is    *)
(* what its solves make of it.                                             *)
(***************************************************************************)
EXTENDS Practice, FiniteSetTheorems, WellFoundedInduction, TLAPS

---------------------------------------------------------------------------
\* The invariant

Columns == {"by", "imported", "url", "labels", "primary", "secondary", "status", "count",
            "stability", "due", "graduated", "solves"}
SolveColumns == {"by", "ok", "marks"}
Statuses == {"pending_classification", "active", "graduated"}

\* What the rows are made of matters only as far as they are sequences and records.
Sequence(s) == s \in Seq(Range(s))
ShapedSolve(solve) == DOMAIN solve = SolveColumns /\ solve.ok \in BOOLEAN /\ Sequence(solve.marks)
Shaped(row) ==
    /\ DOMAIN row = Columns /\ Sequence(row.solves) /\ Len(row.solves) >= 1
    /\ \A n \in DOMAIN row.solves : ShapedSolve(row.solves[n])

\* GraduationEarned of one row.
Earned(row) ==
    /\ row.status \in Statuses /\ row.count \in Nat
    /\ row.count <= Cardinality(Successes(row.solves))
    /\ row.status = "graduated" => Cardinality(Successes(row.solves)) >= GraduationSolves

\* EvidenceOnce of one row; what is not pending names the concept that evidence needs.
Evidenced(row) ==
    IF row.status = "pending_classification"
    THEN row.solves[1].marks = <<>> /\ Len(row.solves) = 1 /\ row.due = None
    ELSE /\ row.primary # NoConcept
         /\ \A n \in DOMAIN row.solves :
                IF n = 1 THEN row.solves[n].marks # <<>> ELSE Len(row.solves[n].marks) = 1
         /\ \A j, k \in DOMAIN row.solves[1].marks :
                row.solves[1].marks[j].by = row.solves[1].marks[k].by => j = k

Sound(row) == Shaped(row) /\ Earned(row) /\ Evidenced(row)

\* What a row can have become since it was read.
Became(old, row) ==
    /\ Len(old.solves) <= Len(row.solves)
    /\ \A n \in DOMAIN old.solves : row.solves[n].ok = old.solves[n].ok
    /\ IF row.status = "pending_classification"
       THEN old.status = row.status /\ old.primary = row.primary
       ELSE TRUE

\* Whether a client has evidence among the first solve's.
HasMarked(c, row) == \E k \in DOMAIN row.solves[1].marks : row.solves[1].marks[k].by = c

\* What a request relies on from what it has read.
Working(c) ==
    pc[c] \in {"resolve", "count", "review", "edit"} =>
        /\ target[c] \in DOMAIN log
        /\ Sound(loaded[c]) /\ Became(loaded[c], log[target[c]])
        /\ pc[c] = "resolve" => /\ loaded[c].status = "pending_classification"
                                /\ asked[c].primary \in Concepts
                                /\ ~HasMarked(c, log[target[c]])
        /\ pc[c] \in {"count", "review"} => loaded[c].status = "active" /\ asked[c].ok \in BOOLEAN

Typed ==
    /\ Sequence(log)
    /\ DOMAIN pc = Clients /\ DOMAIN target = Clients /\ DOMAIN loaded = Clients /\ DOMAIN asked = Clients

IInv ==
    /\ Typed
    /\ \A p \in DOMAIN log : Sound(log[p])
    /\ \A c \in Clients : Working(c)

---------------------------------------------------------------------------
\* Sequences whose elements have no type

\* Appending to a sequence keeps what it has and adds one element.
LEMMA Appended ==
  ASSUME NEW s, Sequence(s), NEW e
  PROVE  /\ Sequence(Append(s, e)) /\ Len(s) \in Nat /\ DOMAIN s = 1 .. Len(s)
         /\ Len(Append(s, e)) = Len(s) + 1 /\ DOMAIN Append(s, e) = 1 .. Len(s) + 1
         /\ \A n \in DOMAIN s : Append(s, e)[n] = s[n]
         /\ Append(s, e)[Len(s) + 1] = e
  <1> DEFINE t == Append(s, e)
  <1>1. s \in Seq(Range(s) \cup {e})
    BY DEF Sequence
  <1>2. /\ t \in Seq(Range(s) \cup {e}) /\ Len(s) \in Nat /\ DOMAIN s = 1 .. Len(s)
        /\ Len(t) = Len(s) + 1 /\ DOMAIN t = 1 .. Len(s) + 1
        /\ \A n \in DOMAIN s : t[n] = s[n]
        /\ t[Len(s) + 1] = e
    BY <1>1
  <1>3. \A n \in 1 .. Len(t) : t[n] \in Range(t)
    BY <1>2 DEF Range
  <1>4. Sequence(t)
    BY <1>2, <1>3 DEF Sequence
  <1>5. QED
    BY <1>2, <1>4

\* Replacing an element keeps the others.
LEMMA Replaced ==
  ASSUME NEW s, Sequence(s), NEW n \in DOMAIN s, NEW e
  PROVE  LET t == [s EXCEPT ![n] = e]
         IN  /\ Sequence(t) /\ Len(t) = Len(s) /\ DOMAIN t = DOMAIN s
             /\ t[n] = e /\ \A k \in DOMAIN s : k # n => t[k] = s[k]
  <1> DEFINE t == [s EXCEPT ![n] = e]
  <1>1. DOMAIN s = 1 .. Len(s) /\ Len(s) \in Nat /\ \A k \in 1 .. Len(s) : s[k] \in Range(s)
    BY DEF Sequence
  <1>2. t \in Seq(Range(s) \cup {e}) /\ Len(t) = Len(s) /\ DOMAIN t = DOMAIN s
        /\ t[n] = e /\ \A k \in DOMAIN s : k # n => t[k] = s[k]
    BY <1>1 DEF Sequence
  <1>3. \A k \in 1 .. Len(t) : t[k] \in Range(t)
    BY <1>1, <1>2 DEF Range
  <1> HIDE DEF t
  <1>4. Sequence(t)
    BY <1>2, <1>3 DEF Sequence
  <1>5. QED
    BY <1>2, <1>4 DEF t

\* A list of one element.
LEMMA Single ==
  ASSUME NEW e
  PROVE  Sequence(<<e>>) /\ Len(<<e>>) = 1 /\ DOMAIN <<e>> = {1} /\ <<e>>[1] = e
  BY DEF Sequence, Range

\* A list of none.
LEMMA Empty == Sequence(<<>>) /\ Len(<<>>) = 0 /\ DOMAIN <<>> = {}
  BY DEF Sequence, Range

---------------------------------------------------------------------------
\* What a step may do to a row

\* A row has become what it is.
LEMMA BecameItself == ASSUME NEW row PROVE Became(row, row)
  BY DEF Became

\* What a later row has become, the earlier one has.
LEMMA BecameOnward ==
  ASSUME NEW a, NEW b, NEW d, Shaped(a), Shaped(b), Shaped(d), Became(a, b), Became(b, d)
  PROVE  Became(a, d)
  <1>1. /\ DOMAIN a.solves = 1 .. Len(a.solves) /\ Len(a.solves) \in Nat
        /\ DOMAIN b.solves = 1 .. Len(b.solves) /\ Len(b.solves) \in Nat
        /\ Len(d.solves) \in Nat
    BY DEF Shaped, Sequence
  <1>2. QED
    BY <1>1 DEF Became

\* The successes of a list of solves are finitely many.
LEMMA SuccessesFinite ==
  ASSUME NEW row, Shaped(row)
  PROVE  IsFiniteSet(Successes(row.solves)) /\ Cardinality(Successes(row.solves)) \in Nat
  <1>1. DOMAIN row.solves = 1 .. Len(row.solves) /\ Len(row.solves) \in Nat
    BY DEF Shaped, Sequence
  <1>2. IsFiniteSet(1 .. Len(row.solves))
    BY <1>1, FS_Interval
  <1>3. Successes(row.solves) \subseteq 1 .. Len(row.solves)
    BY <1>1 DEF Successes
  <1>4. QED
    BY <1>2, <1>3, FS_Subset, FS_CardinalityType

\* A row keeps the successes it had.
LEMMA SuccessesKept ==
  ASSUME NEW old, NEW row, Shaped(old), Shaped(row), Became(old, row)
  PROVE  /\ Successes(old.solves) \subseteq Successes(row.solves)
         /\ Cardinality(Successes(old.solves)) <= Cardinality(Successes(row.solves))
  <1>1. /\ DOMAIN old.solves = 1 .. Len(old.solves) /\ Len(old.solves) \in Nat
        /\ DOMAIN row.solves = 1 .. Len(row.solves) /\ Len(row.solves) \in Nat
    BY DEF Shaped, Sequence
  <1>2. Successes(old.solves) \subseteq Successes(row.solves)
    BY <1>1 DEF Successes, Became
  <1>3. QED
    BY <1>2, SuccessesFinite, FS_Subset

---------------------------------------------------------------------------
\* Rows, column by column

\* What an update leaves in each column.
LEMMA Updated ==
  ASSUME NEW row, NEW old, NEW new, DOMAIN row = Columns
  PROVE  LET made == Update(row, old, new)
         IN  /\ DOMAIN made = Columns
             /\ made.primary = IF new.primary # old.primary THEN new.primary ELSE row.primary
             /\ made.status = IF new.status # old.status THEN new.status ELSE row.status
             /\ made.count = IF new.count # old.count THEN new.count ELSE row.count
             /\ made.due = IF new.due # old.due THEN new.due ELSE row.due
             /\ made.solves = IF new.solves # old.solves THEN new.solves ELSE row.solves
  BY DEF Update, Columns

\* Writing the solves of a row leaves its other columns.
LEMMA SolvesWritten ==
  ASSUME NEW row, NEW solves, DOMAIN row = Columns
  PROVE  LET made == [row EXCEPT !.solves = solves]
         IN  /\ DOMAIN made = Columns /\ made.solves = solves
             /\ made.primary = row.primary /\ made.status = row.status
             /\ made.count = row.count /\ made.due = row.due
  BY DEF Columns

\* The mark of a solve of a classified problem.
LEMMA OneMark ==
  ASSUME NEW c, NEW row, row.primary # NoConcept
  PROVE  \E mark : mark.by = c /\ MarkOf(c, row) = <<mark>>
  <1> DEFINE mark == [by |-> c, concepts |-> <<row.primary>> \o row.secondary]
  <1>1. mark.by = c
    OBVIOUS
  <1>2. MarkOf(c, row) = <<mark>>
    BY DEF MarkOf
  <1> HIDE DEF mark
  <1>3. QED
    BY <1>1, <1>2

\* Concatenating one element is appending it.
LEMMA Concatenated ==
  ASSUME NEW s, Sequence(s), NEW e
  PROVE  s \o <<e>> = Append(s, e)
  <1>1. s \in Seq(Range(s) \cup {e}) /\ <<e>> \in Seq(Range(s) \cup {e})
    BY DEF Sequence
  <1>2. QED
    BY <1>1

---------------------------------------------------------------------------
\* What each request makes of a row

\* A problem that is logged is sound: it has evidence exactly if it starts active.
LEMMA LoggedSound ==
  ASSUME NEW c, NEW url, NEW proposal, NEW imported
  PROVE  Sound(Logged(c, url, proposal, imported))
  <1> DEFINE accepted == AutoAccepted(proposal) /\ ~imported
             bare == [by |-> c, imported |-> imported, url |-> url, labels |-> <<>>,
                      primary |-> proposal.primary, secondary |-> proposal.secondary,
                      status |-> IF accepted THEN "active" ELSE "pending_classification",
                      count |-> 1,
                      stability |-> IF accepted THEN Initial ELSE None,
                      due |-> IF accepted THEN 0 ELSE None,
                      graduated |-> None, solves |-> <<>>]
             marks == IF accepted THEN MarkOf(c, bare) ELSE <<>>
             solve == [by |-> c, ok |-> TRUE, marks |-> marks]
             row == [bare EXCEPT !.solves = <<solve>>]
  <1>1. Logged(c, url, proposal, imported) = row
    BY DEF Logged
  <1>2. /\ DOMAIN row = Columns /\ row.solves = <<solve>> /\ row.primary = proposal.primary
        /\ row.status = IF accepted THEN "active" ELSE "pending_classification"
        /\ row.due = IF accepted THEN 0 ELSE None
        /\ row.count = 1
        /\ bare.primary = proposal.primary
    BY DEF Columns
  <1>3. DOMAIN solve = SolveColumns /\ solve.ok = TRUE /\ solve.marks = marks
    BY DEF SolveColumns
  <1>4. accepted => proposal.primary # NoConcept
    BY DEF AutoAccepted
  <1>5. accepted => \E mark : mark.by = c /\ marks = <<mark>>
    <2> HIDE DEF bare
    <2> QED
      BY <1>2, <1>4, OneMark
  <1>6. ~accepted => marks = <<>>
    OBVIOUS
  <1> HIDE DEF accepted, bare, marks, solve, row
  <1>7. Sequence(marks)
    BY <1>5, <1>6, Single, Empty
  <1>8. Sequence(row.solves) /\ Len(row.solves) = 1 /\ DOMAIN row.solves = {1} /\ row.solves[1] = solve
    BY <1>2, Single
  <1>9. Shaped(row)
    <2>1. \A n \in DOMAIN row.solves : row.solves[n] = solve
      BY <1>8
    <2>2. ShapedSolve(solve)
      BY <1>3, <1>7 DEF ShapedSolve
    <2>3. QED
      BY <1>2, <1>8, <2>1, <2>2 DEF Shaped
  <1>10. Successes(row.solves) = {1}
    BY <1>3, <1>8 DEF Successes
  <1>11. Earned(row)
    BY <1>2, <1>10, FS_Singleton DEF Earned, Statuses
  <1>12. Evidenced(row)
    <2>1. CASE accepted
      <3>1. PICK mark : marks = <<mark>>
        BY <1>5, <2>1
      <3>2. DOMAIN row.solves[1].marks = {1} /\ row.solves[1].marks # <<>>
        BY <1>3, <1>8, <3>1, Single
      <3>3. QED
        BY <1>2, <1>4, <1>8, <2>1, <3>2 DEF Evidenced
    <2>2. CASE ~accepted
      BY <1>2, <1>3, <1>6, <1>8, <2>2 DEF Evidenced
    <2>3. QED
      BY <2>1, <2>2
  <1>13. QED
    BY <1>1, <1>9, <1>11, <1>12 DEF Sound

\* A row that becomes active or stays so, whose solves are the same except for one more mark
\* of the first, by a client that has none there.
LEMMA ResolvedSound ==
  ASSUME NEW c, NEW row, Sound(row), ~HasMarked(c, row),
         NEW mark, mark.by = c,
         NEW made, DOMAIN made = Columns, made.primary # NoConcept,
         made.status \in {"active", "graduated"},
         made.status = "graduated" => row.status = "graduated",
         made.count = row.count,
         made.solves = WithMark(row.solves, 1, <<mark>>)
  PROVE  /\ Sound(made) /\ Became(row, made)
         /\ \A d : HasMarked(d, made) => HasMarked(d, row) \/ d = c
  <1> DEFINE before == row.solves
             marks == before[1].marks \o <<mark>>
             first == [before[1] EXCEPT !.marks = marks]
  <1>1. /\ Sequence(before) /\ Len(before) \in Nat /\ Len(before) >= 1
        /\ DOMAIN before = 1 .. Len(before) /\ 1 \in DOMAIN before
        /\ DOMAIN before[1] = SolveColumns /\ Sequence(before[1].marks)
    BY DEF Sound, Shaped, ShapedSolve, Sequence
  <1>2. DOMAIN first = SolveColumns /\ first.ok = before[1].ok /\ first.marks = marks
    BY <1>1 DEF SolveColumns
  <1>3. /\ Sequence(marks) /\ Len(before[1].marks) \in Nat
        /\ DOMAIN before[1].marks = 1 .. Len(before[1].marks)
        /\ DOMAIN marks = 1 .. Len(before[1].marks) + 1
        /\ \A k \in DOMAIN before[1].marks : marks[k] = before[1].marks[k]
        /\ marks[Len(before[1].marks) + 1] = mark
        /\ marks # <<>>
    <2>1. marks = Append(before[1].marks, mark)
      BY <1>1, Concatenated
    <2> HIDE DEF before, marks
    <2>2. /\ Sequence(marks) /\ Len(before[1].marks) \in Nat
          /\ DOMAIN before[1].marks = 1 .. Len(before[1].marks)
          /\ DOMAIN marks = 1 .. Len(before[1].marks) + 1
          /\ \A k \in DOMAIN before[1].marks : marks[k] = before[1].marks[k]
          /\ marks[Len(before[1].marks) + 1] = mark
      BY <1>1, <2>1, Appended
    <2>3. marks # <<>>
      BY <2>2, Empty
    <2>4. QED
      BY <2>2, <2>3
  <1>4. made.solves = [before EXCEPT ![1] = first]
    BY DEF WithMark
  <1> HIDE DEF before, marks, first
  <1>5. /\ Sequence(made.solves) /\ Len(made.solves) = Len(before) /\ DOMAIN made.solves = DOMAIN before
        /\ made.solves[1] = first
        /\ \A n \in DOMAIN before : n # 1 => made.solves[n] = before[n]
    <2> DEFINE after == [before EXCEPT ![1] = first]
    <2>1. /\ Sequence(after) /\ Len(after) = Len(before) /\ DOMAIN after = DOMAIN before
          /\ after[1] = first /\ \A n \in DOMAIN before : n # 1 => after[n] = before[n]
      BY <1>1, Replaced
    <2> HIDE DEF after
    <2>2. made.solves = after
      BY <1>4 DEF after
    <2>3. QED
      BY <2>1, <2>2
  <1>6. \A n \in DOMAIN before : made.solves[n].ok = before[n].ok
    BY <1>2, <1>5
  <1>7. Shaped(made)
    <2>1. \A n \in DOMAIN before : ShapedSolve(made.solves[n])
      BY <1>1, <1>2, <1>3, <1>5 DEF Sound, Shaped, ShapedSolve, before
    <2>2. QED
      BY <1>1, <1>5, <2>1 DEF Shaped
  <1>8. Became(row, made)
    BY <1>1, <1>5, <1>6 DEF Became, before
  <1>9. Earned(made)
    <2>1. Shaped(row) /\ Earned(row)
      BY DEF Sound
    <2>2. /\ Cardinality(Successes(row.solves)) \in Nat /\ Cardinality(Successes(made.solves)) \in Nat
          /\ Cardinality(Successes(row.solves)) <= Cardinality(Successes(made.solves))
      BY <1>7, <1>8, <2>1, SuccessesKept, SuccessesFinite
    <2>3. QED
      BY <2>1, <2>2, PracticeAssumption DEF Earned, Statuses
  <1>10. \A k \in 1 .. Len(before[1].marks) : before[1].marks[k].by # c
    BY <1>3 DEF HasMarked, before
  <1>11. Evidenced(made)
    <2>1. \A n \in DOMAIN before : n # 1 => Len(before[n].marks) = 1
      <3>1. CASE row.status = "pending_classification"
        BY <1>1, <3>1 DEF Sound, Evidenced, before
      <3>2. CASE row.status # "pending_classification"
        BY <3>2 DEF Sound, Evidenced, before
      <3>3. QED
        BY <3>1, <3>2
    <2>2. \A j, k \in DOMAIN before[1].marks : before[1].marks[j].by = before[1].marks[k].by => j = k
      <3>1. CASE row.status = "pending_classification"
        BY <3>1, Empty DEF Sound, Evidenced, before
      <3>2. CASE row.status # "pending_classification"
        BY <3>2 DEF Sound, Evidenced, before
      <3>3. QED
        BY <3>1, <3>2
    <2>3. \A j, k \in DOMAIN marks : marks[j].by = marks[k].by => j = k
      <3>1. SUFFICES ASSUME NEW j \in DOMAIN marks, NEW k \in DOMAIN marks, marks[j].by = marks[k].by
                     PROVE  j = k
        OBVIOUS
      <3>2. \A i \in DOMAIN marks : IF i = Len(before[1].marks) + 1 THEN marks[i].by = c
                                    ELSE /\ i \in DOMAIN before[1].marks
                                         /\ marks[i] = before[1].marks[i] /\ marks[i].by # c
        BY <1>3, <1>10
      <3>3. QED
        BY <2>2, <3>1, <3>2
    <2>4. Len(made.solves) = Len(before) /\ made.solves[1].marks = marks
      BY <1>2, <1>5
    <2>5. \A n \in DOMAIN made.solves :
            IF n = 1 THEN made.solves[n].marks # <<>> ELSE Len(made.solves[n].marks) = 1
      BY <1>3, <1>5, <2>1, <2>4
    <2>6. made.status # "pending_classification"
      OBVIOUS
    <2>7. QED
      BY <2>3, <2>4, <2>5, <2>6 DEF Evidenced
  <1>12. \A d : HasMarked(d, made) => HasMarked(d, row) \/ d = c
    <2>1. made.solves[1].marks = marks
      BY <1>2, <1>5
    <2>2. \A k \in DOMAIN marks : marks[k].by = c \/
            (k \in DOMAIN before[1].marks /\ marks[k] = before[1].marks[k])
      BY <1>3
    <2>3. QED
      BY <2>1, <2>2 DEF HasMarked, before
  <1>13. QED
    BY <1>7, <1>8, <1>9, <1>11, <1>12 DEF Sound

\* A confirmation makes a sound row of the one it finds, whatever it has read.
LEMMA ConfirmedSound ==
  ASSUME NEW c, NEW correction, correction.primary \in Concepts,
         NEW old, NEW row, Sound(old), Sound(row), Became(old, row), ~HasMarked(c, row),
         old.status = "pending_classification"
  PROVE  LET new == [old EXCEPT !.primary = correction.primary, !.status = "active",
                         !.secondary = Besides(correction), !.stability = Initial, !.due = 0]
             made == [Update(row, old, new) EXCEPT
                         !.solves = WithMark(row.solves, 1, MarkOf(c, new))]
         IN  /\ Sound(made) /\ Became(row, made)
             /\ \A d : HasMarked(d, made) => HasMarked(d, row) \/ d = c
  <1> DEFINE new == [old EXCEPT !.primary = correction.primary, !.status = "active",
                         !.secondary = Besides(correction), !.stability = Initial, !.due = 0]
             updated == Update(row, old, new)
             made == [updated EXCEPT !.solves = WithMark(row.solves, 1, MarkOf(c, new))]
  <1>1. /\ DOMAIN old = Columns /\ DOMAIN row = Columns
        /\ row.status \in Statuses /\ correction.primary # NoConcept
    BY ClassificationAssumption DEF Sound, Shaped, Earned
  <1>2. /\ new.primary = correction.primary /\ new.status = "active"
        /\ new.count = old.count /\ new.solves = old.solves
    BY <1>1 DEF Columns
  <1> HIDE DEF new
  <1>3. /\ DOMAIN updated = Columns
        /\ updated.primary = IF correction.primary # old.primary THEN correction.primary ELSE row.primary
        /\ updated.status = "active" /\ updated.count = row.count
    BY <1>1, <1>2, Updated
  <1>4. updated.primary # NoConcept
    <2>1. CASE row.status = "pending_classification"
      BY <1>1, <1>3, <2>1 DEF Became
    <2>2. CASE row.status # "pending_classification"
      BY <1>1, <1>3, <2>2 DEF Sound, Evidenced
    <2>3. QED
      BY <2>1, <2>2
  <1> HIDE DEF updated
  <1>5. PICK mark : mark.by = c /\ MarkOf(c, new) = <<mark>>
    BY <1>1, <1>2, OneMark
  <1>6. /\ DOMAIN made = Columns /\ made.primary # NoConcept /\ made.status = "active"
        /\ made.count = row.count /\ made.solves = WithMark(row.solves, 1, <<mark>>)
    BY <1>3, <1>4, <1>5, SolvesWritten
  <1> HIDE DEF made
  <1>7. Sound(made) /\ Became(row, made) /\ \A d : HasMarked(d, made) => HasMarked(d, row) \/ d = c
    BY <1>5, <1>6, ResolvedSound
  <1>8. QED
    BY <1>7 DEF made, updated, new

\* An edit of the labels leaves a sound row sound.
LEMMA EditedSound ==
  ASSUME NEW c, NEW labels, NEW old, NEW row, Sound(old), Sound(row)
  PROVE  LET made == Update(row, old, [old EXCEPT !.labels = labels])
         IN  /\ Sound(made) /\ Became(row, made)
             /\ \A d : HasMarked(d, made) => HasMarked(d, row) \/ d = c
  <1> DEFINE new == [old EXCEPT !.labels = labels]
             made == Update(row, old, new)
  <1>1. DOMAIN old = Columns /\ DOMAIN row = Columns
    BY DEF Sound, Shaped
  <1>2. /\ new.primary = old.primary /\ new.status = old.status /\ new.count = old.count
        /\ new.due = old.due /\ new.solves = old.solves
    BY <1>1 DEF Columns
  <1> HIDE DEF new
  <1>3. /\ DOMAIN made = Columns
        /\ made.primary = row.primary /\ made.status = row.status /\ made.count = row.count
        /\ made.due = row.due /\ made.solves = row.solves
    BY <1>1, <1>2, Updated
  <1> HIDE DEF made
  <1>4. Shaped(made) /\ Earned(made) /\ Evidenced(made)
    BY <1>3 DEF Sound, Shaped, Earned, Evidenced
  <1>5. Became(row, made)
    BY <1>3 DEF Became
  <1>6. \A d : HasMarked(d, made) => HasMarked(d, row)
    BY <1>3 DEF HasMarked
  <1>7. QED
    BY <1>4, <1>5, <1>6 DEF Sound, made, new

\* What a review makes of the row it has read.
LEMMA ReviewedColumns ==
  ASSUME NEW row, DOMAIN row = Columns, row.count \in Nat, NEW n, NEW ok \in BOOLEAN
  PROVE  LET new == Reviewed(row, n, ok)
         IN  /\ new.solves = row.solves /\ new.primary = row.primary
             /\ new.count = IF ok THEN row.count + 1 ELSE row.count
             /\ new.status = IF ok /\ row.count + 1 >= GraduationSolves THEN "graduated" ELSE row.status
  <1>1. CASE ok
    <2>1. CASE row.count + 1 >= GraduationSolves
      BY <1>1, <2>1 DEF Reviewed, Columns
    <2>2. CASE ~(row.count + 1 >= GraduationSolves)
      BY <1>1, <2>2 DEF Reviewed, Columns
    <2>3. QED
      BY <2>1, <2>2
  <1>2. CASE ~ok
    BY <1>2 DEF Reviewed, Columns
  <1>3. QED
    BY <1>1, <1>2

\* What a row has when its solves are those of another and one more.
OneMore(made, row, solve) == DOMAIN made = Columns /\ made.solves = Append(row.solves, solve)
Lengthened(made, row, solve) ==
    /\ Shaped(made)
    /\ Len(made.solves) = Len(row.solves) + 1 /\ Len(row.solves) \in Nat
    /\ DOMAIN row.solves = 1 .. Len(row.solves) /\ DOMAIN made.solves = 1 .. Len(row.solves) + 1
    /\ \A n \in DOMAIN row.solves : made.solves[n] = row.solves[n]
    /\ made.solves[Len(row.solves) + 1] = solve
    /\ Cardinality(Successes(row.solves)) \in Nat
    /\ solve.ok = TRUE =>
           Cardinality(Successes(made.solves)) = Cardinality(Successes(row.solves)) + 1
    /\ solve.ok = FALSE =>
           Cardinality(Successes(made.solves)) = Cardinality(Successes(row.solves))

\* A list of solves with one more, and its successes.
LEMMA OneMoreSolve ==
  ASSUME NEW row, Shaped(row), NEW solve, ShapedSolve(solve), NEW made, OneMore(made, row, solve)
  PROVE  Lengthened(made, row, solve)
  <1>1. /\ Sequence(made.solves)
        /\ Len(made.solves) = Len(row.solves) + 1 /\ Len(row.solves) \in Nat
        /\ DOMAIN row.solves = 1 .. Len(row.solves) /\ DOMAIN made.solves = 1 .. Len(row.solves) + 1
        /\ \A n \in DOMAIN row.solves : made.solves[n] = row.solves[n]
        /\ made.solves[Len(row.solves) + 1] = solve
    BY Appended DEF Shaped, OneMore
  <1>2. Shaped(made)
    <2>1. \A n \in DOMAIN made.solves : n \in DOMAIN row.solves \/ n = Len(row.solves) + 1
      BY <1>1
    <2>2. \A n \in DOMAIN made.solves : ShapedSolve(made.solves[n])
      BY <1>1, <2>1 DEF Shaped
    <2>3. Len(made.solves) >= 1
      BY <1>1
    <2>4. QED
      BY <1>1, <2>2, <2>3 DEF Shaped, OneMore
  <1>3. IsFiniteSet(Successes(row.solves)) /\ Cardinality(Successes(row.solves)) \in Nat
    BY SuccessesFinite
  <1>4. Len(row.solves) + 1 \notin Successes(row.solves)
    BY <1>1 DEF Successes
  <1>5. Successes(made.solves) =
            IF solve.ok THEN Successes(row.solves) \cup {Len(row.solves) + 1} ELSE Successes(row.solves)
    BY <1>1 DEF Successes
  <1>6. solve.ok = TRUE =>
            Cardinality(Successes(made.solves)) = Cardinality(Successes(row.solves)) + 1
    BY <1>3, <1>4, <1>5, FS_AddElement
  <1>7. solve.ok = FALSE =>
            Cardinality(Successes(made.solves)) = Cardinality(Successes(row.solves))
    BY <1>3, <1>5
  <1>8. QED
    BY <1>1, <1>2, <1>3, <1>6, <1>7 DEF Lengthened

\* A review makes a sound row of the one it finds, whatever it has read.
LEMMA ReviewedSound ==
  ASSUME NEW c, NEW n, NEW ok \in BOOLEAN,
         NEW old, NEW row, Sound(old), Sound(row), Became(old, row), old.status = "active"
  PROVE  LET solve == [by |-> c, ok |-> ok, marks |-> MarkOf(c, old)]
             made == [Update(row, old, Reviewed(old, n, ok)) EXCEPT
                         !.solves = Append(row.solves, solve)]
         IN  /\ Sound(made) /\ Became(row, made)
             /\ \A d : HasMarked(d, made) => HasMarked(d, row) \/ d = c
  <1> DEFINE solve == [by |-> c, ok |-> ok, marks |-> MarkOf(c, old)]
             new == Reviewed(old, n, ok)
             updated == Update(row, old, new)
             made == [updated EXCEPT !.solves = Append(row.solves, solve)]
  <1>1. /\ Shaped(old) /\ Earned(old) /\ Shaped(row) /\ Earned(row)
        /\ DOMAIN old = Columns /\ DOMAIN row = Columns
        /\ old.count \in Nat /\ row.count \in Nat
        /\ row.status \in {"active", "graduated"} /\ row.primary # NoConcept /\ old.primary # NoConcept
    BY DEF Sound, Shaped, Earned, Evidenced, Statuses, Became
  <1>2. /\ new.primary = old.primary
        /\ new.count = IF ok THEN old.count + 1 ELSE old.count
        /\ new.status = IF ok /\ old.count + 1 >= GraduationSolves THEN "graduated" ELSE old.status
    BY <1>1, ReviewedColumns
  <1> HIDE DEF new
  <1>3. /\ DOMAIN updated = Columns /\ updated.primary = row.primary
        /\ updated.count = IF ok THEN old.count + 1 ELSE row.count
        /\ updated.status = IF ok /\ old.count + 1 >= GraduationSolves THEN "graduated" ELSE row.status
    BY <1>1, <1>2, Updated, PracticeAssumption
  <1> HIDE DEF updated
  <1>4. /\ DOMAIN made = Columns /\ made.primary = row.primary
        /\ made.count = IF ok THEN old.count + 1 ELSE row.count
        /\ made.status = IF ok /\ old.count + 1 >= GraduationSolves THEN "graduated" ELSE row.status
        /\ made.solves = Append(row.solves, solve)
    BY <1>3, SolvesWritten
  <1>5. PICK mark : MarkOf(c, old) = <<mark>>
    BY <1>1, OneMark
  <1>6. /\ DOMAIN solve = SolveColumns /\ solve.ok = ok /\ solve.ok \in BOOLEAN
        /\ Sequence(solve.marks) /\ Len(solve.marks) = 1
    BY <1>5, Single DEF SolveColumns
  <1> HIDE DEF solve, made
  <1>7. /\ Shaped(made)
        /\ Len(made.solves) = Len(row.solves) + 1 /\ Len(row.solves) \in Nat
        /\ DOMAIN row.solves = 1 .. Len(row.solves) /\ DOMAIN made.solves = 1 .. Len(row.solves) + 1
        /\ \A k \in DOMAIN row.solves : made.solves[k] = row.solves[k]
        /\ made.solves[Len(row.solves) + 1] = solve
        /\ Cardinality(Successes(row.solves)) \in Nat
        /\ ok => Cardinality(Successes(made.solves)) = Cardinality(Successes(row.solves)) + 1
        /\ ~ok => Cardinality(Successes(made.solves)) = Cardinality(Successes(row.solves))
    <2>1. /\ ShapedSolve(solve) /\ Shaped(row) /\ OneMore(made, row, solve)
      BY <1>1, <1>4, <1>6 DEF ShapedSolve, OneMore
    <2>2. Lengthened(made, row, solve)
      BY <2>1, OneMoreSolve
    <2>3. (ok => solve.ok = TRUE) /\ (~ok => solve.ok = FALSE)
      BY <1>6
    <2>4. QED
      BY <2>2, <2>3 DEF Lengthened
  <1>8. Len(row.solves) >= 1
    BY <1>1 DEF Shaped
  <1>9. Became(row, made)
    BY <1>1, <1>4, <1>7 DEF Became
  <1>10. Earned(made)
    <2>1. /\ old.count <= Cardinality(Successes(old.solves))
          /\ Cardinality(Successes(old.solves)) \in Nat
          /\ Cardinality(Successes(old.solves)) <= Cardinality(Successes(row.solves))
          /\ row.count <= Cardinality(Successes(row.solves))
          /\ row.status = "graduated" => Cardinality(Successes(row.solves)) >= GraduationSolves
      BY <1>1, SuccessesKept, SuccessesFinite DEF Earned
    <2>2. made.status \in Statuses /\ made.count \in Nat
      BY <1>1, <1>4 DEF Statuses
    <2>3. made.count <= Cardinality(Successes(made.solves))
      BY <1>1, <1>4, <1>7, <2>1
    <2>4. made.status = "graduated" => Cardinality(Successes(made.solves)) >= GraduationSolves
      BY <1>1, <1>4, <1>7, <2>1, PracticeAssumption
    <2>5. QED
      BY <2>2, <2>3, <2>4 DEF Earned
  <1>11. Evidenced(made)
    <2>1. made.status # "pending_classification" /\ made.primary # NoConcept
      BY <1>1, <1>4
    <2>2. made.solves[1] = row.solves[1]
      BY <1>7, <1>8
    <2>3. /\ \A k \in DOMAIN row.solves :
                 IF k = 1 THEN row.solves[k].marks # <<>> ELSE Len(row.solves[k].marks) = 1
          /\ \A i, j \in DOMAIN row.solves[1].marks :
                 row.solves[1].marks[i].by = row.solves[1].marks[j].by => i = j
      BY <1>1 DEF Sound, Evidenced
    <2>4. \A k \in DOMAIN made.solves :
            IF k = 1 THEN made.solves[k].marks # <<>> ELSE Len(made.solves[k].marks) = 1
      <3>1. \A k \in DOMAIN made.solves :
              (k \in DOMAIN row.solves /\ made.solves[k] = row.solves[k])
                  \/ (k # 1 /\ made.solves[k] = solve)
        BY <1>7, <1>8
      <3>2. QED
        BY <1>6, <2>3, <3>1
    <2>5. QED
      BY <2>1, <2>2, <2>3, <2>4 DEF Evidenced
  <1>12. \A d : HasMarked(d, made) => HasMarked(d, row)
    <2>1. made.solves[1] = row.solves[1]
      BY <1>7, <1>8
    <2>2. QED
      BY <2>1 DEF HasMarked
  <1>13. QED
    BY <1>1, <1>7, <1>9, <1>10, <1>11, <1>12 DEF Sound, made, updated, new, solve

---------------------------------------------------------------------------
\* What a step may do to the log

\* Another client goes on with what it has: its row has only become a later one.
LEMMA OthersWork ==
  ASSUME IInv, NEW d \in Clients,
         pc'[d] = pc[d], target'[d] = target[d], loaded'[d] = loaded[d], asked'[d] = asked[d],
         DOMAIN log \subseteq DOMAIN log',
         \A p \in DOMAIN log : /\ Sound(log[p]) /\ Sound(log'[p]) /\ Became(log[p], log'[p])
                               /\ HasMarked(d, log'[p]) => HasMarked(d, log[p])
  PROVE  Working(d)'
  <1>1. CASE pc[d] \in {"resolve", "count", "review", "edit"}
    <2> DEFINE p == target[d]
    <2>1. Working(d)
      BY DEF IInv
    <2>2. p \in DOMAIN log /\ Sound(loaded[d]) /\ Became(loaded[d], log[p])
      BY <1>1, <2>1 DEF Working
    <2>3. Became(loaded[d], log'[p])
      BY <2>2, BecameOnward DEF Sound
    <2>4. QED
      BY <1>1, <2>1, <2>2, <2>3 DEF Working
  <1>2. CASE pc[d] \notin {"resolve", "count", "review", "edit"}
    BY <1>2 DEF Working
  <1>3. QED
    BY <1>1, <1>2

\* A client that has finished relies on nothing.
LEMMA FinishedClient ==
  ASSUME IInv, NEW c \in Clients, Finish(c)
  PROVE  /\ Working(c)'
         /\ DOMAIN pc' = Clients /\ DOMAIN target' = Clients
         /\ DOMAIN loaded' = Clients /\ DOMAIN asked' = Clients
         /\ \A d \in Clients \ {c} : /\ pc'[d] = pc[d] /\ target'[d] = target[d]
                                     /\ loaded'[d] = loaded[d] /\ asked'[d] = asked[d]
  <1>1. pc'[c] = "idle"
    BY DEF IInv, Typed, Finish
  <1>2. Working(c)'
    BY <1>1 DEF Working
  <1>3. QED
    BY <1>2 DEF IInv, Typed, Finish

\* A request that writes one row and is over.
LEMMA RowStep ==
  ASSUME IInv, NEW c \in Clients, NEW p \in DOMAIN log, NEW made, Sound(made), Became(log[p], made),
         \A d : HasMarked(d, made) => HasMarked(d, log[p]) \/ d = c,
         log' = [log EXCEPT ![p] = made], Finish(c)
  PROVE  IInv'
  <1> DEFINE after == [log EXCEPT ![p] = made]
  <1>1. /\ Sequence(after) /\ DOMAIN after = DOMAIN log
        /\ after[p] = made /\ \A q \in DOMAIN log : q # p => after[q] = log[q]
    BY Replaced DEF IInv, Typed
  <1>2. log' = after
    OBVIOUS
  <1> HIDE DEF after
  <1>3. /\ Sequence(log') /\ DOMAIN log' = DOMAIN log
        /\ log'[p] = made /\ \A q \in DOMAIN log : q # p => log'[q] = log[q]
    BY <1>1, <1>2
  <1>4. \A q \in DOMAIN log : Sound(log[q]) /\ Sound(log'[q]) /\ Became(log[q], log'[q])
    BY <1>3, BecameItself DEF IInv
  <1>5. \A d \in Clients \ {c} : Working(d)'
    <2>1. SUFFICES ASSUME NEW d \in Clients, d # c PROVE Working(d)'
      OBVIOUS
    <2>2. \A q \in DOMAIN log : HasMarked(d, log'[q]) => HasMarked(d, log[q])
      BY <1>3, <2>1
    <2>3. QED
      BY <1>3, <1>4, <2>1, <2>2, FinishedClient, OthersWork
  <1>6. QED
    BY <1>3, <1>4, <1>5, FinishedClient DEF IInv, Typed

\* A request that adds a row, and goes on or not.
LEMMA AppendStep ==
  ASSUME IInv, NEW row, Sound(row), log' = Append(log, row), UNCHANGED <<pc, target, loaded, asked>>
  PROVE  IInv'
  <1>1. /\ Sequence(log') /\ Len(log) \in Nat /\ DOMAIN log = 1 .. Len(log)
        /\ DOMAIN log' = 1 .. Len(log) + 1
        /\ \A p \in DOMAIN log : log'[p] = log[p]
        /\ log'[Len(log) + 1] = row
    BY Appended DEF IInv, Typed
  <1>2. \A p \in DOMAIN log' : Sound(log'[p])
    <2>1. \A p \in DOMAIN log' : p \in DOMAIN log \/ p = Len(log) + 1
      BY <1>1
    <2>2. QED
      BY <1>1, <2>1 DEF IInv
  <1>3. DOMAIN log \subseteq DOMAIN log'
    BY <1>1
  <1>4. \A d \in Clients : Working(d)'
    BY <1>1, <1>2, <1>3, BecameItself, OthersWork DEF IInv
  <1>5. QED
    BY <1>1, <1>2, <1>4 DEF IInv, Typed

\* A step that leaves the log alone, and every other client.
LEMMA QuietStep ==
  ASSUME IInv, NEW c \in Clients, UNCHANGED log, Working(c)',
         DOMAIN pc' = Clients, DOMAIN target' = Clients, DOMAIN loaded' = Clients, DOMAIN asked' = Clients,
         \A d \in Clients \ {c} : /\ pc'[d] = pc[d] /\ target'[d] = target[d]
                                  /\ loaded'[d] = loaded[d] /\ asked'[d] = asked[d]
  PROVE  IInv'
  <1>1. \A d \in Clients \ {c} : Working(d)'
    BY BecameItself, OthersWork DEF IInv
  <1>2. QED
    BY <1>1 DEF IInv, Typed

---------------------------------------------------------------------------
\* The steps

\* A request that has read a row and goes on.
LEMMA LoadStep ==
  ASSUME IInv, NEW c \in Clients, NEW p \in DOMAIN log, NEW label, NEW what, Load(c, p, label, what),
         label = "resolve" => /\ log[p].status = "pending_classification"
                              /\ what.primary \in Concepts,
         label \in {"count", "review"} => log[p].status = "active" /\ what.ok \in BOOLEAN
  PROVE  IInv'
  <1>1. /\ pc'[c] = label /\ target'[c] = p /\ loaded'[c] = log[p] /\ asked'[c] = what /\ log' = log
        /\ DOMAIN pc' = Clients /\ DOMAIN target' = Clients
        /\ DOMAIN loaded' = Clients /\ DOMAIN asked' = Clients
        /\ \A d \in Clients \ {c} : /\ pc'[d] = pc[d] /\ target'[d] = target[d]
                                    /\ loaded'[d] = loaded[d] /\ asked'[d] = asked[d]
    BY DEF Load, IInv, Typed
  <1>2. Sound(log[p]) /\ Became(log[p], log[p])
    BY BecameItself DEF IInv
  <1>3. log[p].status = "pending_classification" => ~HasMarked(c, log[p])
    BY <1>2, Empty DEF Sound, Evidenced, HasMarked
  <1>4. Working(c)'
    BY <1>1, <1>2, <1>3 DEF Working
  <1>5. QED
    BY <1>1, <1>4, QuietStep

\* A confirmation keeps the invariant.
LEMMA ResolveStep ==
  ASSUME IInv, NEW c \in Clients, WriteResolve(c)
  PROVE  IInv'
  <1> DEFINE p == target[c]
             new == [loaded[c] EXCEPT !.primary = asked[c].primary, !.status = "active",
                         !.secondary = Besides(asked[c]), !.stability = Initial, !.due = 0]
             made == [Update(log[p], loaded[c], new) EXCEPT
                         !.solves = WithMark(log[p].solves, 1, MarkOf(c, new))]
  <1>1. pc[c] = "resolve" /\ log' = [log EXCEPT ![p] = made] /\ Finish(c)
    BY DEF WriteResolve
  <1>2. /\ p \in DOMAIN log /\ Sound(loaded[c]) /\ Became(loaded[c], log[p])
        /\ loaded[c].status = "pending_classification"
        /\ asked[c].primary \in Concepts /\ ~HasMarked(c, log[p])
    BY <1>1 DEF IInv, Working
  <1>3. Sound(log[p])
    BY <1>2 DEF IInv
  <1>4. Sound(made) /\ Became(log[p], made) /\ \A d : HasMarked(d, made) => HasMarked(d, log[p]) \/ d = c
    BY <1>2, <1>3, ConfirmedSound
  <1> HIDE DEF made
  <1>5. QED
    BY <1>1, <1>2, <1>4, RowStep

\* A review keeps the invariant.
LEMMA ReviewStep ==
  ASSUME IInv, NEW c \in Clients, WriteReview(c)
  PROVE  IInv'
  <1> DEFINE p == target[c]
             solve == [by |-> c, ok |-> asked[c].ok, marks |-> MarkOf(c, loaded[c])]
             made == [Update(log[p], loaded[c], Reviewed(loaded[c], number[c], asked[c].ok)) EXCEPT
                         !.solves = Append(log[p].solves, solve)]
  <1>1. pc[c] = "review" /\ log' = [log EXCEPT ![p] = made] /\ Finish(c)
    BY DEF WriteReview
  <1>2. /\ p \in DOMAIN log /\ Sound(loaded[c]) /\ Became(loaded[c], log[p])
        /\ loaded[c].status = "active" /\ asked[c].ok \in BOOLEAN
    BY <1>1 DEF IInv, Working
  <1>3. Sound(log[p])
    BY <1>2 DEF IInv
  <1>4. Sound(made) /\ Became(log[p], made) /\ \A d : HasMarked(d, made) => HasMarked(d, log[p]) \/ d = c
    BY <1>2, <1>3, ReviewedSound
  <1> HIDE DEF made
  <1>5. QED
    BY <1>1, <1>2, <1>4, RowStep

\* An edit keeps the invariant.
LEMMA EditStep ==
  ASSUME IInv, NEW c \in Clients, WriteEdit(c)
  PROVE  IInv'
  <1> DEFINE p == target[c]
             labels == NormaliseLabels(asked[c].labels)
             made == Update(log[p], loaded[c], [loaded[c] EXCEPT !.labels = labels])
  <1>1. pc[c] = "edit" /\ log' = [log EXCEPT ![p] = made] /\ Finish(c)
    BY DEF WriteEdit
  <1>2. p \in DOMAIN log /\ Sound(loaded[c])
    BY <1>1 DEF IInv, Working
  <1>3. Sound(log[p])
    BY <1>2 DEF IInv
  <1> HIDE DEF labels
  <1>4. Sound(made) /\ Became(log[p], made) /\ \A d : HasMarked(d, made) => HasMarked(d, log[p]) \/ d = c
    BY <1>2, <1>3, EditedSound
  <1> HIDE DEF made
  <1>5. QED
    BY <1>1, <1>2, <1>4, RowStep

\* The steps of a client that write no row.
LEMMA OtherSteps ==
  ASSUME IInv, NEW c \in Clients,
         \/ \E links \in Pastes : OpenImport(c, links)
         \/ SkipLink(c) \/ EndImport(c) \/ CountSolves(c) \/ Fail(c)
  PROVE  IInv'
  <1>1. CASE \E links \in Pastes : OpenImport(c, links)
    <2>1. /\ pc'[c] = "import" /\ \A d \in Clients \ {c} : pc'[d] = pc[d]
          /\ DOMAIN pc' = Clients /\ UNCHANGED <<log, target, loaded, asked>>
      BY <1>1 DEF OpenImport, IInv, Typed
    <2>2. Working(c)'
      BY <2>1 DEF Working
    <2>3. QED
      BY <2>1, <2>2, QuietStep DEF IInv, Typed
  <1>2. CASE SkipLink(c)
    <2>1. UNCHANGED <<log, pc, target, loaded, asked>>
      BY <1>2 DEF SkipLink
    <2>2. Working(c)'
      BY <2>1 DEF IInv, Working
    <2>3. QED
      BY <2>1, <2>2, QuietStep DEF IInv, Typed
  <1>3. CASE EndImport(c)
    BY <1>3, FinishedClient, QuietStep DEF EndImport
  <1>4. CASE CountSolves(c)
    <2>1. /\ pc[c] = "count" /\ pc'[c] = "review" /\ \A d \in Clients \ {c} : pc'[d] = pc[d]
          /\ DOMAIN pc' = Clients /\ UNCHANGED <<log, target, loaded, asked>>
      BY <1>4 DEF CountSolves, IInv, Typed
    <2>2. Working(c)'
      BY <2>1 DEF IInv, Working
    <2>3. QED
      BY <2>1, <2>2, QuietStep DEF IInv, Typed
  <1>5. CASE Fail(c)
    BY <1>5, FinishedClient, QuietStep DEF Fail
  <1>6. QED
    BY <1>1, <1>2, <1>3, <1>4, <1>5

---------------------------------------------------------------------------
\* The theorems

\* An empty log satisfies the invariant.
LEMMA InitInvariant == Init => IInv
  <1>1. SUFFICES ASSUME Init PROVE IInv
    OBVIOUS
  <1>2. Typed /\ DOMAIN log = {}
    BY <1>1, Empty DEF Init, Typed
  <1>3. \A c \in Clients : Working(c)
    BY <1>1 DEF Init, Working
  <1>4. QED
    BY <1>2, <1>3 DEF IInv

\* Every step of every client keeps the invariant.
LEMMA NextInvariant == IInv /\ [Next]_vars => IInv'
  <1>1. ASSUME IInv, UNCHANGED vars PROVE IInv'
    <2>1. UNCHANGED <<log, pc, target, loaded, asked>>
      BY <1>1 DEF vars
    <2>2. \A c \in Clients : Working(c)'
      BY <1>1, <2>1 DEF IInv, Working
    <2>3. QED
      BY <1>1, <2>1, <2>2 DEF IInv, Typed
  <1>2. ASSUME IInv, Next PROVE IInv'
    <2>1. PICK c \in Clients :
        \/ \E url \in Urls, answer \in Answers : LogProblem(c, url, answer)
        \/ \E links \in Pastes : OpenImport(c, links)
        \/ SkipLink(c) \/ EndImport(c)
        \/ \E tags \in Tags : ImportLink(c, tags)
        \/ \E p \in DOMAIN log :
               \/ \E correction \in Corrections : OpenResolve(c, p, correction)
               \/ \E ok \in BOOLEAN : OpenReview(c, p, ok)
               \/ \E labels \in Labels : OpenEdit(c, p, labels)
        \/ WriteResolve(c) \/ CountSolves(c) \/ WriteReview(c) \/ WriteEdit(c)
        \/ Fail(c)
      BY <1>2 DEF Next
    <2>2. CASE \E url \in Urls, answer \in Answers : LogProblem(c, url, answer)
      <3>1. PICK url \in Urls, answer \in Answers : LogProblem(c, url, answer)
        BY <2>2
      <3>2. QED
        BY <1>2, <3>1, LoggedSound, AppendStep DEF LogProblem
    <2>3. CASE \E tags \in Tags : ImportLink(c, tags)
      <3>1. PICK tags \in Tags : ImportLink(c, tags)
        BY <2>3
      <3>2. QED
        BY <1>2, <3>1, LoggedSound, AppendStep DEF ImportLink
    <2>4. ASSUME NEW p \in DOMAIN log, NEW correction \in Corrections, OpenResolve(c, p, correction)
          PROVE  IInv'
      <3>1. correction.primary \in Concepts
        BY PracticeAssumption
      <3>2. Load(c, p, "resolve", correction) /\ log[p].status = "pending_classification"
        BY <2>4 DEF OpenResolve
      <3>3. QED
        BY <1>2, <3>1, <3>2, LoadStep
    <2>5. ASSUME NEW p \in DOMAIN log, NEW ok \in BOOLEAN, OpenReview(c, p, ok)
          PROVE  IInv'
      <3> DEFINE what == [kind |-> "review", ok |-> ok]
      <3>1. what.ok \in BOOLEAN
        OBVIOUS
      <3>2. Load(c, p, "count", what) /\ log[p].status = "active"
        BY <2>5 DEF OpenReview
      <3> HIDE DEF what
      <3>3. QED
        BY <1>2, <3>1, <3>2, LoadStep
    <2>6. ASSUME NEW p \in DOMAIN log, NEW labels \in Labels, OpenEdit(c, p, labels)
          PROVE  IInv'
      <3> DEFINE what == [kind |-> "edit", labels |-> labels]
      <3>1. Load(c, p, "edit", what)
        BY <2>6 DEF OpenEdit
      <3> HIDE DEF what
      <3>2. QED
        BY <1>2, <3>1, LoadStep
    <2>7. QED
      BY <1>2, <2>1, <2>2, <2>3, <2>4, <2>5, <2>6, ResolveStep, ReviewStep, EditStep, OtherSteps
  <1>3. QED
    BY <1>1, <1>2

\* Every reachable state satisfies the invariant.
LEMMA Invariant == Spec => []IInv
  BY InitInvariant, NextInvariant, PTL DEF Spec

\* However reviews of one problem overlap, each counting up from a row it read before the
\* others committed (record_review), no problem graduates on fewer than GRADUATION_SOLVES
\* successful solves, and no solve_count exceeds them.
THEOREM GraduationIsEarned == Spec => []GraduationEarned
  <1>1. IInv => GraduationEarned
    BY DEF IInv, Sound, Earned, GraduationEarned
  <1>2. QED
    BY <1>1, Invariant, PTL

\* However confirmations, reviews and edits of one problem overlap, nothing is evidence of a
\* pending problem, every review has its evidence in one piece, and the first solve's is
\* written once by each client that has confirmed the problem (resolve_classification).
THEOREM EvidenceIsOnce == Spec => []EvidenceOnce
  <1>1. IInv => EvidenceOnce
    BY DEF IInv, Sound, Evidenced, EvidenceOnce, IsInjective
  <1>2. QED
    BY <1>1, Invariant, PTL

---------------------------------------------------------------------------
\* What an import adds

\* What identifies a row never changes.
SameIdentity(old, row) == row.by = old.by /\ row.url = old.url /\ row.imported = old.imported

\* An import under way has seen every problem that its client has logged.
HasSeen(c) ==
    pc[c] = "import" => \A p \in DOMAIN log : log[p].by = c => SameProblemKey(log[p].url) \in seen[c]

ImportInv == DOMAIN seen = Clients /\ ImportAddsOnce /\ \A c \in Clients : HasSeen(c)

\* The URL that is stored names the problem that was fetched (_resolve, same_problem_key).
LEMMA StoredKey ==
  ASSUME NEW link, Readable(link)
  PROVE  SameProblemKey(StoredUrl(link)) = Resolved(link)
  <1>1. CASE NeetCodeSlug(link) # NoSlug
    <2> DEFINE slug == NeetCodeSlug(link)
               stored == [site |-> "neetcode", slug |-> slug]
    <2>1. slug \in DOMAIN Catalogue
      BY <1>1 DEF Readable
    <2>2. StoredUrl(link) = stored /\ Resolved(link) = Problem(Catalogue[slug])
      BY <1>1 DEF StoredUrl, Resolved
    <2> HIDE DEF slug
    <2>3. NeetCodeSlug(stored) = slug
      BY DEF NeetCodeSlug
    <2> HIDE DEF stored
    <2>4. SameProblemKey(stored) = Problem(Catalogue[slug])
      BY <2>1, <2>3 DEF SameProblemKey
    <2>5. QED
      BY <2>2, <2>4
  <1>2. CASE NeetCodeSlug(link) = NoSlug
    <2> DEFINE slug == LeetCodeSlug(link)
               stored == [site |-> "leetcode", slug |-> slug]
    <2>1. slug # NoSlug
      BY <1>2 DEF Readable
    <2>2. StoredUrl(link) = stored /\ Resolved(link) = Problem(slug)
      BY <1>2 DEF StoredUrl, Resolved
    <2> HIDE DEF slug
    <2>3. NeetCodeSlug(stored) = NoSlug /\ LeetCodeSlug(stored) = slug
      BY DEF NeetCodeSlug, LeetCodeSlug
    <2> HIDE DEF stored
    <2>4. NoSlug \notin DOMAIN Catalogue
      BY ClassificationAssumption
    <2>5. SameProblemKey(stored) = Problem(slug)
      BY <2>1, <2>3, <2>4 DEF SameProblemKey
    <2>6. QED
      BY <2>2, <2>5
  <1>3. QED
    BY <1>1, <1>2

\* An update from a row that keeps what was read of these columns keeps them.
LEMMA IdentityUpdated ==
  ASSUME NEW row, NEW old, NEW new, DOMAIN row = Columns, SameIdentity(old, new)
  PROVE  LET updated == Update(row, old, new)
         IN  /\ SameIdentity(row, updated)
             /\ \A solves : SameIdentity(row, [updated EXCEPT !.solves = solves])
  BY DEF Update, Columns, SameIdentity

\* No write of an existing row changes what identifies it.
LEMMA IdentityKept ==
  ASSUME IInv, NEW c \in Clients, WriteResolve(c) \/ WriteReview(c) \/ WriteEdit(c)
  PROVE  /\ DOMAIN log' = DOMAIN log /\ \A p \in DOMAIN log : SameIdentity(log[p], log'[p])
         /\ Finish(c)
  <1> DEFINE p == target[c]
             old == loaded[c]
  <1>1. \A made : SameIdentity(log[p], made) /\ log' = [log EXCEPT ![p] = made]
            => DOMAIN log' = DOMAIN log /\ \A q \in DOMAIN log : SameIdentity(log[q], log'[q])
    BY DEF SameIdentity
  <1>2. p \in DOMAIN log /\ DOMAIN log[p] = Columns /\ DOMAIN old = Columns
    BY DEF IInv, Working, WriteResolve, WriteReview, WriteEdit, Sound, Shaped
  <1>3. CASE WriteResolve(c)
    <2> DEFINE new == [old EXCEPT !.primary = asked[c].primary, !.status = "active",
                           !.secondary = Besides(asked[c]), !.stability = Initial, !.due = 0]
               solves == WithMark(log[p].solves, 1, MarkOf(c, new))
               made == [Update(log[p], old, new) EXCEPT !.solves = solves]
    <2>1. log' = [log EXCEPT ![p] = made] /\ Finish(c)
      BY <1>3 DEF WriteResolve
    <2>2. SameIdentity(old, new)
      BY <1>2 DEF SameIdentity, Columns
    <2> HIDE DEF new, solves
    <2>3. SameIdentity(log[p], made)
      BY <1>2, <2>2, IdentityUpdated
    <2> HIDE DEF made
    <2>4. QED
      BY <1>1, <2>1, <2>3
  <1>4. CASE WriteReview(c)
    <2> DEFINE new == Reviewed(old, number[c], asked[c].ok)
               solve == [by |-> c, ok |-> asked[c].ok, marks |-> MarkOf(c, old)]
               solves == Append(log[p].solves, solve)
               made == [Update(log[p], old, new) EXCEPT !.solves = solves]
    <2>1. log' = [log EXCEPT ![p] = made] /\ Finish(c)
      BY <1>4 DEF WriteReview
    <2>2. SameIdentity(old, new)
      BY <1>2 DEF SameIdentity, Columns, Reviewed
    <2> HIDE DEF new, solves
    <2>3. SameIdentity(log[p], made)
      BY <1>2, <2>2, IdentityUpdated
    <2> HIDE DEF made
    <2>4. QED
      BY <1>1, <2>1, <2>3
  <1>5. CASE WriteEdit(c)
    <2> DEFINE labels == NormaliseLabels(asked[c].labels)
               new == [old EXCEPT !.labels = labels]
               made == Update(log[p], old, new)
    <2>1. log' = [log EXCEPT ![p] = made] /\ Finish(c)
      BY <1>5 DEF WriteEdit
    <2> HIDE DEF labels
    <2>2. SameIdentity(old, new)
      BY <1>2 DEF SameIdentity, Columns
    <2> HIDE DEF new
    <2>3. SameIdentity(log[p], made)
      BY <1>2, <2>2, IdentityUpdated
    <2> HIDE DEF made
    <2>4. QED
      BY <1>1, <2>1, <2>3
  <1>6. QED
    BY <1>3, <1>4, <1>5

\* No import has begun in an empty log.
LEMMA ImportInitially == Init => ImportInv
  BY DEF Init, ImportInv, ImportAddsOnce, HasSeen

\* A step that keeps what identifies every row, and starts no import.
LEMMA ImportQuietStep ==
  ASSUME ImportInv, DOMAIN log' = DOMAIN log,
         \A p \in DOMAIN log : SameIdentity(log[p], log'[p]),
         DOMAIN seen' = Clients,
         \A c \in Clients : pc'[c] = "import" => pc[c] = "import" /\ seen'[c] = seen[c]
  PROVE  ImportInv'
  <1>1. ImportAddsOnce'
    BY DEF ImportInv, ImportAddsOnce, SameIdentity
  <1>2. \A c \in Clients : HasSeen(c)'
    BY DEF ImportInv, HasSeen, SameIdentity
  <1>3. QED
    BY <1>1, <1>2 DEF ImportInv

\* A step that adds a row of a client: an import's is none that its client has logged.
LEMMA ImportAppendStep ==
  ASSUME IInv, ImportInv, NEW c \in Clients, NEW row, row.by = c, log' = Append(log, row), pc' = pc,
         row.imported => /\ pc[c] = "import"
                         /\ SameProblemKey(row.url) \notin seen[c],
         DOMAIN seen' = Clients,
         \A d \in Clients : seen[d] \subseteq seen'[d],
         pc[c] = "import" => SameProblemKey(row.url) \in seen'[c]
  PROVE  ImportInv'
  <1>1. /\ Len(log) \in Nat /\ DOMAIN log = 1 .. Len(log)
        /\ DOMAIN log' = 1 .. Len(log) + 1
        /\ \A p \in DOMAIN log : log'[p] = log[p]
        /\ log'[Len(log) + 1] = row
    BY Appended DEF IInv, Typed
  <1>2. \A p \in DOMAIN log' : p \in DOMAIN log \/ p = Len(log) + 1
    BY <1>1
  <1>3. ASSUME NEW p \in DOMAIN log', NEW q \in DOMAIN log', p < q, log'[q].imported,
               log'[p].by = log'[q].by
        PROVE  SameProblemKey(log'[p].url) # SameProblemKey(log'[q].url)
    <2>1. p \in DOMAIN log
      BY <1>1, <1>3
    <2>2. CASE q \in DOMAIN log
      BY <1>1, <1>3, <2>1, <2>2 DEF ImportInv, ImportAddsOnce
    <2>3. CASE q = Len(log) + 1
      <3>1. log'[q] = row /\ log'[p] = log[p] /\ log[p].by = c
        BY <1>1, <1>3, <2>1, <2>3
      <3>2. pc[c] = "import" /\ SameProblemKey(row.url) \notin seen[c]
        BY <1>3, <3>1
      <3>3. SameProblemKey(log[p].url) \in seen[c]
        BY <2>1, <3>1, <3>2 DEF ImportInv, HasSeen
      <3>4. QED
        BY <3>1, <3>2, <3>3
    <2>4. QED
      BY <1>2, <2>2, <2>3
  <1>4. ASSUME NEW d \in Clients, pc[d] = "import", NEW p \in DOMAIN log', log'[p].by = d
        PROVE  SameProblemKey(log'[p].url) \in seen'[d]
    <2>1. CASE p \in DOMAIN log
      BY <1>1, <1>4, <2>1 DEF ImportInv, HasSeen
    <2>2. CASE p = Len(log) + 1
      BY <1>1, <1>4, <2>2
    <2>3. QED
      BY <1>2, <2>1, <2>2
  <1>5. ImportAddsOnce'
    BY <1>3 DEF ImportAddsOnce
  <1>6. \A d \in Clients : HasSeen(d)'
    BY <1>4 DEF HasSeen
  <1>7. QED
    BY <1>5, <1>6 DEF ImportInv

\* A client that finishes starts no import.
LEMMA FinishedImport ==
  ASSUME IInv, ImportInv, NEW c \in Clients, Finish(c)
  PROVE  /\ DOMAIN seen' = Clients
         /\ \A d \in Clients : pc'[d] = "import" => pc[d] = "import" /\ seen'[d] = seen[d]
  BY DEF IInv, Typed, ImportInv, Finish

\* A client that reads a row starts no import.
LEMMA LoadedImport ==
  ASSUME IInv, ImportInv, NEW c \in Clients, NEW p, NEW label, NEW what, label # "import",
         Load(c, p, label, what)
  PROVE  ImportInv'
  <1>1. /\ UNCHANGED <<log, seen>>
        /\ \A d \in Clients : pc'[d] = "import" => pc[d] = "import"
    BY DEF Load, IInv, Typed
  <1>2. QED
    BY <1>1, ImportQuietStep DEF ImportInv, SameIdentity

\* Every step of every client keeps what imports rely on.
LEMMA ImportNext == IInv /\ ImportInv /\ [Next]_vars => ImportInv'
  <1>1. ASSUME ImportInv, UNCHANGED vars PROVE ImportInv'
    BY <1>1, ImportQuietStep DEF vars, ImportInv, SameIdentity
  <1>2. ASSUME IInv, ImportInv, NEW c \in Clients, NEW url, NEW answer, LogProblem(c, url, answer)
        PROVE  ImportInv'
    <2> DEFINE row == Logged(c, url, Classify(answer), FALSE)
    <2>1. row.by = c /\ row.imported = FALSE
      BY DEF Logged
    <2>2. /\ pc[c] = "idle" /\ log' = Append(log, row)
          /\ UNCHANGED <<pc, seen>>
      BY <1>2 DEF LogProblem
    <2> HIDE DEF row
    <2>3. DOMAIN seen' = Clients /\ \A d \in Clients : seen[d] \subseteq seen'[d]
      BY <1>2, <2>2 DEF ImportInv
    <2>4. QED
      BY <1>2, <2>1, <2>2, <2>3, ImportAppendStep
  <1>3. ASSUME IInv, ImportInv, NEW c \in Clients, NEW tags, ImportLink(c, tags)
        PROVE  ImportInv'
    <2> DEFINE link == Head(todo[c])
               row == Logged(c, StoredUrl(link), TagProposal(tags), TRUE)
    <2>1. row.by = c /\ row.imported = TRUE /\ row.url = StoredUrl(link)
      BY DEF Logged
    <2>2. /\ pc[c] = "import" /\ Readable(link) /\ Resolved(link) \notin seen[c]
          /\ log' = Append(log, row) /\ pc' = pc
          /\ seen' = [seen EXCEPT ![c] = seen[c] \cup {Resolved(link)}]
      BY <1>3 DEF ImportLink
    <2> HIDE DEF row, link
    <2>3. SameProblemKey(row.url) = Resolved(link)
      BY <2>1, <2>2, StoredKey
    <2>4. /\ DOMAIN seen' = Clients /\ Resolved(link) \in seen'[c]
          /\ \A d \in Clients : seen[d] \subseteq seen'[d]
      BY <1>3, <2>2 DEF ImportInv
    <2>5. QED
      BY <1>3, <2>1, <2>2, <2>3, <2>4, ImportAppendStep
  <1>4. ASSUME IInv, ImportInv, NEW c \in Clients, NEW links, OpenImport(c, links)
        PROVE  ImportInv'
    <2>1. /\ UNCHANGED log /\ DOMAIN seen' = Clients
          /\ seen'[c] = {SameProblemKey(log[p].url) : p \in DOMAIN log}
          /\ \A d \in Clients \ {c} : pc'[d] = pc[d] /\ seen'[d] = seen[d]
      BY <1>4 DEF OpenImport, ImportInv, IInv, Typed
    <2>2. \A d \in Clients : HasSeen(d)'
      BY <1>4, <2>1 DEF ImportInv, HasSeen
    <2>3. QED
      BY <1>4, <2>1, <2>2 DEF ImportInv, ImportAddsOnce
  <1>5. ASSUME ImportInv, NEW c \in Clients, SkipLink(c) PROVE ImportInv'
    BY <1>5, ImportQuietStep DEF SkipLink, ImportInv, SameIdentity
  <1>6. ASSUME IInv, ImportInv, NEW c \in Clients, EndImport(c) \/ Fail(c) PROVE ImportInv'
    BY <1>6, FinishedImport, ImportQuietStep DEF EndImport, Fail, SameIdentity
  <1>7. ASSUME IInv, ImportInv, NEW c \in Clients, CountSolves(c) PROVE ImportInv'
    <2>1. /\ UNCHANGED <<log, seen>>
          /\ \A d \in Clients : pc'[d] = "import" => pc[d] = "import"
      BY <1>7 DEF CountSolves, IInv, Typed
    <2>2. QED
      BY <1>7, <2>1, ImportQuietStep DEF ImportInv, SameIdentity
  <1>8. ASSUME IInv, ImportInv, NEW c \in Clients, WriteResolve(c) \/ WriteReview(c) \/ WriteEdit(c)
        PROVE  ImportInv'
    BY <1>8, IdentityKept, FinishedImport, ImportQuietStep
  <1>9. ASSUME IInv, ImportInv, NEW c \in Clients, NEW p \in DOMAIN log,
               \/ \E correction \in Corrections : OpenResolve(c, p, correction)
               \/ \E ok \in BOOLEAN : OpenReview(c, p, ok)
               \/ \E labels \in Labels : OpenEdit(c, p, labels)
        PROVE  ImportInv'
    BY <1>9, LoadedImport DEF OpenResolve, OpenReview, OpenEdit
  <1>10. QED
    BY <1>1, <1>2, <1>3, <1>4, <1>5, <1>6, <1>7, <1>8, <1>9 DEF Next

\* Whatever is logged and imported at the same time, an import adds no problem that its client
\* has logged before, in either site's spelling, nor one twice (import_leetcode, _resolve and
\* same_problem_key).
THEOREM ImportsAddOnce == Spec => []ImportAddsOnce
  <1>1. ImportInv => ImportAddsOnce
    BY DEF ImportInv
  <1>2. QED
    BY <1>1, Invariant, ImportInitially, ImportNext, PTL DEF Spec

---------------------------------------------------------------------------
\* Following the cursors

\* Every non-empty set of numbers has a least one.
LEMMA LeastNumber ==
  ASSUME NEW S \in SUBSET Nat, S # {}
  PROVE  \E n \in S : \A m \in S : n <= m
  <1> DEFINE R == OpToRel(<, Nat)
  <1>1. IsWellFoundedOn(R, Nat)
    BY NatLessThanWellFounded
  <1>2. \A n, m \in Nat : m < n => <<m, n>> \in R
    BY DEF OpToRel
  <1> HIDE DEF R
  <1>3. PICK n \in S : \A m \in S : ~(<<m, n>> \in R)
    BY <1>1, WFMin
  <1>4. \A m \in S : n <= m
    <2>1. SUFFICES ASSUME NEW m \in S PROVE n <= m
      OBVIOUS
    <2>2. n \in Nat /\ m \in Nat
      OBVIOUS
    <2>3. ~(m < n)
      BY <1>2, <1>3, <2>2, Zenon
    <2>4. QED
      BY <2>2, <2>3
  <1>5. QED
    BY <1>4

\* The problems that a listing by a concept is to show.
Of(concept) == {p \in DOMAIN log : concept \in {log[p].primary} \cup Range(log[p].secondary)}

\* What a page shows and where it sends its reader.
Shows(concept, limit, before) == {p \in Of(concept) : before - limit <= p /\ p < before}
Onward(limit, before) == IF before > limit + 1 THEN before - limit ELSE 0

\* How many lie between a place and a cursor.
LEMMA Newer ==
  ASSUME NEW before \in Nat \ {0}, NEW p \in 1 .. before - 1
  PROVE  Cardinality({q \in 1 .. before - 1 : q > p}) = before - 1 - p
  <1>1. {q \in 1 .. before - 1 : q > p} = p + 1 .. before - 1
    OBVIOUS
  <1>2. Cardinality(p + 1 .. before - 1) = IF p + 1 > before - 1 THEN 0 ELSE before - 1 - (p + 1) + 1
    <2>1. PICK a \in Int : a = p + 1
      OBVIOUS
    <2>2. PICK b \in Int : b = before - 1
      OBVIOUS
    <2>3. Cardinality(a .. b) = IF a > b THEN 0 ELSE b - a + 1
      BY FS_Interval
    <2>4. QED
      BY <2>1, <2>2, <2>3
  <1>3. (IF p + 1 > before - 1 THEN 0 ELSE before - 1 - (p + 1) + 1) = before - 1 - p
    OBVIOUS
  <1>4. QED
    BY <1>1, <1>2, <1>3

\* A page is the rows just before its cursor, and the next one begins where it ends.
LEMMA PageIs ==
  ASSUME Sequence(log), NEW concept, NEW limit \in Nat \ {0}, NEW before \in 1 .. Len(log) + 1
  PROVE  LET page == Page(before, concept, limit)
         IN  page.rows = Shows(concept, limit, before) /\ page.next = Onward(limit, before)
  <1> DEFINE fetched == {p \in DOMAIN log : p < before}
             page == {p \in fetched : Cardinality({q \in fetched : q > p}) < limit}
             kept == {p \in 1 .. before - 1 : before - limit <= p}
  <1>1. DOMAIN log = 1 .. Len(log) /\ Len(log) \in Nat
    BY DEF Sequence
  <1>2. fetched = 1 .. before - 1
    BY <1>1
  <1>3. page = kept
    <2>1. \A p \in 1 .. before - 1 : Cardinality({q \in fetched : q > p}) = before - 1 - p
      <3>1. SUFFICES ASSUME NEW p \in 1 .. before - 1
                     PROVE  Cardinality({q \in fetched : q > p}) = before - 1 - p
        OBVIOUS
      <3>2. before \in Nat \ {0}
        BY <1>1
      <3> HIDE DEF fetched
      <3>3. QED
        BY <1>2, <3>2, Newer
    <2>2. \A p \in 1 .. before - 1 : before - 1 - p < limit <=> before - limit <= p
      BY <1>1
    <2> HIDE DEF fetched
    <2>3. QED
      BY <1>2, <2>1, <2>2
  <1>4. Page(before, concept, limit).rows
           = {p \in page : concept \in {log[p].primary} \cup Range(log[p].secondary)}
    BY DEF Page
  <1>5. Page(before, concept, limit).next = IF fetched # page THEN Min(page) ELSE 0
    BY DEF Page
  <1> HIDE DEF fetched, page
  <1>6. Page(before, concept, limit).rows = Shows(concept, limit, before)
    BY <1>1, <1>3, <1>4 DEF Shows, Of
  <1>7. CASE before > limit + 1
    <2>1. fetched # page
      <3>1. 1 \in fetched /\ 1 \notin page
        BY <1>1, <1>2, <1>3, <1>7
      <3>2. QED
        BY <3>1
    <2>2. before - limit \in page /\ \A p \in page : before - limit <= p /\ p \in Int
      BY <1>1, <1>3, <1>7
    <2>3. Min(page) = before - limit
      <3>1. before - limit \in Int
        BY <1>1
      <3>2. \A x \in page : (\A y \in page : x <= y) => x = before - limit
        BY <2>2, <3>1
      <3>3. QED
        BY <2>2, <3>2 DEF Min
    <2>4. QED
      BY <1>5, <1>6, <1>7, <2>1, <2>3 DEF Onward
  <1>8. CASE ~(before > limit + 1)
    <2>1. fetched = page
      BY <1>1, <1>2, <1>3, <1>8
    <2>2. QED
      BY <1>5, <1>6, <1>8, <2>1 DEF Onward
  <1>9. QED
    BY <1>7, <1>8

\* One step of the walk along the cursors.
Turn(concept, limit, walk, before) ==
    IF before = 0 THEN <<>>
    ELSE <<Page(before, concept, limit).rows>> \o walk[Page(before, concept, limit).next]

\* The recursion of ListingComplete has a solution: every page leads to an earlier one.
LEMMA WalkExists ==
  ASSUME Sequence(log), NEW concept, NEW limit \in Nat \ {0}
  PROVE  \E walk : walk = [before \in 0 .. Len(log) + 1 |-> Turn(concept, limit, walk, before)]
  <1> DEFINE N == Len(log) + 1
             Upto(n) == \E walk : DOMAIN walk = 0 .. n /\ \A m \in 0 .. n : walk[m] = Turn(concept, limit, walk, m)
             missing == {n \in 0 .. N : ~Upto(n)}
  <1>1. N \in Nat
    BY DEF Sequence
  <1>2. \A m \in 1 .. N : Page(m, concept, limit).next \in 0 .. m - 1
    <2>1. SUFFICES ASSUME NEW m \in 1 .. N PROVE Page(m, concept, limit).next \in 0 .. m - 1
      OBVIOUS
    <2>2. Page(m, concept, limit).next = Onward(limit, m)
      BY PageIs
    <2>3. QED
      BY <1>1, <2>2 DEF Onward
  <1> HIDE DEF N
  <1>3. Upto(0)
    <2> DEFINE walk == [m \in 0 .. 0 |-> <<>>]
    <2>1. DOMAIN walk = 0 .. 0 /\ \A m \in 0 .. 0 : walk[m] = Turn(concept, limit, walk, m)
      BY DEF Turn
    <2>2. QED
      BY <2>1
  <1>4. ASSUME NEW n \in 0 .. N, n # 0, Upto(n - 1) PROVE Upto(n)
    <2>1. PICK walk : DOMAIN walk = 0 .. n - 1 /\ \A m \in 0 .. n - 1 : walk[m] = Turn(concept, limit, walk, m)
      BY <1>4
    <2> DEFINE longer == [m \in 0 .. n |-> IF m = n THEN Turn(concept, limit, walk, n) ELSE walk[m]]
    <2>2. \A m \in 0 .. n : longer[m] = Turn(concept, limit, longer, m)
      <3>1. SUFFICES ASSUME NEW m \in 0 .. n PROVE longer[m] = Turn(concept, limit, longer, m)
        OBVIOUS
      <3>2. Turn(concept, limit, longer, m) = Turn(concept, limit, walk, m)
        <4>1. CASE m = 0
          BY <4>1 DEF Turn
        <4>2. CASE m # 0
          <5>1. Page(m, concept, limit).next \in 0 .. m - 1
            BY <1>1, <1>2, <4>2
          <5>2. Page(m, concept, limit).next \in 0 .. n /\ Page(m, concept, limit).next # n
            BY <1>1, <5>1
          <5>3. longer[Page(m, concept, limit).next] = walk[Page(m, concept, limit).next]
            BY <5>2
          <5> HIDE DEF longer
          <5>4. QED
            BY <5>3 DEF Turn
        <4>3. QED
          BY <4>1, <4>2
      <3>3. longer[m] = Turn(concept, limit, walk, m)
        <4>1. CASE m = n
          BY <4>1
        <4>2. CASE m # n
          <5>1. m \in 0 .. n - 1
            BY <1>1, <4>2
          <5>2. longer[m] = walk[m]
            BY <4>2
          <5>3. QED
            BY <2>1, <5>1, <5>2
        <4>3. QED
          BY <4>1, <4>2
      <3>4. QED
        BY <3>2, <3>3
    <2>3. DOMAIN longer = 0 .. n
      OBVIOUS
    <2> HIDE DEF longer
    <2>4. QED
      BY <2>2, <2>3
  <1>5. missing = {}
    <2>1. ASSUME missing # {} PROVE FALSE
      <3>1. missing \in SUBSET Nat
        BY <1>1
      <3>2. PICK n \in missing : \A m \in missing : n <= m
        <4> HIDE DEF missing
        <4>1. QED
          BY <2>1, <3>1, LeastNumber
      <3> HIDE DEF Upto
      <3>3. n \in 0 .. N /\ ~Upto(n) /\ n # 0
        BY <1>3
      <3>4. n - 1 \in 0 .. N /\ ~(n <= n - 1)
        BY <1>1, <3>3
      <3>5. Upto(n - 1)
        BY <3>2, <3>4
      <3>6. QED
        BY <1>4, <3>3, <3>5
    <2>2. QED
      BY <2>1
  <1>6. Upto(N)
    <2> HIDE DEF Upto
    <2>1. N \in 0 .. N
      BY <1>1
    <2>2. QED
      BY <1>5, <2>1
  <1>7. PICK walk : DOMAIN walk = 0 .. N /\ \A m \in 0 .. N : walk[m] = Turn(concept, limit, walk, m)
    BY <1>6
  <1>8. PICK tuned : tuned = [before \in 0 .. N |-> walk[before]]
    OBVIOUS
  <1>9. \A m \in 0 .. N : tuned[m] = Turn(concept, limit, tuned, m)
    <2>1. SUFFICES ASSUME NEW m \in 0 .. N PROVE tuned[m] = Turn(concept, limit, tuned, m)
      OBVIOUS
    <2>2. tuned[m] = Turn(concept, limit, walk, m)
      BY <1>7, <1>8
    <2>3. CASE m = 0
      BY <2>2, <2>3 DEF Turn
    <2>4. CASE m # 0
      <3>1. Page(m, concept, limit).next \in 0 .. m - 1
        BY <1>1, <1>2, <2>4
      <3>2. Page(m, concept, limit).next \in 0 .. N
        BY <1>1, <3>1
      <3>3. tuned[Page(m, concept, limit).next] = walk[Page(m, concept, limit).next]
        BY <1>8, <3>2
      <3>4. QED
        BY <2>2, <3>3 DEF Turn
    <2>5. QED
      BY <2>3, <2>4
  <1>10. tuned = [before \in 0 .. N |-> Turn(concept, limit, tuned, before)]
    <2>1. tuned = [before \in 0 .. N |-> tuned[before]]
      BY <1>8
    <2>2. QED
      BY <1>9, <2>1
  <1>11. QED
    BY <1>10 DEF N

\* Pages that show some problems, each once.
Complete(pages, problems) ==
    /\ Sequence(pages) /\ UNION Range(pages) = problems
    /\ \A j, k \in DOMAIN pages : j # k => pages[j] \cap pages[k] = {}

\* A page before the others, of problems that they do not show.
LEMMA OnePageMore ==
  ASSUME NEW pages, NEW problems, Complete(pages, problems), NEW rows, rows \cap problems = {}
  PROVE  Complete(<<rows>> \o pages, rows \cup problems)
  <1> DEFINE all == <<rows>> \o pages
             kinds == Range(pages) \cup {rows}
  <1>1. pages \in Seq(kinds) /\ <<rows>> \in Seq(kinds) /\ Len(<<rows>>) = 1 /\ <<rows>>[1] = rows
    BY DEF Complete, Sequence
  <1>2. PICK L \in Nat : L = Len(pages) /\ DOMAIN pages = 1 .. L
    BY <1>1
  <1>3. all \in Seq(kinds) /\ Len(all) = 1 + L
    BY <1>1, <1>2
  <1>4. DOMAIN all = 1 .. 1 + L
    BY <1>3
  <1>5. all[1] = rows
    BY <1>1, <1>2
  <1>6. \A n \in 1 .. L : all[n + 1] = pages[n]
    <2>1. SUFFICES ASSUME NEW n \in 1 .. L PROVE all[n + 1] = pages[n]
      OBVIOUS
    <2>2. n + 1 \in 1 .. 1 + L /\ n + 1 > 1 /\ n + 1 - 1 = n
      BY <1>2
    <2>3. QED
      BY <1>1, <1>2, <2>2
  <1> HIDE DEF all
  <1>7. \A n \in 1 .. 1 + L : n = 1 \/ (n - 1 \in 1 .. L /\ all[n] = pages[n - 1])
    <2>1. SUFFICES ASSUME NEW n \in 1 .. 1 + L, n # 1 PROVE n - 1 \in 1 .. L /\ all[n] = pages[n - 1]
      OBVIOUS
    <2>2. n - 1 \in 1 .. L /\ (n - 1) + 1 = n
      BY <1>2, <2>1
    <2>3. QED
      BY <1>6, <2>2
  <1>8. \A n \in 1 .. L : pages[n] \subseteq problems
    BY <1>2 DEF Complete, Range
  <1>9. Range(all) = kinds
    <2>1. \A n \in 1 .. L : n + 1 \in 1 .. 1 + L
      BY <1>2
    <2>2. 1 \in 1 .. 1 + L
      BY <1>2
    <2>3. Range(all) \subseteq kinds
      BY <1>2, <1>4, <1>5, <1>7 DEF Range
    <2>4. kinds \subseteq Range(all)
      BY <1>2, <1>4, <1>5, <1>6, <2>1, <2>2 DEF Range
    <2>5. QED
      BY <2>3, <2>4
  <1>10. UNION Range(all) = rows \cup problems
    BY <1>9 DEF Complete
  <1>11. ASSUME NEW j \in DOMAIN all, NEW k \in DOMAIN all, j # k
         PROVE  all[j] \cap all[k] = {}
    <2>1. CASE j = 1
      <3>1. k # 1 /\ k - 1 \in 1 .. L /\ all[k] = pages[k - 1]
        BY <1>4, <1>7, <1>11, <2>1
      <3>2. QED
        BY <1>5, <1>8, <2>1, <3>1
    <2>2. CASE k = 1
      <3>1. j # 1 /\ j - 1 \in 1 .. L /\ all[j] = pages[j - 1]
        BY <1>4, <1>7, <1>11, <2>2
      <3>2. QED
        BY <1>5, <1>8, <2>2, <3>1
    <2>3. CASE j # 1 /\ k # 1
      <3>1. /\ j - 1 \in 1 .. L /\ all[j] = pages[j - 1]
            /\ k - 1 \in 1 .. L /\ all[k] = pages[k - 1]
        BY <1>4, <1>7, <2>3
      <3>2. j - 1 # k - 1
        BY <1>2, <1>4, <1>11
      <3>3. QED
        BY <1>2, <3>1, <3>2 DEF Complete
    <2>4. QED
      BY <2>1, <2>2, <2>3
  <1>12. Sequence(all)
    BY <1>3, <1>9 DEF Sequence
  <1>13. QED
    BY <1>10, <1>11, <1>12 DEF Complete, all

\* What the cursors lead to from a place is what lies before it.
LEMMA WalkComplete ==
  ASSUME Sequence(log), NEW concept, NEW limit \in Nat \ {0}, NEW walk,
         walk = [before \in 0 .. Len(log) + 1 |-> Turn(concept, limit, walk, before)]
  PROVE  Complete(walk[Len(log) + 1], Of(concept))
  <1> DEFINE N == Len(log) + 1
             Before(m) == {p \in Of(concept) : p < m}
             wrong == {m \in 0 .. N : ~Complete(walk[m], Before(m))}
  <1>1. N \in Nat /\ Of(concept) \subseteq 1 .. N - 1
    BY DEF Sequence, Of
  <1>2. ASSUME NEW m \in 0 .. N PROVE walk[m] = Turn(concept, limit, walk, m)
    <2>1. m \in 0 .. Len(log) + 1
      OBVIOUS
    <2>2. QED
      BY <2>1
  <1>3. ASSUME NEW m \in 1 .. N
        PROVE  walk[m] = <<Shows(concept, limit, m)>> \o walk[Onward(limit, m)]
    <2>1. m \in 1 .. Len(log) + 1 /\ m \in 0 .. N /\ m # 0
      BY <1>1
    <2>2. Page(m, concept, limit).rows = Shows(concept, limit, m) /\ Page(m, concept, limit).next = Onward(limit, m)
      BY <2>1, PageIs
    <2> HIDE DEF N
    <2>3. QED
      BY <1>2, <2>1, <2>2 DEF Turn
  <1> HIDE DEF N
  <1>4. Complete(walk[0], Before(0))
    <2>1. walk[0] = <<>>
      BY <1>1, <1>2 DEF Turn
    <2>2. Before(0) = {}
      BY <1>1
    <2>3. Range(<<>>) = {}
      BY DEF Range
    <2> HIDE DEF Before
    <2>4. QED
      BY <2>1, <2>2, <2>3, Empty DEF Complete
  <1>5. ASSUME NEW m \in 1 .. N, Complete(walk[Onward(limit, m)], Before(Onward(limit, m)))
        PROVE  Complete(walk[m], Before(m))
    <2>1. Shows(concept, limit, m) \cap Before(Onward(limit, m)) = {}
      BY <1>1 DEF Shows, Onward
    <2>2. Shows(concept, limit, m) \cup Before(Onward(limit, m)) = Before(m)
      BY <1>1 DEF Shows, Onward
    <2> HIDE DEF Before
    <2>3. Complete(<<Shows(concept, limit, m)>> \o walk[Onward(limit, m)],
                   Shows(concept, limit, m) \cup Before(Onward(limit, m)))
      BY <1>5, <2>1, OnePageMore
    <2>4. walk[m] = <<Shows(concept, limit, m)>> \o walk[Onward(limit, m)]
      BY <1>3
    <2>5. QED
      BY <2>2, <2>3, <2>4
  <1>6. wrong = {}
    <2>1. ASSUME wrong # {} PROVE FALSE
      <3>1. wrong \in SUBSET Nat
        BY <1>1
      <3>2. PICK m \in wrong : \A k \in wrong : m <= k
        <4> HIDE DEF wrong
        <4>1. QED
          BY <2>1, <3>1, LeastNumber
      <3> HIDE DEF Before
      <3>3. m \in 1 .. N /\ ~Complete(walk[m], Before(m))
        BY <1>1, <1>4
      <3>4. Onward(limit, m) \in 0 .. N /\ ~(m <= Onward(limit, m))
        BY <1>1, <3>3 DEF Onward
      <3>5. Complete(walk[Onward(limit, m)], Before(Onward(limit, m)))
        BY <3>2, <3>4
      <3>6. QED
        BY <1>5, <3>3, <3>5
    <2>2. QED
      BY <2>1
  <1>7. Complete(walk[N], Before(N))
    BY <1>1, <1>6
  <1>8. Before(N) = Of(concept)
    BY <1>1
  <1>9. QED
    BY <1>7, <1>8 DEF N

\* What whoever follows the cursors is shown.
Pages(concept, limit) ==
    LET walk[before \in 0 .. Len(log) + 1] ==
            IF before = 0 THEN <<>>
            ELSE LET page == Page(before, concept, limit)
                 IN  <<page.rows>> \o walk[page.next]
    IN  walk[Len(log) + 1]

\* For any page size, not only those of the run: the cursors of a log lead past every problem
\* of the concept, each on one page.
LEMMA PagesComplete ==
  ASSUME Sequence(log), NEW concept, NEW limit \in Nat \ {0}
  PROVE  Complete(Pages(concept, limit), Of(concept))
  <1> DEFINE Solves(w) == w = [before \in 0 .. Len(log) + 1 |-> Turn(concept, limit, w, before)]
             walk == CHOOSE w : Solves(w)
  <1>1. Solves(walk)
    <2>1. PICK w : w = [before \in 0 .. Len(log) + 1 |-> Turn(concept, limit, w, before)]
      BY WalkExists
    <2>2. Solves(w)
      BY <2>1
    <2> HIDE DEF Solves
    <2>3. QED
      BY <2>2
  <1> HIDE DEF walk
  <1>2. Complete(walk[Len(log) + 1], Of(concept))
    BY <1>1, WalkComplete
  <1>3. Pages(concept, limit) = walk[Len(log) + 1]
    BY DEF Pages, walk, Turn
  <1>4. QED
    BY <1>2, <1>3

\* Whatever is logged, edited and confirmed, whoever follows the cursors of list_problems from
\* the newest page on sees each problem of the concept on one page.
THEOREM ListingIsComplete == Spec => []ListingComplete
  <1>1. ASSUME IInv, NEW concept \in Concepts, NEW limit \in 1 .. 2
        PROVE  /\ UNION Range(Pages(concept, limit)) = Of(concept)
               /\ \A j, k \in DOMAIN Pages(concept, limit) :
                      j # k => Pages(concept, limit)[j] \cap Pages(concept, limit)[k] = {}
    <2>1. Sequence(log) /\ limit \in Nat \ {0}
      BY <1>1 DEF IInv, Typed
    <2>2. QED
      BY <2>1, PagesComplete DEF Complete
  <1>2. IInv => ListingComplete
    BY <1>1, Zenon DEF ListingComplete, Pages, Of
  <1>3. QED
    BY <1>2, Invariant, PTL

---------------------------------------------------------------------------
\* The fold over the solves

\* The interval that solves make of the first one.
Days(solves) == FoldLeft(LAMBDA days, solve : NextInterval(days, solve.ok), Initial, solves)

\* The recursion that a fold stands for, over the sets of places in a list.
Spacing(solves, days, places) ==
    IF places = {} THEN Initial
    ELSE NextInterval(days[places \ {Max(places)}], solves[Max(places)].ok)
Spaces(solves, n, days) == days = [places \in SUBSET (1 .. n) |-> Spacing(solves, days, places)]

\* The fold that Replayed takes over the solves is this recursion.
LEMMA DaysAre ==
  ASSUME NEW solves
  PROVE  Days(solves)
           = (CHOOSE days : days = [places \in SUBSET (DOMAIN solves) |-> Spacing(solves, days, places)])[DOMAIN solves]
  BY Zenon DEF Days, FoldLeft, MapThenFoldSet, Spacing

\* A set of places has a last one.
LEMMA LastPlace ==
  ASSUME NEW n \in Nat, NEW s \in SUBSET (1 .. n), s # {}
  PROVE  Max(s) \in s /\ \A k \in s : k <= Max(s)
  <1> DEFINE above == {m \in Nat : \A k \in s : k <= m}
  <1>1. n \in above
    OBVIOUS
  <1>2. PICK m \in above : \A k \in above : m <= k
    <2>1. above \in SUBSET Nat /\ above # {}
      BY <1>1
    <2> HIDE DEF above
    <2>2. QED
      BY <2>1, LeastNumber
  <1>3. m \in Nat /\ \A k \in s : k \in 1 .. n /\ k <= m
    OBVIOUS
  <1>4. m \in s
    <2>1. SUFFICES ASSUME m \notin s PROVE FALSE
      OBVIOUS
    <2>2. PICK k : k \in s
      OBVIOUS
    <2>3. m - 1 \in Nat /\ ~(m <= m - 1)
      BY <1>3, <2>2
    <2>4. \A j \in s : j <= m - 1
      BY <1>3, <2>1
    <2>5. m - 1 \in above
      BY <2>3, <2>4
    <2> HIDE DEF above
    <2>6. QED
      BY <1>2, <2>3, <2>5
  <1>5. \A x \in s : (\A k \in s : x >= k) => x = m
    BY <1>3, <1>4
  <1>6. \A k \in s : m >= k
    BY <1>3
  <1>7. Max(s) = m
    BY <1>4, <1>5, <1>6 DEF Max
  <1>8. QED
    BY <1>3, <1>4, <1>7

\* The recursion has a solution: a set with a further place follows from those without.
LEMMA SpacesExist ==
  ASSUME NEW solves, NEW n \in Nat
  PROVE  \E days : Spaces(solves, n, days)
  <1> DEFINE Solved(m, days) ==
               /\ DOMAIN days = SUBSET (1 .. m)
               /\ \A s \in SUBSET (1 .. m) : days[s] = Spacing(solves, days, s)
             missing == {m \in Nat : ~\E days : Solved(m, days)}
  <1>1. \E days : Solved(0, days)
    <2> DEFINE days == [s \in SUBSET (1 .. 0) |-> Initial]
    <2>1. \A s \in SUBSET (1 .. 0) : s = {}
      OBVIOUS
    <2>2. \A s \in SUBSET (1 .. 0) : days[s] = Spacing(solves, days, s)
      BY <2>1 DEF Spacing
    <2>3. DOMAIN days = SUBSET (1 .. 0)
      OBVIOUS
    <2> HIDE DEF days
    <2>4. QED
      BY <2>2, <2>3
  <1>2. ASSUME NEW m \in Nat, \E days : Solved(m, days)
        PROVE  \E days : Solved(m + 1, days)
    <2>1. PICK days : Solved(m, days)
      BY <1>2
    <2> DEFINE longer == [s \in SUBSET (1 .. m + 1) |->
                             IF m + 1 \in s THEN NextInterval(days[s \ {m + 1}], solves[m + 1].ok) ELSE days[s]]
    <2>2. \A s \in SUBSET (1 .. m) : s \in SUBSET (1 .. m + 1) /\ m + 1 \notin s
      OBVIOUS
    <2>3. \A s \in SUBSET (1 .. m) : longer[s] = days[s]
      BY <2>2
    <2>4. ASSUME NEW s \in SUBSET (1 .. m + 1) PROVE longer[s] = Spacing(solves, longer, s)
      <3>1. CASE m + 1 \in s
        <4>1. s # {} /\ s \ {m + 1} \in SUBSET (1 .. m)
          BY <3>1
        <4>2. Max(s) = m + 1
          <5>1. m + 1 \in Nat
            OBVIOUS
          <5>2. Max(s) \in s /\ \A k \in s : k <= Max(s)
            BY <4>1, <5>1, LastPlace
          <5>3. Max(s) \in 1 .. m + 1 /\ m + 1 <= Max(s)
            BY <3>1, <5>2
          <5> HIDE DEF longer
          <5>4. QED
            BY <5>1, <5>3
        <4>3. longer[s] = NextInterval(days[s \ {m + 1}], solves[m + 1].ok)
          BY <3>1
        <4> HIDE DEF longer
        <4>4. longer[s \ {m + 1}] = days[s \ {m + 1}]
          BY <2>3, <4>1
        <4>5. QED
          BY <4>1, <4>2, <4>3, <4>4 DEF Spacing
      <3>2. CASE m + 1 \notin s
        <4>1. s \in SUBSET (1 .. m)
          BY <3>2
        <4>2. longer[s] = days[s]
          BY <2>3, <4>1
        <4>3. days[s] = Spacing(solves, days, s)
          BY <2>1, <4>1
        <4>4. Spacing(solves, longer, s) = Spacing(solves, days, s)
          <5>1. s \ {Max(s)} \in SUBSET (1 .. m)
            BY <4>1
          <5>2. longer[s \ {Max(s)}] = days[s \ {Max(s)}]
            BY <2>3, <5>1
          <5> HIDE DEF longer
          <5>3. QED
            BY <5>2 DEF Spacing
        <4>5. QED
          BY <4>2, <4>3, <4>4
      <3>3. QED
        BY <3>1, <3>2
    <2>5. DOMAIN longer = SUBSET (1 .. m + 1)
      OBVIOUS
    <2> HIDE DEF longer
    <2>6. QED
      BY <2>4, <2>5
  <1>3. missing = {}
    <2>1. ASSUME missing # {} PROVE FALSE
      <3>1. missing \in SUBSET Nat
        OBVIOUS
      <3>2. PICK m \in missing : \A k \in missing : m <= k
        <4> HIDE DEF missing
        <4>1. QED
          BY <2>1, <3>1, LeastNumber
      <3> HIDE DEF Solved
      <3>3. m \in Nat /\ m # 0
        BY <1>1
      <3>4. m - 1 \in Nat /\ ~(m <= m - 1) /\ (m - 1) + 1 = m
        BY <3>3
      <3>5. \E days : Solved(m - 1, days)
        BY <3>2, <3>4
      <3>6. \E days : Solved((m - 1) + 1, days)
        BY <1>2, <3>4, <3>5
      <3>7. QED
        BY <3>2, <3>4, <3>6
    <2>2. QED
      BY <2>1
  <1>4. PICK days : Solved(n, days)
    <2> HIDE DEF Solved
    <2>1. QED
      BY <1>3
  <1>5. PICK tuned : tuned = [s \in SUBSET (1 .. n) |-> days[s]]
    OBVIOUS
  <1>6. \A s \in SUBSET (1 .. n) : tuned[s] = Spacing(solves, tuned, s)
    <2>1. SUFFICES ASSUME NEW s \in SUBSET (1 .. n) PROVE tuned[s] = Spacing(solves, tuned, s)
      OBVIOUS
    <2>2. tuned[s] = Spacing(solves, days, s)
      BY <1>4, <1>5
    <2>3. s \ {Max(s)} \in SUBSET (1 .. n)
      OBVIOUS
    <2>4. tuned[s \ {Max(s)}] = days[s \ {Max(s)}]
      BY <1>5, <2>3
    <2>5. QED
      BY <2>2, <2>4 DEF Spacing
  <1>7. tuned = [s \in SUBSET (1 .. n) |-> Spacing(solves, tuned, s)]
    <2>1. tuned = [s \in SUBSET (1 .. n) |-> tuned[s]]
      BY <1>5
    <2>2. QED
      BY <1>6, <2>1
  <1>8. QED
    BY <1>7 DEF Spaces

\* Two lists that begin alike have the same intervals over their common beginning.
BeginAlike(a, b, n) == \A k \in 1 .. n : a[k] = b[k]

LEMMA SpacesAgree ==
  ASSUME NEW n \in Nat, NEW m \in Nat, n <= m, NEW a, NEW b, BeginAlike(a, b, n),
         NEW days, Spaces(a, n, days), NEW further, Spaces(b, m, further)
  PROVE  \A s \in SUBSET (1 .. n) : days[s] = further[s]
  <1> DEFINE wrong == {k \in Nat : \E s \in SUBSET (1 .. n) : s \subseteq 1 .. k /\ days[s] # further[s]}
  <1>1. \A s \in SUBSET (1 .. n) : s \in SUBSET (1 .. m)
    OBVIOUS
  <1>2. /\ \A s \in SUBSET (1 .. n) : days[s] = Spacing(a, days, s)
        /\ \A s \in SUBSET (1 .. m) : further[s] = Spacing(b, further, s)
    BY DEF Spaces
  <1>3. wrong = {}
    <2>1. ASSUME wrong # {} PROVE FALSE
      <3>1. wrong \in SUBSET Nat
        OBVIOUS
      <3>2. PICK k \in wrong : \A j \in wrong : k <= j
        <4> HIDE DEF wrong
        <4>1. QED
          BY <2>1, <3>1, LeastNumber
      <3>3. PICK s \in SUBSET (1 .. n) : s \subseteq 1 .. k /\ days[s] # further[s]
        OBVIOUS
      <3>4. days[s] = Spacing(a, days, s) /\ further[s] = Spacing(b, further, s)
        BY <1>1, <1>2
      <3>5. s # {}
        BY <3>3, <3>4 DEF Spacing
      <3> DEFINE top == Max(s)
      <3>6. top \in s /\ \A j \in s : j <= top
        BY <3>5, LastPlace
      <3> HIDE DEF top
      <3>7. k \in Nat /\ top \in 1 .. k /\ top \in 1 .. n
        BY <3>3, <3>6
      <3>8. s \ {top} \in SUBSET (1 .. n) /\ s \ {top} \subseteq 1 .. top - 1
        <4>1. \A j \in s : j \in 1 .. n /\ j <= top
          BY <3>6
        <4>2. \A j \in s \ {top} : j \in 1 .. top - 1
          BY <3>7, <4>1
        <4>3. QED
          BY <4>2
      <3>9. top - 1 \in Nat /\ ~(k <= top - 1)
        BY <3>7
      <3>10. days[s \ {top}] = further[s \ {top}]
        <4>1. top - 1 \notin wrong
          <5> HIDE DEF wrong
          <5>1. QED
            BY <3>2, <3>9
        <4>2. QED
          BY <3>8, <3>9, <4>1
      <3>11. a[top] = b[top]
        BY <3>7 DEF BeginAlike
      <3>12. days[s] = further[s]
        BY <3>4, <3>5, <3>10, <3>11 DEF Spacing, top
      <3>13. QED
        BY <3>3, <3>12
    <2>2. QED
      BY <2>1
  <1>4. QED
    BY <1>3

\* What the fold of a list is.
LEMMA DaysSolve ==
  ASSUME NEW solves, NEW n \in Nat, DOMAIN solves = 1 .. n
  PROVE  \E days : Spaces(solves, n, days) /\ Days(solves) = days[1 .. n]
  <1>1. PICK days : Spaces(solves, n, days)
    BY SpacesExist
  <1> DEFINE chosen == CHOOSE d : Spaces(solves, n, d)
  <1>2. Spaces(solves, n, chosen)
    BY <1>1
  <1>3. Days(solves) = chosen[1 .. n]
    BY DaysAre DEF Spaces
  <1> HIDE DEF chosen
  <1>4. QED
    BY <1>2, <1>3

\* No solve leaves the first interval.
LEMMA DaysOfNone == Days(<<>>) = Initial
  <1>1. DOMAIN <<>> = 1 .. 0
    OBVIOUS
  <1>2. PICK days : Spaces(<<>>, 0, days) /\ Days(<<>>) = days[1 .. 0]
    BY <1>1, DaysSolve
  <1>3. 1 .. 0 \in SUBSET (1 .. 0) /\ 1 .. 0 = {}
    OBVIOUS
  <1>4. days[1 .. 0] = Spacing(<<>>, days, 1 .. 0)
    BY <1>2, <1>3 DEF Spaces
  <1>5. QED
    BY <1>2, <1>3, <1>4 DEF Spacing

\* One more solve makes the next interval of the last one.
LEMMA DaysOnward ==
  ASSUME NEW s, Sequence(s), NEW e
  PROVE  Days(Append(s, e)) = NextInterval(Days(s), e.ok)
  <1> DEFINE t == Append(s, e)
  <1>1. PICK n \in Nat : n = Len(s)
    BY DEF Sequence
  <1>2. DOMAIN s = 1 .. n /\ DOMAIN t = 1 .. n + 1 /\ t[n + 1] = e /\ \A k \in 1 .. n : s[k] = t[k]
    BY <1>1, Appended
  <1> HIDE DEF t
  <1>3. PICK days : Spaces(s, n, days) /\ Days(s) = days[1 .. n]
    BY <1>2, DaysSolve
  <1>4. PICK m \in Nat : m = n + 1 /\ n <= m
    OBVIOUS
  <1>5. PICK further : Spaces(t, m, further) /\ Days(t) = further[1 .. m]
    <2>1. DOMAIN t = 1 .. m
      BY <1>2, <1>4
    <2>2. QED
      BY <2>1, DaysSolve
  <1>6. days[1 .. n] = further[1 .. n]
    <2>1. Spaces(s, n, days) /\ Spaces(t, m, further) /\ n <= m /\ BeginAlike(s, t, n)
      BY <1>2, <1>3, <1>4, <1>5 DEF BeginAlike
    <2>2. \A p \in SUBSET (1 .. n) : days[p] = further[p]
      BY <2>1, SpacesAgree
    <2>3. 1 .. n \in SUBSET (1 .. n)
      OBVIOUS
    <2>4. QED
      BY <2>2, <2>3
  <1>7. 1 .. m # {} /\ 1 .. m \in SUBSET (1 .. m)
    BY <1>4
  <1>8. Max(1 .. m) = m
    <2>1. Max(1 .. m) \in 1 .. m /\ \A k \in 1 .. m : k <= Max(1 .. m)
      BY <1>7, LastPlace
    <2>2. m \in 1 .. m
      BY <1>4
    <2>3. QED
      BY <2>1, <2>2
  <1>9. (1 .. m) \ {m} = 1 .. n /\ t[m] = e
    BY <1>2, <1>4
  <1>10. further[1 .. m] = Spacing(t, further, 1 .. m)
    BY <1>5, <1>7 DEF Spaces
  <1>11. Spacing(t, further, 1 .. m) = NextInterval(further[1 .. n], e.ok)
    BY <1>7, <1>8, <1>9 DEF Spacing
  <1>12. QED
    BY <1>3, <1>5, <1>6, <1>10, <1>11 DEF t

---------------------------------------------------------------------------
\* The schedule of a row with one writer

\* Who has written the evidence and the reviews of a row.
WrittenBy(row) ==
    {row.solves[n].by : n \in DOMAIN row.solves \ {1}} \cup {mark.by : mark \in Range(row.solves[1].marks)}
SoleWriter(c, row) == WrittenBy(row) \subseteq {c}

\* A row whose schedule is the one its solves make.
Follows(row) ==
    LET count == Cardinality(Successes(row.solves))
        last == Len(row.solves) - 1
    IN  /\ row.count = count
        /\ IF count >= GraduationSolves
           THEN /\ row.status = "graduated" /\ row.due = None /\ row.graduated = last
                /\ row.stability = Days(Tail(Front(row.solves)))
           ELSE /\ row.status = "active" /\ row.due = last /\ row.graduated = None
                /\ row.stability = Days(Tail(row.solves))

\* A row that is pending is as log_problem left it.
Waiting(row) ==
    row.status = "pending_classification" =>
        /\ row.count = 1 /\ row.stability = None /\ row.due = None /\ row.graduated = None
        /\ Len(row.solves) = 1 /\ row.solves[1].ok = TRUE

OfColumns(row) == row = [column \in Columns |-> row[column]]
Spaced(row) ==
    /\ OfColumns(row)
    /\ Waiting(row)
    /\ row.status # "pending_classification" => \A c : SoleWriter(c, row) => Follows(row)

\* What a request has read of a row that nobody else has written is what is there.
Schedule == {"status", "count", "stability", "due", "graduated"}
Current(c) ==
    /\ pc[c] = "resolve" => Waiting(loaded[c])
    /\ pc[c] \in {"count", "review"} /\ SoleWriter(c, log[target[c]]) =>
           \A column \in Schedule : loaded[c][column] = log[target[c]][column]

ScheduleInv ==
    /\ \A p \in DOMAIN log : Spaced(log[p])
    /\ \A c \in Clients : Current(c)

\* A list of solves and one more: what comes before the last, and what follows the first.
LEMMA OneLonger ==
  ASSUME NEW s, Sequence(s), Len(s) >= 1, NEW e
  PROVE  Front(Append(s, e)) = s /\ Sequence(Tail(s)) /\ Tail(Append(s, e)) = Append(Tail(s), e)
  <1> DEFINE kinds == Range(s) \cup {e}
  <1>1. s \in Seq(kinds) /\ e \in kinds
    BY DEF Sequence
  <1> HIDE DEF kinds
  <1>2. PICK L \in Nat : L = Len(s) /\ L >= 1
    BY <1>1
  <1>3. Append(s, e) \in Seq(kinds) /\ Len(Append(s, e)) = L + 1
    BY <1>1, <1>2
  <1>4. Front(Append(s, e)) = s
    <2>1. Front(Append(s, e)) = SubSeq(Append(s, e), 1, L)
      BY <1>2, <1>3 DEF Front
    <2>2. SubSeq(Append(s, e), 1, L) \in Seq(kinds) /\ Len(SubSeq(Append(s, e), 1, L)) = L
      BY <1>2, <1>3
    <2>3. \A n \in 1 .. L : SubSeq(Append(s, e), 1, L)[n] = s[n]
      BY <1>1, <1>2, <1>3
    <2> DEFINE cut == SubSeq(Append(s, e), 1, L)
    <2> HIDE DEF cut
    <2>4. cut = s
      <3>1. cut \in Seq(kinds) /\ Len(cut) = Len(s) /\ \A n \in 1 .. Len(s) : cut[n] = s[n]
        BY <1>2, <2>2, <2>3 DEF cut
      <3>2. QED
        BY <1>1, <3>1
    <2>5. QED
      BY <2>1, <2>4 DEF cut
  <1>5. Tail(s) \in Seq(kinds) /\ Len(Tail(s)) = L - 1 /\ \A n \in 1 .. L - 1 : Tail(s)[n] = s[n + 1]
    BY <1>1, <1>2
  <1>6. Sequence(Tail(s))
    <2> DEFINE t == Tail(s)
    <2>1. t \in Seq(kinds) /\ Len(t) = L - 1
      BY <1>5
    <2> HIDE DEF t
    <2>2. DOMAIN t = 1 .. Len(t)
      BY <2>1
    <2>3. \A n \in 1 .. Len(t) : t[n] \in Range(t)
      BY <2>2 DEF Range
    <2>4. t \in Seq(Range(t))
      BY <2>1, <2>3
    <2>5. QED
      BY <2>4 DEF Sequence, t
  <1>7. Tail(Append(s, e)) = Append(Tail(s), e)
    <2> DEFINE a == Tail(Append(s, e))
               b == Append(Tail(s), e)
    <2>1. a \in Seq(kinds) /\ Len(a) = L /\ \A n \in 1 .. L : a[n] = Append(s, e)[n + 1]
      BY <1>2, <1>3
    <2>2. b \in Seq(kinds) /\ Len(b) = L /\ b[L] = e /\ \A n \in 1 .. L - 1 : b[n] = Tail(s)[n]
      BY <1>1, <1>2, <1>5
    <2>3. \A n \in 1 .. L - 1 : Append(s, e)[n + 1] = s[n + 1]
      BY <1>1, <1>2
    <2>4. Append(s, e)[L + 1] = e
      BY <1>1, <1>2
    <2> HIDE DEF a, b
    <2>5. \A n \in 1 .. L : a[n] = b[n]
      <3>1. SUFFICES ASSUME NEW n \in 1 .. L PROVE a[n] = b[n]
        OBVIOUS
      <3>2. CASE n = L
        BY <2>1, <2>2, <2>4, <3>2
      <3>3. CASE n # L
        <4>1. n \in 1 .. L - 1
          BY <1>2, <3>3
        <4>2. QED
          BY <1>5, <2>1, <2>2, <2>3, <4>1
      <3>4. QED
        BY <3>2, <3>3
    <2>6. a = b
      BY <2>1, <2>2, <2>5
    <2>7. QED
      BY <2>6 DEF a, b
  <1>8. QED
    BY <1>4, <1>6, <1>7

\* A list of one is nothing but its first.
LEMMA NothingFollows ==
  ASSUME NEW s, Sequence(s), Len(s) = 1
  PROVE  Tail(s) = <<>>
  <1> DEFINE t == Tail(s)
  <1>1. t \in Seq(Range(s)) /\ Len(t) = 0
    <2>1. PICK kinds : kinds = Range(s)
      OBVIOUS
    <2>2. s \in Seq(kinds) /\ Len(s) = 1
      BY <2>1 DEF Sequence
    <2>3. Tail(s) \in Seq(kinds) /\ Len(Tail(s)) = 0
      BY ONLY <2>2
    <2>4. QED
      BY <2>1, <2>3
  <1>2. <<>> \in Seq(Range(s)) /\ Len(<<>>) = 0
    OBVIOUS
  <1> HIDE DEF t
  <1>3. t = <<>>
    BY <1>1, <1>2
  <1>4. QED
    BY <1>3 DEF t

\* A row that follows its solves is what they make of it.
LEMMA FollowsIsReplayed ==
  ASSUME NEW row, OfColumns(row), Follows(row)
  PROVE  row = Replayed(row)
  <1> DEFINE count == Cardinality(Successes(row.solves))
             done == count >= GraduationSolves
             spaced == IF done THEN Front(row.solves) ELSE row.solves
             last == Len(row.solves) - 1
             fresh == [row EXCEPT !.count = count,
                           !.status = IF done THEN "graduated" ELSE "active",
                           !.due = IF done THEN None ELSE last,
                           !.graduated = IF done THEN last ELSE None,
                           !.stability = Days(Tail(spaced))]
  <1>1. Replayed(row) = fresh
    BY DEF Replayed, Days
  <1>2. /\ row.count = count /\ row.status = (IF done THEN "graduated" ELSE "active")
        /\ row.due = (IF done THEN None ELSE last) /\ row.graduated = (IF done THEN last ELSE None)
        /\ row.stability = Days(Tail(spaced))
    BY DEF Follows
  <1> HIDE DEF count, last, spaced
  <1>3. DOMAIN fresh = Columns /\ fresh = [column \in Columns |-> fresh[column]]
    BY DEF Columns, OfColumns
  <1>4. \A column \in Columns : fresh[column] = row[column]
    BY <1>2 DEF Columns, OfColumns
  <1> HIDE DEF fresh
  <1>5. fresh = row
    BY <1>3, <1>4 DEF OfColumns
  <1>6. QED
    BY <1>1, <1>5

---------------------------------------------------------------------------
\* What a step may do to a schedule

\* A write that a client who works on a row has nothing to fear from.
Untouched(d, row, made) ==
    SoleWriter(d, made) =>
        SoleWriter(d, row) /\ \A column \in Schedule : made[column] = row[column]

\* A problem that is logged, accepted or pending.
LEMMA LoggedSpaced ==
  ASSUME NEW c, NEW url, NEW proposal, NEW imported
  PROVE  Spaced(Logged(c, url, proposal, imported))
  <1> DEFINE row == Logged(c, url, proposal, imported)
             accepted == AutoAccepted(proposal) /\ ~imported
  <1>1. /\ OfColumns(row)
        /\ row.count = 1 /\ row.graduated = None
        /\ row.status = (IF accepted THEN "active" ELSE "pending_classification")
        /\ row.stability = (IF accepted THEN Initial ELSE None)
        /\ row.due = (IF accepted THEN 0 ELSE None)
    BY DEF Logged, Columns, OfColumns
  <1>2. \E solve : row.solves = <<solve>> /\ solve.ok = TRUE
    BY DEF Logged
  <1> HIDE DEF row
  <1>3. PICK solve : row.solves = <<solve>> /\ solve.ok = TRUE
    BY <1>2
  <1>4. /\ Sequence(row.solves) /\ Len(row.solves) = 1 /\ DOMAIN row.solves = {1}
        /\ row.solves[1] = solve
    BY <1>3, Single
  <1>5. Cardinality(Successes(row.solves)) = 1
    <2>1. Successes(row.solves) = {1}
      BY <1>3, <1>4 DEF Successes
    <2>2. QED
      BY <2>1, FS_Singleton
  <1>6. Days(Tail(row.solves)) = Initial
    BY <1>4, NothingFollows, DaysOfNone
  <1>7. accepted => Follows(row)
    <2>1. Len(row.solves) - 1 = 0 /\ ~(1 >= GraduationSolves)
      BY <1>4, PracticeAssumption
    <2> HIDE DEF accepted
    <2>2. QED
      BY <1>1, <1>5, <1>6, <2>1 DEF Follows
  <1>8. Waiting(row)
    BY <1>1, <1>3, <1>4 DEF Waiting
  <1>9. QED
    BY <1>1, <1>7, <1>8 DEF Spaced, row

\* A confirmation starts the schedule of a row that is pending, and joins another writer of a
\* row that no longer is.
LEMMA ConfirmedSpaced ==
  ASSUME NEW c, NEW correction, correction.primary \in Concepts,
         NEW old, NEW row, Sound(old), Sound(row), ~HasMarked(c, row), Spaced(row),
         Waiting(old), old.status = "pending_classification"
  PROVE  LET new == [old EXCEPT !.primary = correction.primary, !.status = "active",
                         !.secondary = Besides(correction), !.stability = Initial, !.due = 0]
             made == [Update(row, old, new) EXCEPT
                         !.solves = WithMark(row.solves, 1, MarkOf(c, new))]
         IN  Spaced(made) /\ \A d : d # c => Untouched(d, row, made)
  <1> DEFINE new == [old EXCEPT !.primary = correction.primary, !.status = "active",
                         !.secondary = Besides(correction), !.stability = Initial, !.due = 0]
             updated == Update(row, old, new)
             made == [updated EXCEPT !.solves = WithMark(row.solves, 1, MarkOf(c, new))]
  <1>1. DOMAIN old = Columns /\ DOMAIN row = Columns /\ correction.primary # NoConcept
    BY ClassificationAssumption DEF Sound, Shaped
  <1>2. /\ new.primary = correction.primary /\ new.status = "active" /\ new.count = old.count
        /\ new.stability = Initial /\ new.due = 0 /\ new.graduated = old.graduated
    BY <1>1 DEF Columns
  <1> HIDE DEF new
  <1>3. PICK mark : mark.by = c /\ MarkOf(c, new) = <<mark>>
    <2>1. new.primary # NoConcept
      BY <1>1, <1>2
    <2>2. QED
      BY <2>1, OneMark
  <1>4. old.stability = None /\ old.due = None
    BY DEF Waiting
  <1>5. \A column \in Columns : updated[column] = IF new[column] # old[column] THEN new[column] ELSE row[column]
    BY <1>1 DEF Update
  <1>6. DOMAIN updated = Columns
    BY <1>1 DEF Update
  <1>7. /\ updated.status = "active" /\ updated.stability = Initial /\ updated.due = 0
        /\ updated.count = row.count /\ updated.graduated = row.graduated
    BY <1>2, <1>4, <1>5 DEF Columns, None, Initial
  <1> HIDE DEF updated
  <1>8. /\ OfColumns(made) /\ made.solves = WithMark(row.solves, 1, <<mark>>)
        /\ made.status = "active" /\ made.stability = Initial /\ made.due = 0
        /\ made.count = row.count /\ made.graduated = row.graduated
    BY <1>3, <1>6, <1>7 DEF Columns, OfColumns
  <1> HIDE DEF made
  <1> DEFINE first == [row.solves[1] EXCEPT !.marks = row.solves[1].marks \o <<mark>>]
  <1>9. /\ Sequence(row.solves) /\ 1 \in DOMAIN row.solves
        /\ ShapedSolve(row.solves[1]) /\ Sequence(row.solves[1].marks)
    BY DEF Sound, Shaped, ShapedSolve, Sequence
  <1>10. made.solves = [row.solves EXCEPT ![1] = first]
    BY <1>8, <1>9 DEF WithMark
  <1>11. first.ok = row.solves[1].ok /\ first.marks = Append(row.solves[1].marks, mark)
    BY <1>9, Concatenated DEF ShapedSolve, SolveColumns
  <1> HIDE DEF first
  <1>12. /\ Sequence(made.solves) /\ Len(made.solves) = Len(row.solves) /\ DOMAIN made.solves = DOMAIN row.solves
         /\ made.solves[1] = first /\ \A n \in DOMAIN row.solves : n # 1 => made.solves[n] = row.solves[n]
    BY <1>9, <1>10, Replaced
  <1> DEFINE marks == row.solves[1].marks
  <1>13. Range(first.marks) = Range(marks) \cup {mark}
    <2>1. /\ Len(marks) \in Nat /\ DOMAIN marks = 1 .. Len(marks) /\ DOMAIN first.marks = 1 .. Len(marks) + 1
          /\ \A k \in DOMAIN marks : first.marks[k] = marks[k]
          /\ first.marks[Len(marks) + 1] = mark
      BY <1>9, <1>11, Appended
    <2> HIDE DEF marks
    <2>2. PICK L \in Nat : L = Len(marks)
      BY <2>1
    <2>3. \A k \in 1 .. L + 1 : k \in 1 .. L \/ k = L + 1
      OBVIOUS
    <2>4. Range(first.marks) \subseteq Range(marks) \cup {mark}
      BY <2>1, <2>2, <2>3 DEF Range
    <2>5. Range(marks) \subseteq Range(first.marks)
      BY <2>1, <2>2 DEF Range
    <2>6. mark \in Range(first.marks)
      BY <2>1, <2>2 DEF Range
    <2>7. QED
      BY <2>4, <2>5, <2>6
  <1>14. c \in WrittenBy(made) /\ \A m \in Range(marks) : m.by \in WrittenBy(made)
    BY <1>3, <1>12, <1>13 DEF WrittenBy
  <1>15. \A d : d # c => Untouched(d, row, made)
    BY <1>14 DEF Untouched, SoleWriter
  <1>16. ASSUME row.status = "pending_classification" PROVE Spaced(made)
    <2>1. row.count = 1 /\ row.graduated = None /\ Len(row.solves) = 1 /\ row.solves[1].ok = TRUE
      BY <1>16 DEF Spaced, Waiting
    <2>2. Len(made.solves) = 1 /\ DOMAIN made.solves = {1} /\ made.solves[1].ok = TRUE
      BY <1>9, <1>11, <1>12, <2>1 DEF Sequence
    <2>3. Cardinality(Successes(made.solves)) = 1
      <3>1. Successes(made.solves) = {1}
        BY <2>2 DEF Successes
      <3>2. QED
        BY <3>1, FS_Singleton
    <2>4. Days(Tail(made.solves)) = Initial
      BY <1>12, <2>2, NothingFollows, DaysOfNone
    <2>5. Follows(made)
      <3>1. Len(made.solves) - 1 = 0 /\ ~(1 >= GraduationSolves)
        BY <2>2, PracticeAssumption
      <3>2. QED
        BY <1>8, <2>1, <2>3, <2>4, <3>1 DEF Follows
    <2>6. Waiting(made)
      BY <1>8 DEF Waiting
    <2>7. QED
      BY <1>8, <2>5, <2>6 DEF Spaced
  <1>17. ASSUME row.status # "pending_classification" PROVE Spaced(made)
    <2>1. marks # <<>>
      BY <1>9, <1>17 DEF Sound, Evidenced
    <2>2. 1 \in DOMAIN marks
      <3> HIDE DEF marks
      <3>1. Sequence(marks)
        BY <1>9 DEF marks
      <3>2. QED
        BY <2>1, <3>1 DEF Sequence
    <2>3. marks[1] \in Range(marks) /\ marks[1].by # c
      BY <2>2 DEF HasMarked, Range
    <2>4. marks[1].by \in WrittenBy(made)
      BY <1>14, <2>3
    <2>5. \A d : ~SoleWriter(d, made)
      BY <1>14, <2>3, <2>4 DEF SoleWriter
    <2>6. Waiting(made)
      BY <1>8 DEF Waiting
    <2>7. QED
      BY <1>8, <2>5, <2>6 DEF Spaced
  <1>18. QED
    BY <1>15, <1>16, <1>17 DEF made, updated, new

\* An edit of the labels leaves the schedule and its writers alone.
LEMMA EditedSpaced ==
  ASSUME NEW labels, NEW old, NEW row, Sound(old), Sound(row), Spaced(row)
  PROVE  LET made == Update(row, old, [old EXCEPT !.labels = labels])
         IN  Spaced(made) /\ \A d : Untouched(d, row, made)
  <1> DEFINE new == [old EXCEPT !.labels = labels]
             made == Update(row, old, new)
  <1>1. DOMAIN old = Columns /\ DOMAIN row = Columns
    BY DEF Sound, Shaped
  <1>2. \A column \in Columns : column # "labels" => new[column] = old[column]
    BY <1>1 DEF Columns
  <1> HIDE DEF new
  <1>3. /\ OfColumns(made)
        /\ \A column \in Columns : column # "labels" => made[column] = row[column]
    BY <1>1, <1>2 DEF Update, OfColumns
  <1> HIDE DEF made
  <1>4. /\ made.status = row.status /\ made.count = row.count /\ made.stability = row.stability
        /\ made.due = row.due /\ made.graduated = row.graduated /\ made.solves = row.solves
    BY <1>3 DEF Columns
  <1>5. WrittenBy(made) = WrittenBy(row)
    BY <1>4 DEF WrittenBy
  <1>6. Follows(row) => Follows(made)
    BY <1>4 DEF Follows
  <1>7. Spaced(made)
    BY <1>3, <1>4, <1>5, <1>6 DEF Spaced, Waiting, SoleWriter
  <1>8. \A d : Untouched(d, row, made)
    BY <1>4, <1>5 DEF Untouched, SoleWriter, Schedule
  <1>9. QED
    BY <1>7, <1>8 DEF made, new

\* What a review makes of the schedule it has read.
LEMMA ReviewedSchedule ==
  ASSUME NEW row, DOMAIN row = Columns, NEW n, NEW ok \in BOOLEAN
  PROVE  LET new == Reviewed(row, n, ok)
             done == row.count + 1 >= GraduationSolves
         IN  /\ new.count = IF ok THEN row.count + 1 ELSE row.count
             /\ new.status = IF ok /\ done THEN "graduated" ELSE row.status
             /\ new.due = IF ok /\ done THEN None ELSE n
             /\ new.graduated = IF ok /\ done THEN n ELSE row.graduated
             /\ new.stability = IF ok /\ done THEN row.stability ELSE NextInterval(row.stability, ok)
  <1>1. CASE ok /\ row.count + 1 >= GraduationSolves
    BY <1>1 DEF Reviewed, Columns
  <1>2. CASE ok /\ ~(row.count + 1 >= GraduationSolves)
    <2>1. ok = TRUE
      BY <1>2
    <2>2. QED
      BY <1>2, <2>1 DEF Reviewed, Columns
  <1>3. CASE ~ok
    <2>1. ok = FALSE
      BY <1>3
    <2>2. QED
      BY <2>1 DEF Reviewed, Columns
  <1>4. QED
    BY <1>1, <1>2, <1>3

\* A schedule that follows its solves follows them after one more, when the review counts from
\* what is there and numbers its solve by it.
LEMMA FollowsOnward ==
  ASSUME NEW row, Sound(row), row.status = "active", Follows(row), NEW ok \in BOOLEAN,
         NEW solve, ShapedSolve(solve), solve.ok = ok, NEW made, OneMore(made, row, solve),
         \A column \in Schedule : made[column] = Reviewed(row, Len(row.solves), ok)[column]
  PROVE  Follows(made)
  <1> DEFINE n == Len(row.solves)
             count == Cardinality(Successes(row.solves))
             done == row.count + 1 >= GraduationSolves
  <1>1. Shaped(row) /\ DOMAIN row = Columns /\ Sequence(row.solves) /\ n >= 1 /\ n \in Nat
    BY DEF Sound, Shaped, Sequence
  <1>2. Lengthened(made, row, solve)
    BY <1>1, OneMoreSolve
  <1>3. /\ count \in Nat /\ ~(count >= GraduationSolves) /\ row.count = count
        /\ row.due = n - 1 /\ row.graduated = None /\ row.stability = Days(Tail(row.solves))
    BY <1>2 DEF Follows, Lengthened
  <1>4. /\ made.count = IF ok THEN row.count + 1 ELSE row.count
        /\ made.status = IF ok /\ done THEN "graduated" ELSE row.status
        /\ made.due = IF ok /\ done THEN None ELSE n
        /\ made.graduated = IF ok /\ done THEN n ELSE row.graduated
        /\ made.stability = IF ok /\ done THEN row.stability ELSE NextInterval(row.stability, ok)
    BY <1>1, ReviewedSchedule DEF Schedule
  <1>5. made.solves = Append(row.solves, solve) /\ Len(made.solves) = n + 1
    BY <1>2 DEF OneMore, Lengthened
  <1>6. /\ Front(made.solves) = row.solves
        /\ Days(Tail(made.solves)) = NextInterval(Days(Tail(row.solves)), ok)
    <2>1. /\ Front(Append(row.solves, solve)) = row.solves /\ Sequence(Tail(row.solves))
          /\ Tail(Append(row.solves, solve)) = Append(Tail(row.solves), solve)
      BY <1>1, OneLonger
    <2>2. Days(Append(Tail(row.solves), solve)) = NextInterval(Days(Tail(row.solves)), solve.ok)
      BY <2>1, DaysOnward
    <2>3. QED
      BY <1>5, <2>1, <2>2
  <1> HIDE DEF n
  <1>7. PICK last \in Nat : last = n /\ Len(made.solves) - 1 = last
    <2>1. Len(made.solves) - 1 = n
      BY <1>1, <1>5
    <2>2. QED
      BY <1>1, <2>1
  <1>8. CASE ok
    <2>1. Cardinality(Successes(made.solves)) = count + 1 /\ ok = TRUE
      BY <1>2, <1>8 DEF Lengthened
    <2> HIDE DEF count
    <2>2. CASE done
      BY <1>3, <1>4, <1>6, <1>7, <1>8, <2>1, <2>2 DEF Follows
    <2>3. CASE ~done
      BY <1>3, <1>4, <1>6, <1>7, <1>8, <2>1, <2>3 DEF Follows
    <2>4. QED
      BY <2>2, <2>3
  <1>9. CASE ~ok
    <2>1. Cardinality(Successes(made.solves)) = count /\ ok = FALSE
      BY <1>2, <1>9 DEF Lengthened
    <2> HIDE DEF count
    <2>2. QED
      BY <1>3, <1>4, <1>6, <1>7, <1>9, <2>1 DEF Follows
  <1>10. QED
    BY <1>8, <1>9

\* A review by the only writer of a row keeps its schedule; any other review is by another writer.
LEMMA ReviewedSpaced ==
  ASSUME NEW c, NEW ok \in BOOLEAN, NEW n,
         NEW old, NEW row, Sound(old), Sound(row), Spaced(row), Became(old, row), old.status = "active",
         n = Len(row.solves),
         SoleWriter(c, row) => \A column \in Schedule : old[column] = row[column]
  PROVE  LET solve == [by |-> c, ok |-> ok, marks |-> MarkOf(c, old)]
             made == [Update(row, old, Reviewed(old, n, ok)) EXCEPT
                         !.solves = Append(row.solves, solve)]
         IN  Spaced(made) /\ \A d : d # c => Untouched(d, row, made)
  <1> DEFINE solve == [by |-> c, ok |-> ok, marks |-> MarkOf(c, old)]
             new == Reviewed(old, n, ok)
             updated == Update(row, old, new)
             made == [updated EXCEPT !.solves = Append(row.solves, solve)]
  <1>1. /\ Shaped(old) /\ Shaped(row) /\ DOMAIN old = Columns /\ DOMAIN row = Columns /\ old.count \in Nat
        /\ row.status \in {"active", "graduated"} /\ old.primary # NoConcept
        /\ Sequence(row.solves) /\ Len(row.solves) >= 1
    BY DEF Sound, Shaped, Earned, Evidenced, Statuses, Became
  <1>2. PICK mark : MarkOf(c, old) = <<mark>>
    BY <1>1, OneMark
  <1>3. ShapedSolve(solve) /\ solve.ok = ok /\ solve.by = c
    BY <1>2, Single DEF ShapedSolve, SolveColumns
  <1>4. new.status \in {"active", "graduated"}
    BY <1>1, ReviewedSchedule
  <1> HIDE DEF new
  <1>5. /\ DOMAIN updated = Columns
        /\ \A column \in Columns :
               updated[column] = IF new[column] # old[column] THEN new[column] ELSE row[column]
    BY <1>1 DEF Update
  <1> HIDE DEF updated, solve
  <1>6. /\ OfColumns(made) /\ DOMAIN made = Columns
        /\ made.solves = Append(row.solves, solve)
        /\ \A column \in Columns : column # "solves" => made[column] = updated[column]
    BY <1>5 DEF Columns, OfColumns
  <1> HIDE DEF made
  <1>7. made.status # "pending_classification"
    <2>1. made.status = updated.status /\ updated.status \in {new.status, row.status}
      BY <1>5, <1>6 DEF Columns
    <2>2. QED
      BY <1>1, <1>4, <2>1
  <1>8. OneMore(made, row, solve)
    BY <1>6 DEF OneMore
  <1>9. Lengthened(made, row, solve)
    BY <1>1, <1>3, <1>8, OneMoreSolve
  <1>10. WrittenBy(row) \subseteq WrittenBy(made) /\ c \in WrittenBy(made)
    <2>1. PICK L \in Nat : /\ L = Len(row.solves) /\ L >= 1
                           /\ DOMAIN row.solves = 1 .. L /\ DOMAIN made.solves = 1 .. L + 1
                           /\ \A k \in 1 .. L : made.solves[k] = row.solves[k]
                           /\ made.solves[L + 1] = solve
      BY <1>1, <1>9 DEF Lengthened
    <2>2. L + 1 \in DOMAIN made.solves \ {1} /\ \A k \in 1 .. L : k \in 1 .. L + 1
      BY <2>1
    <2>3. made.solves[1] = row.solves[1]
      BY <2>1
    <2>4. c \in WrittenBy(made)
      BY <1>3, <2>1, <2>2 DEF WrittenBy
    <2>5. WrittenBy(row) \subseteq WrittenBy(made)
      BY <2>1, <2>2, <2>3 DEF WrittenBy
    <2>6. QED
      BY <2>4, <2>5
  <1>11. \A d : d # c => Untouched(d, row, made)
    BY <1>10 DEF Untouched, SoleWriter
  <1>12. ASSUME NEW d, SoleWriter(d, made) PROVE Follows(made)
    <2>1. d = c /\ SoleWriter(c, row)
      BY <1>10, <1>12 DEF SoleWriter
    <2>2. \A column \in Schedule : old[column] = row[column]
      BY <2>1
    <2>3. row.status = "active" /\ row.count = old.count /\ row.stability = old.stability
          /\ row.due = old.due /\ row.graduated = old.graduated
      BY <2>2 DEF Schedule
    <2>4. Follows(row)
      BY <2>1, <2>3 DEF Spaced
    <2>5. \A column \in Schedule : made[column] = new[column]
      <3>1. \A column \in Schedule : column \in Columns /\ column # "solves"
        BY DEF Schedule, Columns
      <3>2. QED
        BY <1>5, <1>6, <2>2, <3>1
    <2>6. \A column \in Schedule : new[column] = Reviewed(row, Len(row.solves), ok)[column]
      <3> DEFINE same == Reviewed(row, n, ok)
      <3>1. /\ same.count = new.count /\ same.status = new.status /\ same.due = new.due
            /\ same.graduated = new.graduated /\ same.stability = new.stability
        BY <1>1, <2>3, ReviewedSchedule DEF new
      <3> HIDE DEF same
      <3>2. \A column \in Schedule : same[column] = new[column]
        BY <3>1 DEF Schedule
      <3>3. QED
        BY <3>2 DEF same
    <2>7. \A column \in Schedule : made[column] = Reviewed(row, Len(row.solves), ok)[column]
      BY <2>5, <2>6
    <2>8. QED
      BY <1>3, <1>8, <2>3, <2>4, <2>7, FollowsOnward
  <1>13. Spaced(made)
    BY <1>6, <1>7, <1>12 DEF Spaced, Waiting
  <1>14. QED
    BY <1>11, <1>13 DEF made, updated, new, solve

---------------------------------------------------------------------------
\* What a step may do to the schedules

\* Another client's reading stays current, and so does one of the idle.
LEMMA CurrentOnward ==
  ASSUME IInv, ScheduleInv, NEW d \in Clients,
         pc'[d] = pc[d] \/ (pc[d] = "count" /\ pc'[d] = "review"),
         target'[d] = target[d], loaded'[d] = loaded[d],
         \A p \in DOMAIN log : Untouched(d, log[p], log'[p])
  PROVE  Current(d)'
  <1>1. pc'[d] = "resolve" => Waiting(loaded'[d])
    BY DEF ScheduleInv, Current
  <1>2. ASSUME pc'[d] \in {"count", "review"}, SoleWriter(d, log'[target'[d]])
        PROVE  \A column \in Schedule : loaded'[d][column] = log'[target'[d]][column]
    <2> DEFINE p == target[d]
    <2>1. pc[d] \in {"count", "review"}
      BY <1>2
    <2>2. p \in DOMAIN log
      BY <2>1 DEF IInv, Working
    <2>3. Untouched(d, log[p], log'[p])
      BY <2>2
    <2>4. SoleWriter(d, log[p]) /\ \A column \in Schedule : log'[p][column] = log[p][column]
      BY <1>2, <2>3 DEF Untouched
    <2>5. \A column \in Schedule : loaded[d][column] = log[p][column]
      BY <2>1, <2>4 DEF ScheduleInv, Current
    <2>6. QED
      BY <2>4, <2>5
  <1>3. QED
    BY <1>1, <1>2 DEF Current

\* Leaving a row alone touches nothing.
LEMMA ItselfUntouched == ASSUME NEW d, NEW row PROVE Untouched(d, row, row)
  BY DEF Untouched

\* A client that has finished has read nothing.
LEMMA FinishedCurrent ==
  ASSUME IInv, NEW c \in Clients, Finish(c)
  PROVE  Current(c)'
  <1>1. pc'[c] = "idle"
    BY DEF IInv, Typed, Finish
  <1>2. QED
    BY <1>1 DEF Current

\* A request that writes one row and is over.
LEMMA ScheduleRowStep ==
  ASSUME IInv, ScheduleInv, NEW c \in Clients, NEW p \in DOMAIN log, NEW made, Spaced(made),
         \A d : d # c => Untouched(d, log[p], made),
         log' = [log EXCEPT ![p] = made], Finish(c)
  PROVE  ScheduleInv'
  <1> DEFINE after == [log EXCEPT ![p] = made]
  <1>1. /\ DOMAIN after = DOMAIN log
        /\ after[p] = made /\ \A q \in DOMAIN log : q # p => after[q] = log[q]
    BY Replaced DEF IInv, Typed
  <1>2. log' = after
    OBVIOUS
  <1> HIDE DEF after
  <1>3. DOMAIN log' = DOMAIN log /\ log'[p] = made /\ \A q \in DOMAIN log : q # p => log'[q] = log[q]
    BY <1>1, <1>2
  <1>4. \A q \in DOMAIN log' : Spaced(log'[q])
    BY <1>3 DEF ScheduleInv
  <1>5. \A d \in Clients \ {c} : Current(d)'
    <2>1. SUFFICES ASSUME NEW d \in Clients, d # c PROVE Current(d)'
      OBVIOUS
    <2>2. \A q \in DOMAIN log : Untouched(d, log[q], log'[q])
      BY <1>3, <2>1, ItselfUntouched
    <2>3. pc'[d] = pc[d] /\ target'[d] = target[d] /\ loaded'[d] = loaded[d]
      BY <2>1, FinishedClient
    <2>4. QED
      BY <2>2, <2>3, CurrentOnward
  <1>6. QED
    BY <1>4, <1>5, FinishedCurrent DEF ScheduleInv

\* A request that adds a row.
LEMMA ScheduleAppendStep ==
  ASSUME IInv, ScheduleInv, NEW row, Spaced(row), log' = Append(log, row), UNCHANGED <<pc, target, loaded>>
  PROVE  ScheduleInv'
  <1>1. /\ Len(log) \in Nat /\ DOMAIN log = 1 .. Len(log) /\ DOMAIN log' = 1 .. Len(log) + 1
        /\ \A p \in DOMAIN log : log'[p] = log[p]
        /\ log'[Len(log) + 1] = row
    BY Appended DEF IInv, Typed
  <1>2. \A p \in DOMAIN log' : p \in DOMAIN log \/ p = Len(log) + 1
    BY <1>1
  <1>3. \A p \in DOMAIN log' : Spaced(log'[p])
    BY <1>1, <1>2 DEF ScheduleInv
  <1>4. ASSUME NEW d \in Clients PROVE Current(d)'
    <2>1. \A p \in DOMAIN log : Untouched(d, log[p], log'[p])
      BY <1>1, ItselfUntouched
    <2>2. QED
      BY <2>1, CurrentOnward
  <1>5. QED
    BY <1>3, <1>4 DEF ScheduleInv

\* A step that writes no row.
LEMMA ScheduleQuietStep ==
  ASSUME IInv, ScheduleInv, NEW c \in Clients, UNCHANGED log, Current(c)',
         \A d \in Clients \ {c} : pc'[d] = pc[d] /\ target'[d] = target[d] /\ loaded'[d] = loaded[d]
  PROVE  ScheduleInv'
  <1>1. ASSUME NEW d \in Clients \ {c} PROVE Current(d)'
    BY <1>1, ItselfUntouched, CurrentOnward
  <1>2. QED
    BY <1>1 DEF ScheduleInv

\* A request that loads a row has read what is there.
LEMMA ScheduleLoadStep ==
  ASSUME IInv, ScheduleInv, NEW c \in Clients, NEW p \in DOMAIN log, NEW label, NEW what,
         Load(c, p, label, what)
  PROVE  ScheduleInv'
  <1>1. /\ target'[c] = p /\ loaded'[c] = log[p] /\ log' = log
        /\ \A d \in Clients \ {c} : pc'[d] = pc[d] /\ target'[d] = target[d] /\ loaded'[d] = loaded[d]
    BY DEF Load, IInv, Typed
  <1>2. Current(c)'
    BY <1>1 DEF Current, ScheduleInv, Spaced
  <1>3. QED
    BY <1>1, <1>2, ScheduleQuietStep

\* A confirmation, a review and an edit keep the schedules.
LEMMA ScheduleResolveStep ==
  ASSUME IInv, ScheduleInv, NEW c \in Clients, WriteResolve(c)
  PROVE  ScheduleInv'
  <1> DEFINE p == target[c]
             new == [loaded[c] EXCEPT !.primary = asked[c].primary, !.status = "active",
                         !.secondary = Besides(asked[c]), !.stability = Initial, !.due = 0]
             made == [Update(log[p], loaded[c], new) EXCEPT
                         !.solves = WithMark(log[p].solves, 1, MarkOf(c, new))]
  <1>1. pc[c] = "resolve" /\ log' = [log EXCEPT ![p] = made] /\ Finish(c)
    BY DEF WriteResolve
  <1>2. /\ p \in DOMAIN log /\ Sound(loaded[c]) /\ loaded[c].status = "pending_classification"
        /\ asked[c].primary \in Concepts /\ ~HasMarked(c, log[p])
    BY <1>1 DEF IInv, Working
  <1>3. Sound(log[p]) /\ Spaced(log[p]) /\ Waiting(loaded[c])
    BY <1>1, <1>2 DEF IInv, ScheduleInv, Current
  <1>4. Spaced(made) /\ \A d : d # c => Untouched(d, log[p], made)
    BY <1>2, <1>3, ConfirmedSpaced
  <1> HIDE DEF made
  <1>5. QED
    BY <1>1, <1>2, <1>4, ScheduleRowStep

LEMMA ScheduleReviewStep ==
  ASSUME IInv, ScheduleInv, NEW c \in Clients, WriteReview(c)
  PROVE  ScheduleInv'
  <1> DEFINE p == target[c]
             solve == [by |-> c, ok |-> asked[c].ok, marks |-> MarkOf(c, loaded[c])]
             made == [Update(log[p], loaded[c], Reviewed(loaded[c], number[c], asked[c].ok)) EXCEPT
                         !.solves = Append(log[p].solves, solve)]
  <1>1. /\ pc[c] = "review" /\ number[c] = Len(log[p].solves)
        /\ log' = [log EXCEPT ![p] = made] /\ Finish(c)
    BY DEF WriteReview
  <1>2. /\ p \in DOMAIN log /\ Sound(loaded[c]) /\ Became(loaded[c], log[p])
        /\ loaded[c].status = "active" /\ asked[c].ok \in BOOLEAN
    BY <1>1 DEF IInv, Working
  <1>3. /\ Sound(log[p]) /\ Spaced(log[p])
        /\ SoleWriter(c, log[p]) => \A column \in Schedule : loaded[c][column] = log[p][column]
    BY <1>1, <1>2 DEF IInv, ScheduleInv, Current
  <1>4. Spaced(made) /\ \A d : d # c => Untouched(d, log[p], made)
    BY <1>1, <1>2, <1>3, ReviewedSpaced
  <1> HIDE DEF made
  <1>5. QED
    BY <1>1, <1>2, <1>4, ScheduleRowStep

LEMMA ScheduleEditStep ==
  ASSUME IInv, ScheduleInv, NEW c \in Clients, WriteEdit(c)
  PROVE  ScheduleInv'
  <1> DEFINE p == target[c]
             labels == NormaliseLabels(asked[c].labels)
             made == Update(log[p], loaded[c], [loaded[c] EXCEPT !.labels = labels])
  <1>1. pc[c] = "edit" /\ log' = [log EXCEPT ![p] = made] /\ Finish(c)
    BY DEF WriteEdit
  <1>2. p \in DOMAIN log /\ Sound(loaded[c])
    BY <1>1 DEF IInv, Working
  <1>3. Sound(log[p]) /\ Spaced(log[p])
    BY <1>2 DEF IInv, ScheduleInv
  <1> HIDE DEF labels
  <1>4. Spaced(made) /\ \A d : Untouched(d, log[p], made)
    BY <1>2, <1>3, EditedSpaced
  <1> HIDE DEF made
  <1>5. QED
    BY <1>1, <1>2, <1>4, ScheduleRowStep

\* Every step keeps the schedules.
LEMMA ScheduleNext == IInv /\ ScheduleInv /\ [Next]_vars => ScheduleInv'
  <1>1. ASSUME IInv, ScheduleInv, UNCHANGED vars PROVE ScheduleInv'
    <2>1. UNCHANGED <<log, pc, target, loaded>>
      BY <1>1 DEF vars
    <2>2. ASSUME NEW d \in Clients PROVE Current(d)'
      BY <1>1, <2>1, ItselfUntouched, CurrentOnward
    <2>3. QED
      BY <1>1, <2>1, <2>2 DEF ScheduleInv
  <1>2. ASSUME IInv, ScheduleInv, NEW c \in Clients, NEW url, NEW answer, LogProblem(c, url, answer)
        PROVE  ScheduleInv'
    BY <1>2, LoggedSpaced, ScheduleAppendStep DEF LogProblem
  <1>3. ASSUME IInv, ScheduleInv, NEW c \in Clients, NEW tags, ImportLink(c, tags)
        PROVE  ScheduleInv'
    BY <1>3, LoggedSpaced, ScheduleAppendStep DEF ImportLink
  <1>4. ASSUME IInv, ScheduleInv, NEW c \in Clients, NEW links, OpenImport(c, links)
        PROVE  ScheduleInv'
    <2>1. /\ pc'[c] = "import" /\ UNCHANGED <<log, target, loaded>>
          /\ \A d \in Clients \ {c} : pc'[d] = pc[d]
      BY <1>4 DEF OpenImport, IInv, Typed
    <2>2. Current(c)'
      BY <2>1 DEF Current
    <2>3. QED
      BY <1>4, <2>1, <2>2, ScheduleQuietStep
  <1>5. ASSUME IInv, ScheduleInv, NEW c \in Clients, SkipLink(c)
        PROVE  ScheduleInv'
    <2>1. UNCHANGED <<log, pc, target, loaded>>
      BY <1>5 DEF SkipLink
    <2>2. Current(c)'
      BY <1>5, <2>1, ItselfUntouched, CurrentOnward
    <2>3. QED
      BY <1>5, <2>1, <2>2, ScheduleQuietStep
  <1>6. ASSUME IInv, ScheduleInv, NEW c \in Clients, EndImport(c) \/ Fail(c)
        PROVE  ScheduleInv'
    <2>1. Finish(c) /\ UNCHANGED log
      BY <1>6 DEF EndImport, Fail
    <2>2. QED
      BY <1>6, <2>1, FinishedCurrent, FinishedClient, ScheduleQuietStep
  <1>7. ASSUME IInv, ScheduleInv, NEW c \in Clients, CountSolves(c)
        PROVE  ScheduleInv'
    <2>1. /\ pc[c] = "count" /\ pc'[c] = "review" /\ UNCHANGED <<log, target, loaded>>
          /\ \A d \in Clients \ {c} : pc'[d] = pc[d]
      BY <1>7 DEF CountSolves, IInv, Typed
    <2>2. Current(c)'
      BY <1>7, <2>1, ItselfUntouched, CurrentOnward
    <2>3. QED
      BY <1>7, <2>1, <2>2, ScheduleQuietStep
  <1>8. ASSUME IInv, ScheduleInv, NEW c \in Clients, NEW p \in DOMAIN log,
               \/ \E correction \in Corrections : OpenResolve(c, p, correction)
               \/ \E ok \in BOOLEAN : OpenReview(c, p, ok)
               \/ \E labels \in Labels : OpenEdit(c, p, labels)
        PROVE  ScheduleInv'
    BY <1>8, ScheduleLoadStep DEF OpenResolve, OpenReview, OpenEdit
  <1>9. QED
    BY <1>1, <1>2, <1>3, <1>4, <1>5, <1>6, <1>7, <1>8,
       ScheduleResolveStep, ScheduleReviewStep, ScheduleEditStep DEF Next

\* The empty log has no schedule, and nobody has read one.
LEMMA ScheduleInitially == Init => ScheduleInv
  <1>1. SUFFICES ASSUME Init PROVE ScheduleInv
    OBVIOUS
  <1>2. DOMAIN log = {}
    BY <1>1, Empty DEF Init
  <1>3. \A c \in Clients : pc[c] = "idle"
    BY <1>1 DEF Init
  <1>4. QED
    BY <1>2, <1>3 DEF ScheduleInv, Current

\* The writers of a row are finitely many.
LEMMA WritersFinite ==
  ASSUME NEW row, Sound(row)
  PROVE  IsFiniteSet(WrittenBy(row))
  <1> DEFINE marks == row.solves[1].marks
             reviews == DOMAIN row.solves \ {1}
             byReview == [n \in reviews |-> row.solves[n].by]
             byMark == [k \in DOMAIN marks |-> marks[k].by]
  <1>1. IsFiniteSet(DOMAIN row.solves) /\ IsFiniteSet(DOMAIN marks)
    <2>1. Sequence(row.solves) /\ 1 \in DOMAIN row.solves /\ ShapedSolve(row.solves[1])
      BY DEF Sound, Shaped, Sequence
    <2>2. Sequence(marks)
      BY <2>1 DEF ShapedSolve
    <2> HIDE DEF marks
    <2>3. PICK n \in Nat, m \in Nat : DOMAIN row.solves = 1 .. n /\ DOMAIN marks = 1 .. m
      BY <2>1, <2>2 DEF Sequence
    <2>4. QED
      BY <2>3, FS_Interval
  <1>2. IsFiniteSet({byReview[n] : n \in reviews})
    <2>1. IsFiniteSet(reviews)
      BY <1>1, FS_Subset
    <2>2. byReview \in Surjection(reviews, {byReview[n] : n \in reviews})
      BY DEF Surjection
    <2> HIDE DEF reviews, byReview
    <2>3. QED
      BY <2>1, <2>2, FS_Surjection
  <1>3. IsFiniteSet({byMark[k] : k \in DOMAIN marks})
    <2>1. byMark \in Surjection(DOMAIN marks, {byMark[k] : k \in DOMAIN marks})
      BY DEF Surjection
    <2> HIDE DEF marks, byMark
    <2>2. QED
      BY <1>1, <2>1, FS_Surjection
  <1>4. WrittenBy(row) = {byReview[n] : n \in reviews} \cup {byMark[k] : k \in DOMAIN marks}
    BY DEF WrittenBy, Range
  <1> DEFINE reviewers == {byReview[n] : n \in reviews}
             confirmers == {byMark[k] : k \in DOMAIN marks}
  <1> HIDE DEF reviewers, confirmers
  <1>5. IsFiniteSet(reviewers \cup confirmers)
    <2>1. IsFiniteSet(reviewers) /\ IsFiniteSet(confirmers)
      BY <1>2, <1>3 DEF reviewers, confirmers
    <2>2. QED
      BY <2>1, FS_Union
  <1>6. QED
    BY <1>4, <1>5 DEF reviewers, confirmers

\* Whatever other clients edit, import, load or have refused, the schedule of a problem that one
\* client alone has confirmed and reviewed is what its solves make of it (record_review and
\* resolve_classification against practice.py's docstring, "the schedule is a projection").
THEOREM SchedulesAreReplays == Spec => []ScheduleIsReplay
  <1>1. IInv /\ ScheduleInv => ScheduleIsReplay
    <2>1. SUFFICES ASSUME IInv, ScheduleInv, NEW p \in DOMAIN log,
                          log[p].status # "pending_classification", Cardinality(Writers(p)) = 1
                   PROVE  log[p] = Replayed(log[p])
      BY DEF ScheduleIsReplay
    <2>2. Writers(p) = WrittenBy(log[p])
      BY DEF Writers, WrittenBy
    <2>3. Sound(log[p]) /\ Spaced(log[p])
      BY <2>1 DEF IInv, ScheduleInv
    <2>4. \E c : WrittenBy(log[p]) = {c}
      <3>1. IsFiniteSet(WrittenBy(log[p]))
        BY <2>3, WritersFinite
      <3>2. QED
        BY <2>1, <2>2, <3>1, FS_Singleton
    <2>5. Follows(log[p])
      BY <2>1, <2>3, <2>4 DEF Spaced, SoleWriter
    <2>6. QED
      BY <2>3, <2>5, FollowsIsReplayed DEF Spaced
  <1>2. QED
    BY <1>1, Invariant, ScheduleInitially, ScheduleNext, PTL DEF Spec
=============================================================================
