-------------------------- MODULE TranscriptProofs --------------------------
(***************************************************************************)
(* For any number of turns and any limits: the transcript is numbered      *)
(* densely, the turns in it do not interleave, hints come in order, and    *)
(* the rations of the tools hold over all turns.                           *)
(***************************************************************************)
EXTENDS Transcript, FiniteSetTheorems, TLAPS

Unborn == {"idle", "say"}
Levels == {r.level : r \in RowsOf("hint")}

\* The next row of a turn that is still alive would be the transcript's next row.
Leads(t) == pc[t] \notin Unborn /\ pc[t] # "dead" /\ seq[t] \notin Seqs

Numbered ==
    /\ \E n \in Nat : Seqs = 1 .. n
    /\ \A r, q \in rows : r.seq = q.seq => r = q

\* A turn counts up from a number all of whose predecessors are taken.
Counting == \A t \in Turns : pc[t] # "idle" => seq[t] >= 1 /\ \A k \in 1 .. (seq[t] - 1) : k \in Seqs

\* From its first row on, every row up to a turn's own counter is its own.
Owned ==
    /\ \A r \in rows : /\ pc[r.by] \notin Unborn /\ r.seq < seq[r.by]
                       /\ \A q \in rows : r.seq <= q.seq /\ q.seq < seq[r.by] => q.by = r.by
    /\ \A t \in Turns : pc[t] \notin Unborn /\ pc[t] # "dead" =>
         \E r \in rows : r.by = t /\ r.seq = seq[t] - 1

\* The levels on record are the first ones, and a live turn knows only such levels.
LevelsDense ==
    /\ \E h \in 0 .. Hints : Levels = 1 .. h
    /\ \A t \in Turns : pc[t] # "dead" => \A l \in 1 .. context[t].hints : l \in Levels

\* The turn that leads has counted every row a ration is about.
Filed(t) == IF pc[t] = "observed" THEN context[t].observations - 1 ELSE context[t].observations
Counted ==
    /\ IsFiniteSet(rows)
    /\ \A t \in Turns : pc[t] = "observed" =>
         context[t].observations \in 1 .. MaxObservations
    /\ \A t \in Turns : Leads(t) /\ pc[t] # "context" =>
         /\ Cardinality(RowsOf("check")) = context[t].checks
         /\ Cardinality(RowsOf("observe")) = Filed(t)

IInv == TypeOK /\ Numbered /\ Counting /\ Owned /\ HintsInOrder /\ LevelsDense /\ Counted /\ RationsHold

---------------------------------------------------------------------------
\* The shape of a step

Born == Labels \ Unborn
NewRow(t, kind, level) == [seq |-> seq[t], by |-> t, kind |-> kind, level |-> level]

Appends(t, kind, level) ==
    /\ pc[t] # "idle" /\ pc[t] # "dead" /\ seq[t] \notin Seqs
    /\ rows' = rows \cup {NewRow(t, kind, level)}
    /\ seq' = [seq EXCEPT ![t] = @ + 1]
    /\ \E label \in Born \ {"dead"} : Goto(t, label)

Moves(t) ==
    /\ UNCHANGED <<rows, seq>>
    /\ pc[t] # "idle"
    /\ \E label \in Born : Goto(t, label) /\ (label = "dead" \/ pc[t] \notin Unborn \cup {"dead"})

LEMMA WriteShape ==
  ASSUME NEW t \in Turns, NEW kind \in Kinds, NEW level \in Nat, NEW label \in Born \ {"dead"},
         pc[t] # "idle", pc[t] # "dead", Write(t, kind, level, label)
  PROVE  Appends(t, kind, level) \/ Moves(t)
  BY DEF Write, Appends, Moves, NewRow, Goto, Born, Labels, Unborn

\* Every step starts a turn, appends one row at a free number, or leaves the transcript alone.
LEMMA StepShape ==
  ASSUME TypeOK, NEW t \in Turns, Progress(t)
  PROVE  Moves(t) \/ \E kind \in Kinds, level \in Nat : Appends(t, kind, level)
  <1> USE DEF Kinds, Labels, Born, Unborn
  <1>1. CASE Say(t)
    BY <1>1, WriteShape DEF Say
  <1>2. CASE LoadContext(t)
    BY <1>2 DEF LoadContext, Moves, Goto
  <1>3. CASE AskModel(t)
    BY <1>3, WriteShape DEF AskModel
  <1>4. CASE ModelFails(t)
    BY <1>4 DEF ModelFails, Moves, Goto
  <1>5. CASE \E level \in 1 .. Hints : RevealHint(t, level)
    <2>1. PICK level \in 1 .. Hints : RevealHint(t, level)
      BY <1>5
    <2>2. level \in Nat
      BY <2>1, LimitsAssumption
    <2>3. QED
      BY <2>1, <2>2, WriteShape DEF RevealHint, CanUse
  <1>6. CASE CheckAnswer(t)
    BY <1>6, WriteShape DEF CheckAnswer, CanUse
  <1>7. CASE RecordObservation(t)
    BY <1>7 DEF RecordObservation, CanUse, Moves, Goto
  <1>8. CASE FileObservation(t)
    BY <1>8, WriteShape DEF FileObservation
  <1>9. CASE UseOther(t)
    BY <1>9, WriteShape DEF UseOther, CanUse
  <1>10. CASE FinishRound(t)
    BY <1>10 DEF FinishRound, Moves, Goto
  <1>11. CASE StopAtCap(t)
    BY <1>11, WriteShape DEF StopAtCap
  <1>12. QED
    BY <1>1, <1>2, <1>3, <1>4, <1>5, <1>6, <1>7, <1>8, <1>9, <1>10, <1>11 DEF Progress

---------------------------------------------------------------------------
\* Numbers and owners

LEMMA NextSeqIsNext ==
  ASSUME NEW n \in Nat, Seqs = 1 .. n
  PROVE  NextSeq = n + 1
  <1>1. CASE rows = {}
    <2>1. Seqs = {}
      BY <1>1 DEF Seqs
    <2>2. n = 0
      <3>1. 1 \notin 1 .. n
        BY <2>1
      <3>2. QED
        BY <3>1
    <2>3. QED
      BY <1>1, <2>2 DEF NextSeq
  <1>2. CASE rows # {}
    <2>1. n \in Seqs
      <3>1. PICK r \in rows : TRUE
        BY <1>2
      <3>2. r.seq \in 1 .. n
        BY <3>1 DEF Seqs
      <3>3. QED
        BY <3>2
    <2>2. \A k \in Seqs : (\A m \in Seqs : m <= k) <=> k = n
      BY <2>1
    <2>3. LastSeq = n
      BY <2>1, <2>2 DEF LastSeq
    <2>4. QED
      BY <1>2, <2>3 DEF NextSeq
  <1>3. QED
    BY <1>1, <1>2

Ordered == Numbered /\ Counting /\ Owned

\* A free number at which a turn stands is the one after the last row.
LEMMA FreeIsNext ==
  ASSUME TypeOK, Counting, NEW t \in Turns, pc[t] # "idle", seq[t] \notin Seqs,
         NEW n \in Nat, Seqs = 1 .. n
  PROVE  seq[t] = n + 1
  <1>1. seq[t] \in Nat /\ seq[t] >= 1
    BY DEF TypeOK, Counting
  <1>2. CASE seq[t] > n + 1
    <2>1. n + 1 \in 1 .. (seq[t] - 1)
      BY <1>1, <1>2
    <2>2. n + 1 \in Seqs
      BY <2>1 DEF Counting
    <2>3. QED
      BY <2>2
  <1>3. QED
    BY <1>1, <1>2

LEMMA StartOrdered ==
  ASSUME TypeOK, Ordered, NEW t \in Turns, Start(t)
  PROVE  Ordered' /\ seq' \in [Turns -> Nat]
  <1> USE DEF TypeOK, Ordered
  <1>1. PICK n \in Nat : Seqs = 1 .. n
    BY DEF Numbered
  <1>2. /\ pc[t] = "idle" /\ rows' = rows
        /\ seq' = [seq EXCEPT ![t] = n + 1]
        /\ pc' = [pc EXCEPT ![t] = "say"]
    BY <1>1, NextSeqIsNext DEF Start, Goto
  <1>3. Seqs' = Seqs
    BY <1>2 DEF Seqs
  <1>4. Numbered'
    BY <1>2, <1>3 DEF Numbered
  <1>5. Counting'
    <2>1. \A k \in 1 .. (n + 1 - 1) : k \in Seqs
      BY <1>1
    <2>2. QED
      BY <1>2, <1>3, <2>1 DEF Counting
  <1>6. Owned'
    <2>1. \A r \in rows : r.by # t /\ r.by \in Turns
      BY <1>2 DEF Owned, Row, Unborn
    <2>2. \A r \in rows : pc'[r.by] = pc[r.by] /\ seq'[r.by] = seq[r.by]
      BY <1>2, <2>1
    <2>3. \A u \in Turns : pc'[u] \notin Unborn => u # t /\ pc'[u] = pc[u] /\ seq'[u] = seq[u]
      BY <1>2 DEF Unborn
    <2>4. QED
      BY <1>2, <2>2, <2>3 DEF Owned
  <1>7. QED
    BY <1>2, <1>4, <1>5, <1>6

LEMMA MovesOrdered ==
  ASSUME TypeOK, Ordered, NEW t \in Turns, Moves(t)
  PROVE  Ordered'
  <1> USE DEF TypeOK, Ordered
  <1>1. PICK label \in Born : Goto(t, label) /\ (label = "dead" \/ pc[t] \notin Unborn \cup {"dead"})
    BY DEF Moves
  <1>2. rows' = rows /\ seq' = seq /\ pc[t] # "idle" /\ pc' = [pc EXCEPT ![t] = label]
    BY <1>1 DEF Moves, Goto
  <1>3. Seqs' = Seqs
    BY <1>2 DEF Seqs
  <1>4. Numbered' /\ Counting'
    BY <1>1, <1>2, <1>3 DEF Numbered, Counting
  <1>5. \A r \in rows : r.by \in Turns /\ pc'[r.by] \notin Unborn
    BY <1>2 DEF Owned, Row, Born, Unborn
  <1>6. \A u \in Turns : pc'[u] \notin Unborn /\ pc'[u] # "dead" => pc[u] \notin Unborn /\ pc[u] # "dead"
    BY <1>1, <1>2 DEF Unborn
  <1>7. Owned'
    BY <1>2, <1>5, <1>6 DEF Owned
  <1>8. QED
    BY <1>4, <1>7

LEMMA AppendsOrdered ==
  ASSUME TypeOK, Ordered, NEW t \in Turns, NEW kind \in Kinds, NEW level \in Nat,
         Appends(t, kind, level)
  PROVE  Ordered' /\ rows' \subseteq Row
  <1> DEFINE new == NewRow(t, kind, level)
  <1>1. PICK n \in Nat : Seqs = 1 .. n
    BY DEF Ordered, Numbered
  <1>2. seq[t] = n + 1
    BY <1>1, FreeIsNext DEF Appends, Ordered
  <1>3. PICK label \in Born \ {"dead"} : pc' = [pc EXCEPT ![t] = label]
    BY DEF Appends, Goto
  <1>4. rows' = rows \cup {new} /\ seq' = [seq EXCEPT ![t] = n + 2] /\ pc[t] # "idle" /\ pc[t] # "dead"
    BY <1>2 DEF Appends, TypeOK
  <1>5. new.seq = n + 1 /\ new.by = t /\ new \in Row
    BY <1>2 DEF NewRow, Row
  <1>6. \A r \in rows : r.seq \in 1 .. n /\ r.by \in Turns
    BY <1>1 DEF Seqs, TypeOK, Row
  <1>7. Seqs' = 1 .. (n + 1)
    <2>1. Seqs' = Seqs \cup {n + 1}
      BY <1>4, <1>5 DEF Seqs
    <2>2. QED
      BY <1>1, <2>1
  <1>8. Numbered'
    <2>1. \A r, q \in rows' : r.seq = q.seq => r = q
      BY <1>4, <1>5, <1>6 DEF Ordered, Numbered
    <2>2. n + 1 \in Nat
      OBVIOUS
    <2>3. QED
      BY <1>7, <2>1, <2>2 DEF Numbered
  <1>9. Counting'
    <2>1. ASSUME NEW u \in Turns, pc'[u] # "idle"
          PROVE  seq'[u] >= 1 /\ \A k \in 1 .. (seq'[u] - 1) : k \in Seqs'
      <3>1. CASE u = t
        BY <1>4, <1>7, <3>1 DEF TypeOK
      <3>2. CASE u # t
        BY <1>1, <1>3, <1>4, <1>7, <2>1, <3>2 DEF Ordered, Counting, TypeOK
      <3>3. QED
        BY <3>1, <3>2
    <2>2. QED
      BY <2>1 DEF Counting
  <1>10. \A u \in Turns : u # t => seq'[u] = seq[u] /\ pc'[u] = pc[u]
    BY <1>3, <1>4 DEF TypeOK
  <1>11. seq'[t] = n + 2 /\ pc'[t] = label
    BY <1>3, <1>4 DEF TypeOK
  <1>12. \A u \in Turns : pc[u] # "idle" => seq[u] \in Nat /\ seq[u] <= n + 1
    <2>1. SUFFICES ASSUME NEW u \in Turns, pc[u] # "idle", seq[u] > n + 1 PROVE FALSE
      BY DEF TypeOK
    <2>2. n + 1 \in 1 .. (seq[u] - 1)
      BY <2>1 DEF TypeOK
    <2>3. QED
      BY <1>1, <2>1, <2>2 DEF Ordered, Counting
  <1>13. Owned'
    <2>1. ASSUME NEW r \in rows', NEW q \in rows'
          PROVE  /\ pc'[r.by] \notin Unborn /\ r.seq < seq'[r.by]
                 /\ r.seq <= q.seq /\ q.seq < seq'[r.by] => q.by = r.by
      <3>1. CASE r.by = t /\ r \in rows
        <4>1. pc[t] \notin Unborn
          BY <3>1 DEF Ordered, Owned
        <4>2. \A p \in rows : r.seq <= p.seq => p.by = t
          BY <1>2, <1>6, <3>1 DEF Ordered, Owned
        <4>3. QED
          BY <1>4, <1>5, <1>6, <1>11, <3>1, <4>2 DEF Born
      <3>2. CASE r = new
        BY <1>4, <1>5, <1>6, <1>11, <3>2 DEF Born
      <3>3. CASE r.by # t /\ r \in rows
        <4>1. pc'[r.by] = pc[r.by] /\ seq'[r.by] = seq[r.by] /\ r.by \in Turns
          BY <1>6, <1>10, <3>3
        <4>2. pc[r.by] \notin Unborn /\ r.seq < seq[r.by]
          BY <3>3 DEF Ordered, Owned
        <4>3. seq[r.by] <= n + 1
          BY <1>12, <4>1, <4>2 DEF Unborn
        <4>4. QED
          BY <1>4, <1>5, <3>3, <4>1, <4>2, <4>3 DEF Ordered, Owned, TypeOK
      <3>4. QED
        BY <1>4, <3>1, <3>2, <3>3
    <2>2. ASSUME NEW u \in Turns, pc'[u] \notin Unborn, pc'[u] # "dead"
          PROVE  \E r \in rows' : r.by = u /\ r.seq = seq'[u] - 1
      <3>1. CASE u = t
        BY <1>4, <1>5, <1>11, <3>1
      <3>2. CASE u # t
        BY <1>4, <1>10, <2>2, <3>2 DEF Ordered, Owned
      <3>3. QED
        BY <3>1, <3>2
    <2>3. QED
      BY <2>1, <2>2, <1>5, <1>4 DEF Owned
  <1>14. rows' \subseteq Row
    BY <1>4, <1>5 DEF TypeOK
  <1>15. QED
    BY <1>8, <1>9, <1>13, <1>14 DEF Ordered
---------------------------------------------------------------------------
\* Hints

LEMMA HighestHintIsHighest ==
  ASSUME NEW h \in 0 .. Hints, Levels = 1 .. h
  PROVE  HighestHint = h
  <1>1. h = 0 \/ \E r \in rows : r.kind = "hint" /\ r.level = h
    <2>1. h = 0 \/ h \in Levels
      BY LimitsAssumption
    <2>2. QED
      BY <2>1 DEF Levels, RowsOf
  <1>2. \A r \in rows : r.kind = "hint" => r.level \in 1 .. h
    BY DEF Levels, RowsOf
  <1>3. \A l \in 0 .. Hints :
          /\ l = 0 \/ \E r \in rows : r.kind = "hint" /\ r.level = l
          /\ \A r \in rows : r.kind = "hint" => r.level <= l
          <=> l = h
    BY <1>1, <1>2, LimitsAssumption
  <1>4. QED
    BY <1>3 DEF HighestHint

\* The hint that is put on record goes at most one level beyond what is on record.
LEMMA AppendKeepsLevels ==
  ASSUME TypeOK, Ordered, HintsInOrder, LevelsDense, NEW t \in Turns, NEW kind \in Kinds, NEW level \in Nat,
         Appends(t, kind, level),
         kind = "hint" => level \in 1 .. Hints /\ level <= context[t].hints + 1
  PROVE  /\ HintsInOrder'
         /\ \E h \in 0 .. Hints : Levels' = 1 .. h
         /\ kind = "hint" => level \in Levels'
         /\ Levels \subseteq Levels'
  <1> DEFINE new == NewRow(t, kind, level)
  <1>1. rows' = rows \cup {new} /\ pc[t] # "dead"
    BY DEF Appends
  <1>2. new.level = level /\ new.kind = kind /\ new.seq = seq[t]
    BY DEF NewRow
  <1>3. PICK h \in 0 .. Hints : Levels = 1 .. h
    BY DEF LevelsDense
  <1>4. Levels' = IF kind = "hint" THEN Levels \cup {level} ELSE Levels
    BY <1>1, <1>2 DEF Levels, RowsOf
  <1>5. kind = "hint" => level \in 1 .. Hints /\ level <= h + 1
    <2>1. context[t].hints \in Nat
      BY DEF TypeOK, Contexts
    <2>2. context[t].hints <= h
      <3>1. context[t].hints > 0 => context[t].hints \in 1 .. context[t].hints
        BY <2>1
      <3>2. context[t].hints > 0 => context[t].hints \in Levels
        BY <1>1, <3>1 DEF LevelsDense
      <3>3. h \in Nat /\ (context[t].hints > 0 => context[t].hints <= h)
        BY <1>3, <3>2, LimitsAssumption
      <3>4. QED
        BY <2>1, <3>3
    <2>3. QED
      BY <2>1, <2>2, LimitsAssumption
  <1>6. \E g \in 0 .. Hints : Levels' = 1 .. g
    <2>1. CASE kind = "hint" /\ level = h + 1
      <3>1. Levels' = 1 .. (h + 1)
        BY <1>3, <1>4, <2>1
      <3>2. QED
        BY <1>5, <2>1, <3>1, LimitsAssumption
    <2>2. CASE ~(kind = "hint" /\ level = h + 1)
      <3>1. h \in Nat /\ (kind = "hint" => level \in 1 .. h)
        BY <1>5, <2>2, LimitsAssumption
      <3>2. Levels' = 1 .. h
        BY <1>3, <1>4, <3>1
      <3>3. QED
        BY <3>2
    <2>3. QED
      BY <2>1, <2>2
  <1>7. \A r \in rows : r.seq < seq[t]
    <2>1. PICK n \in Nat : Seqs = 1 .. n
      BY DEF Ordered, Numbered
    <2>2. seq[t] = n + 1
      BY <2>1, FreeIsNext DEF Appends, Ordered
    <2>3. QED
      BY <2>1, <2>2 DEF Seqs
  <1>8. HintsInOrder'
    <2>1. SUFFICES ASSUME NEW r \in rows', r.kind = "hint", r.level > 1
                   PROVE  \E q \in rows' : q.kind = "hint" /\ q.level = r.level - 1 /\ q.seq < r.seq
      BY DEF HintsInOrder
    <2>2. CASE r \in rows
      BY <1>1, <2>1, <2>2 DEF HintsInOrder
    <2>3. CASE r = new
      <3>1. level - 1 \in Levels
        BY <1>2, <1>3, <1>5, <2>1, <2>3
      <3>2. PICK q \in rows : q.kind = "hint" /\ q.level = level - 1
        BY <3>1 DEF Levels, RowsOf
      <3>3. QED
        BY <1>1, <1>2, <1>7, <2>3, <3>2
    <2>4. QED
      BY <1>1, <2>1, <2>2, <2>3
  <1>9. QED
    BY <1>4, <1>6, <1>8
LEMMA HintsStep ==
  ASSUME TypeOK, Ordered, HintsInOrder, LevelsDense, Next
  PROVE  HintsInOrder' /\ LevelsDense'
  <1> DEFINE Known(u) == pc[u] # "dead" => \A l \in 1 .. context[u].hints : l \in Levels
  \* A step that writes nothing about hints and learns nothing about them.
  <1>1. ASSUME UNCHANGED rows, \A u \in Turns : pc'[u] # "dead" => pc[u] # "dead" /\ context'[u].hints = context[u].hints
        PROVE  HintsInOrder' /\ LevelsDense'
    BY <1>1 DEF HintsInOrder, LevelsDense, Levels, RowsOf
  \* A step that puts a row of some kind on record, and what the turn then knows is on record.
  <1>2. ASSUME NEW t \in Turns, NEW kind \in Kinds, NEW level \in Nat,
               Write(t, kind, level, "tools") \/ Write(t, kind, level, "context")
                 \/ Write(t, kind, level, "answered"),
               pc[t] # "idle", pc[t] # "dead",
               kind = "hint" => level \in 1 .. Hints /\ level <= context[t].hints + 1,
               context'[t].hints = context[t].hints
                 \/ (kind = "hint" /\ context'[t].hints = IF level > context[t].hints THEN level
                                                          ELSE context[t].hints),
               \A u \in Turns \ {t} : context'[u] = context[u]
        PROVE  HintsInOrder' /\ LevelsDense'
    <2>1. pc' = [pc EXCEPT ![t] = pc'[t]] /\ pc'[t] \in Labels
      BY <1>2 DEF Write, Goto, TypeOK, Labels
    <2>2. CASE Appends(t, kind, level)
      <3>1. /\ HintsInOrder' /\ Levels \subseteq Levels' /\ (kind = "hint" => level \in Levels')
            /\ \E h \in 0 .. Hints : Levels' = 1 .. h
        BY <1>2, <2>2, AppendKeepsLevels
      <3>2. ASSUME NEW u \in Turns, pc'[u] # "dead", NEW l \in 1 .. context'[u].hints
            PROVE  l \in Levels'
        <4>1. CASE u # t
          <5>1. pc[u] # "dead" /\ context'[u] = context[u]
            BY <1>2, <2>1, <3>2, <4>1 DEF TypeOK
          <5>2. QED
            BY <3>1, <3>2, <5>1 DEF LevelsDense
        <4>2. CASE u = t
          <5>1. \A k \in 1 .. context[t].hints : k \in Levels'
            BY <1>2, <3>1 DEF LevelsDense
          <5>2. kind = "hint" => \A k \in 1 .. level : k \in Levels'
            <6>1. PICK h \in 0 .. Hints : Levels' = 1 .. h
              BY <3>1
            <6>2. kind = "hint" => level \in 1 .. h
              BY <3>1, <6>1
            <6>3. QED
              BY <6>1, <6>2, LimitsAssumption
          <5>3. QED
            BY <1>2, <3>2, <4>2, <5>1, <5>2
        <4>3. QED
          BY <4>1, <4>2
      <3>3. QED
        BY <3>1, <3>2 DEF LevelsDense
    <2>3. CASE ~Appends(t, kind, level)
      <3>1. UNCHANGED rows /\ pc'[t] = "dead"
        BY <1>2, <2>1, <2>3 DEF Write, Appends, NewRow, Goto, Born, Labels, Unborn, TypeOK
      <3>2. \A u \in Turns : pc'[u] # "dead" => pc[u] # "dead" /\ context'[u].hints = context[u].hints
        BY <1>2, <2>1, <3>1 DEF TypeOK
      <3>3. QED
        BY <1>1, <3>1, <3>2
    <2>4. QED
      BY <2>2, <2>3
  <1>3. PICK t \in Turns : Start(t) \/ Progress(t)
    BY DEF Next
  <1> USE DEF Kinds
  <1>4. CASE Start(t) \/ ModelFails(t) \/ FinishRound(t)
    <2>1. UNCHANGED <<rows, context>>
      BY <1>4 DEF Start, ModelFails, FinishRound
    <2>2. \A u \in Turns : pc'[u] # "dead" => pc[u] # "dead"
      BY <1>4 DEF Start, ModelFails, FinishRound, Goto, TypeOK
    <2>3. QED
      BY <1>1, <2>1, <2>2
  <1>5. CASE RecordObservation(t)
    <2>1. UNCHANGED rows /\ context' = [context EXCEPT ![t].observations = @ + 1]
      BY <1>5 DEF RecordObservation
    <2>2. \A u \in Turns : context'[u].hints = context[u].hints
      BY <2>1 DEF TypeOK, Contexts
    <2>3. \A u \in Turns : pc'[u] # "dead" => pc[u] # "dead"
      BY <1>5 DEF RecordObservation, CanUse, Goto, TypeOK
    <2>4. QED
      BY <1>1, <2>1, <2>2, <2>3
  <1>6. CASE LoadContext(t)
    <2>1. PICK h \in 0 .. Hints : Levels = 1 .. h
      BY DEF LevelsDense
    <2>2. HighestHint = h
      BY <2>1, HighestHintIsHighest
    <2>3. /\ UNCHANGED rows /\ context'[t].hints = h
          /\ \A u \in Turns \ {t} : context'[u] = context[u] /\ pc'[u] = pc[u]
      BY <1>6, <2>2 DEF LoadContext, TypeOK, Goto
    <2>4. UNCHANGED Levels
      BY <2>3 DEF Levels, RowsOf
    <2>5. HintsInOrder'
      BY <2>3 DEF HintsInOrder
    <2>6. QED
      BY <2>1, <2>3, <2>4, <2>5 DEF LevelsDense
  <1>7. CASE Say(t)
    BY <1>2, <1>7 DEF Say
  <1>8. CASE AskModel(t)
    BY <1>2, <1>8 DEF AskModel
  <1>9. CASE \E level \in 1 .. Hints : RevealHint(t, level)
    <2>1. PICK level \in 1 .. Hints : RevealHint(t, level)
      BY <1>9
    <2>2. level \in Nat /\ pc[t] = "tools" /\ Write(t, "hint", level, "tools") /\ level <= context[t].hints + 1
      BY <2>1, LimitsAssumption DEF RevealHint, CanUse
    <2>3. /\ context'[t].hints = IF level > context[t].hints THEN level ELSE context[t].hints
          /\ \A u \in Turns \ {t} : context'[u] = context[u]
      BY <2>1 DEF RevealHint, TypeOK, Contexts
    <2>4. QED
      BY <1>2, <2>2, <2>3
  <1>10. CASE CheckAnswer(t)
    <2>1. /\ context'[t].hints = context[t].hints
          /\ \A u \in Turns \ {t} : context'[u] = context[u]
      BY <1>10 DEF CheckAnswer, TypeOK, Contexts
    <2>2. QED
      BY <1>2, <1>10, <2>1 DEF CheckAnswer, CanUse
  <1>11. CASE FileObservation(t) \/ UseOther(t) \/ StopAtCap(t)
    BY <1>2, <1>11 DEF FileObservation, UseOther, StopAtCap, CanUse
  <1>12. QED
    BY <1>3, <1>4, <1>5, <1>6, <1>7, <1>8, <1>9, <1>10, <1>11 DEF Progress
---------------------------------------------------------------------------
\* Rations

\* A new row raises the count of its own kind by one, and of no other.
LEMMA AppendCounts ==
  ASSUME TypeOK, IsFiniteSet(rows), NEW t \in Turns, NEW kind \in Kinds, NEW level \in Nat,
         Appends(t, kind, level), NEW k \in Kinds
  PROVE  /\ IsFiniteSet(rows')
         /\ Cardinality(RowsOf(k)) \in Nat
         /\ Cardinality(RowsOf(k)') = IF k = kind THEN Cardinality(RowsOf(k)) + 1 ELSE Cardinality(RowsOf(k))
  <1> DEFINE new == NewRow(t, kind, level)
  <1>1. rows' = rows \cup {new} /\ new \notin rows /\ new.kind = kind
    BY DEF Appends, NewRow, Seqs
  <1>2. IsFiniteSet(RowsOf(k)) /\ Cardinality(RowsOf(k)) \in Nat
    <2>1. RowsOf(k) \subseteq rows
      BY DEF RowsOf
    <2>2. QED
      BY <2>1, FS_Subset, FS_CardinalityType
  <1>3. RowsOf(k)' = IF k = kind THEN RowsOf(k) \cup {new} ELSE RowsOf(k)
    BY <1>1 DEF RowsOf
  <1>4. new \notin RowsOf(k)
    BY <1>1 DEF RowsOf
  <1>5. Cardinality(RowsOf(k) \cup {new}) = Cardinality(RowsOf(k)) + 1
    BY <1>2, <1>4, FS_AddElement
  <1>6. IsFiniteSet(rows')
    BY <1>1, FS_AddElement
  <1>7. QED
    BY <1>2, <1>3, <1>5, <1>6

\* Once a turn has written, no other turn stands at the end of the transcript.
LEMMA OneLeader ==
  ASSUME TypeOK, Ordered, NEW t \in Turns, NEW kind \in Kinds, NEW level \in Nat,
         Appends(t, kind, level), NEW u \in Turns, Leads(u)'
  PROVE  u = t
  <1>1. PICK n \in Nat : Seqs = 1 .. n
    BY DEF Ordered, Numbered
  <1>2. seq[t] = n + 1 /\ seq[t] \in Seqs'
    BY <1>1, FreeIsNext DEF Appends, Ordered, NewRow, Seqs
  <1>3. Seqs \subseteq Seqs'
    BY DEF Appends, Seqs
  <1>4. SUFFICES ASSUME u # t PROVE FALSE
    OBVIOUS
  <1>5. pc[u] = pc'[u] /\ seq[u] = seq'[u]
    BY <1>4 DEF Appends, Goto, TypeOK
  <1>6. pc[u] # "idle" /\ seq[u] \notin Seqs /\ seq[u] \notin Seqs'
    BY <1>3, <1>5 DEF Leads, Unborn
  <1>7. seq[u] = n + 1
    BY <1>1, <1>6, FreeIsNext DEF Ordered
  <1>8. QED
    BY <1>2, <1>6, <1>7

\* What a turn that writes a row of this kind makes of its own counts: it keeps them, or counts
\* the row within the ration; no other turn's change.
Tallied(t, kind) ==
    /\ context'[t].checks = context[t].checks + (IF kind = "check" THEN 1 ELSE 0)
    /\ context'[t].observations = Filed(t) + (IF kind = "observe" THEN 1 ELSE 0)
    /\ context'[t].checks <= MaxAnswerChecks \/ kind # "check"
    /\ context'[t].observations <= MaxObservations \/ kind # "observe"
    /\ \A u \in Turns \ {t} : context'[u] = context[u]

\* A step that appends a row and counts it, or dies.
LEMMA WriteCounted ==
  ASSUME TypeOK, Ordered, Counted, RationsHold, NEW t \in Turns, NEW kind \in Kinds, NEW level \in Nat,
         NEW label \in {"tools", "answered"}, Write(t, kind, level, label),
         pc[t] \notin Unborn \cup {"dead", "context"}, Tallied(t, kind)
  PROVE  Counted' /\ RationsHold'
  <1> USE DEF Kinds, Tallied
  <1>1. \A u \in Turns \ {t} : pc'[u] = pc[u] /\ seq'[u] = seq[u]
    BY DEF Write, Goto, TypeOK
  <1>2. pc'[t] # "observed"
    BY DEF Write, Goto, TypeOK
  <1>3. \A u \in Turns : pc'[u] = "observed" => context'[u].observations \in 1 .. MaxObservations
    BY <1>1, <1>2 DEF Counted
  <1>4. CASE Appends(t, kind, level)
    <2>1. Leads(t)
      BY <1>4 DEF Leads, Appends
    <2>2. /\ Cardinality(RowsOf("check")) = context[t].checks
          /\ Cardinality(RowsOf("observe")) = Filed(t)
      BY <2>1 DEF Counted
    <2>3. /\ IsFiniteSet(rows')
          /\ Cardinality(RowsOf("check")') = context'[t].checks
          /\ Cardinality(RowsOf("observe")') = context'[t].observations
      <3>1. IsFiniteSet(rows)
        BY DEF Counted
      <3>2. /\ IsFiniteSet(rows')
            /\ Cardinality(RowsOf("check")) \in Nat
            /\ Cardinality(RowsOf("check")') = IF "check" = kind THEN Cardinality(RowsOf("check")) + 1
                                               ELSE Cardinality(RowsOf("check"))
        BY <1>4, <3>1, AppendCounts
      <3>3. /\ Cardinality(RowsOf("observe")) \in Nat
            /\ Cardinality(RowsOf("observe")') = IF "observe" = kind THEN Cardinality(RowsOf("observe")) + 1
                                               ELSE Cardinality(RowsOf("observe"))
        BY <1>4, <3>1, AppendCounts
      <3>4. QED
        BY <2>2, <3>2, <3>3
    <2>4. Counted'
      <3>1. ASSUME NEW u \in Turns, Leads(u)'
            PROVE  /\ Cardinality(RowsOf("check")') = context'[u].checks
                   /\ Cardinality(RowsOf("observe")') = Filed(u)'
        <4>1. u = t
          BY <1>4, <3>1, OneLeader
        <4>2. QED
          BY <1>2, <2>3, <4>1 DEF Filed
      <3>2. QED
        BY <1>3, <2>3, <3>1 DEF Counted
    <2>5. RationsHold'
      <3>1. kind # "check" => Cardinality(RowsOf("check")') <= MaxAnswerChecks
        BY <2>2, <2>3 DEF RationsHold, TypeOK, Contexts
      <3>2. kind # "observe" => Cardinality(RowsOf("observe")') <= MaxObservations
        BY <2>2, <2>3 DEF RationsHold, Filed, TypeOK, Contexts
      <3>3. QED
        BY <2>3, <3>1, <3>2 DEF RationsHold
    <2>6. QED
      BY <2>4, <2>5
  <1>5. CASE ~Appends(t, kind, level)
    <2>1. UNCHANGED <<rows, seq>> /\ pc'[t] = "dead"
      BY <1>5 DEF Write, Appends, NewRow, Goto, Born, Labels, Unborn, TypeOK
    <2>2. \A u \in Turns : Leads(u)' => Leads(u) /\ u # t
      BY <1>1, <2>1 DEF Leads, Seqs
    <2>3. UNCHANGED <<RowsOf("check"), RowsOf("observe")>>
      BY <2>1 DEF RowsOf
    <2>4. \A u \in Turns : u # t => UNCHANGED Filed(u)
      BY <1>1 DEF Filed
    <2>5. Counted'
      BY <1>1, <1>3, <2>1, <2>2, <2>3, <2>4 DEF Counted
    <2>6. QED
      BY <2>3, <2>5 DEF RationsHold
  <1>6. QED
    BY <1>4, <1>5
LEMMA CountedStep ==
  ASSUME TypeOK, Ordered, Counted, RationsHold, Next
  PROVE  Counted' /\ RationsHold'
  <1> USE DEF Kinds
  \* A step of t that leaves the transcript alone.
  <1>1. ASSUME NEW t \in Turns, UNCHANGED <<rows, seq>>,
               \A u \in Turns \ {t} : context'[u] = context[u] /\ pc'[u] = pc[u],
               pc'[t] = "observed" => context'[t].observations \in 1 .. MaxObservations,
               Leads(t)' /\ pc'[t] # "context" =>
                 \/ /\ Leads(t) /\ pc[t] # "context"
                    /\ context'[t].checks = context[t].checks /\ UNCHANGED Filed(t)
                 \/ /\ context'[t].checks = Cardinality(RowsOf("check"))
                    /\ Filed(t)' = Cardinality(RowsOf("observe"))
        PROVE  Counted' /\ RationsHold'
    <2>1. UNCHANGED <<RowsOf("check"), RowsOf("observe")>>
      BY <1>1 DEF RowsOf
    <2>2. \A u \in Turns \ {t} : UNCHANGED <<Leads(u), Filed(u)>>
      BY <1>1 DEF Leads, Filed, Seqs
    <2>3. Counted'
      BY <1>1, <2>1, <2>2 DEF Counted
    <2>4. QED
      BY <2>1, <2>3 DEF RationsHold
  <1>2. PICK t \in Turns : Start(t) \/ Progress(t)
    BY DEF Next
  <1>3. CASE Start(t)
    <2>1. \A u \in Turns \ {t} : context'[u] = context[u] /\ pc'[u] = pc[u]
      BY <1>3 DEF Start, Goto, TypeOK
    <2>2. pc'[t] = "say" /\ UNCHANGED rows /\ \A u \in Turns \ {t} : seq'[u] = seq[u]
      BY <1>3 DEF Start, Goto, TypeOK
    <2>3. UNCHANGED <<RowsOf("check"), RowsOf("observe")>>
      BY <2>2 DEF RowsOf
    <2>4. ~Leads(t)' /\ \A u \in Turns \ {t} : UNCHANGED <<Leads(u), Filed(u)>>
      BY <2>1, <2>2 DEF Leads, Filed, Seqs, Unborn
    <2>5. Counted'
      BY <2>1, <2>2, <2>3, <2>4 DEF Counted
    <2>6. QED
      BY <2>3, <2>5 DEF RationsHold
  <1>4. CASE ModelFails(t)
    BY <1>1, <1>4 DEF ModelFails, Goto, TypeOK, Leads
  <1>5. CASE FinishRound(t)
    <2>1. pc[t] = "tools" /\ pc'[t] \in {"cap", "model"} /\ UNCHANGED <<rows, seq, context>>
      BY <1>5 DEF FinishRound, Goto, TypeOK
    <2>2. UNCHANGED Filed(t) /\ Leads(t)' = Leads(t)
      BY <2>1 DEF Filed, Leads, Unborn, Seqs
    <2>3. \A u \in Turns \ {t} : context'[u] = context[u] /\ pc'[u] = pc[u]
      BY <1>5 DEF FinishRound, Goto, TypeOK
    <2>4. QED
      BY <1>1, <2>1, <2>2, <2>3
  <1>6. CASE RecordObservation(t)
    <2>1. /\ pc[t] = "tools" /\ pc'[t] = "observed" /\ UNCHANGED <<rows, seq>>
          /\ context'[t].checks = context[t].checks
          /\ context'[t].observations = context[t].observations + 1
          /\ context[t].observations < MaxObservations
      BY <1>6 DEF RecordObservation, CanUse, Goto, TypeOK, Contexts
    <2>2. context[t].observations \in Nat
      BY DEF TypeOK, Contexts
    <2>3. UNCHANGED Filed(t) /\ Leads(t)' = Leads(t)
      BY <2>1, <2>2 DEF Filed, Leads, Unborn, Seqs
    <2>4. \A u \in Turns \ {t} : context'[u] = context[u] /\ pc'[u] = pc[u]
      BY <1>6 DEF RecordObservation, Goto, TypeOK
    <2>5. context'[t].observations \in 1 .. MaxObservations
      BY <2>1, <2>2, LimitsAssumption
    <2>6. QED
      BY <1>1, <2>1, <2>3, <2>4, <2>5
  <1>7. CASE LoadContext(t)
    <2>1. /\ pc'[t] = "model" /\ UNCHANGED <<rows, seq>>
          /\ context'[t].checks = Cardinality(RowsOf("check"))
          /\ context'[t].observations = Cardinality(RowsOf("observe"))
      BY <1>7 DEF LoadContext, Goto, TypeOK
    <2>2. \A u \in Turns \ {t} : context'[u] = context[u] /\ pc'[u] = pc[u]
      BY <1>7 DEF LoadContext, Goto, TypeOK
    <2>3. Filed(t)' = Cardinality(RowsOf("observe"))
      BY <2>1 DEF Filed
    <2>4. QED
      BY <1>1, <2>1, <2>2, <2>3
  <1>8. CASE Say(t)
    <2>1. pc'[t] \in {"context", "dead"} /\ UNCHANGED context /\ \A u \in Turns \ {t} : pc'[u] = pc[u]
      BY <1>8 DEF Say, Write, Goto, TypeOK
    <2>2. CASE Appends(t, "candidate", 0)
      <3>1. /\ IsFiniteSet(rows')
            /\ Cardinality(RowsOf("check")') = Cardinality(RowsOf("check"))
            /\ Cardinality(RowsOf("observe")') = Cardinality(RowsOf("observe"))
        BY <2>2, AppendCounts DEF Counted
      <3>2. \A u \in Turns : Leads(u)' => u = t
        BY <2>2, OneLeader
      <3>3. ~(Leads(t)' /\ pc'[t] # "context")
        BY <2>1 DEF Leads
      <3>4. \A u \in Turns : pc'[u] = "observed" => pc[u] = "observed" /\ context'[u] = context[u]
        BY <2>1
      <3>5. Counted'
        BY <3>1, <3>2, <3>3, <3>4 DEF Counted
      <3>6. QED
        BY <3>1, <3>5 DEF RationsHold
    <2>3. CASE ~Appends(t, "candidate", 0)
      <3>1. UNCHANGED <<rows, seq>> /\ pc'[t] = "dead"
        BY <1>8, <2>3 DEF Say, Write, Appends, NewRow, Goto, Born, Labels, Unborn, TypeOK
      <3>2. QED
        BY <1>1, <2>1, <3>1 DEF Leads
    <2>4. QED
      BY <2>2, <2>3
  <1>9. ASSUME pc[t] \notin Unborn \cup {"dead", "context", "observed"}, UNCHANGED context,
               NEW kind \in Kinds \ {"check", "observe"}, NEW label \in {"tools", "answered"},
               Write(t, kind, 0, label)
        PROVE  Counted' /\ RationsHold'
    <2>1. context'[t].checks = context[t].checks + 0 /\ context'[t].observations = Filed(t) + 0
      BY <1>9 DEF Filed, TypeOK, Contexts
    <2>2. /\ context'[t].checks = context[t].checks + (IF kind = "check" THEN 1 ELSE 0)
          /\ context'[t].observations = Filed(t) + (IF kind = "observe" THEN 1 ELSE 0)
      BY <1>9, <2>1
    <2>3. kind \in Kinds /\ 0 \in Nat /\ kind # "check" /\ kind # "observe"
      BY <1>9
    <2>4. \A u \in Turns \ {t} : context'[u] = context[u]
      BY <1>9
    <2>5. Tallied(t, kind)
      BY <2>2, <2>3, <2>4 DEF Tallied
    <2>6. QED
      BY <1>9, <2>3, <2>5, WriteCounted
  <1>10. CASE AskModel(t)
    BY <1>9, <1>10 DEF AskModel, Unborn
  <1>11. CASE UseOther(t) \/ StopAtCap(t)
    BY <1>9, <1>11 DEF UseOther, StopAtCap, CanUse, Unborn
  <1>12. CASE \E level \in 1 .. Hints : RevealHint(t, level)
    <2>1. PICK level \in 1 .. Hints : RevealHint(t, level)
      BY <1>12
    <2>2. level \in Nat /\ pc[t] = "tools" /\ Write(t, "hint", level, "tools")
      BY <2>1, LimitsAssumption DEF RevealHint, CanUse
    <2>3. /\ context'[t].checks = context[t].checks + 0
          /\ context'[t].observations = Filed(t) + 0
          /\ \A u \in Turns \ {t} : context'[u] = context[u]
      BY <2>1, <2>2 DEF RevealHint, TypeOK, Contexts, Filed
    <2>4. Tallied(t, "hint")
      BY <2>3 DEF Tallied
    <2>5. QED
      BY <2>2, <2>4, WriteCounted DEF Unborn
  <1>13. CASE CheckAnswer(t)
    <2>1. /\ pc[t] = "tools" /\ Write(t, "check", 0, "tools")
          /\ context[t].checks < MaxAnswerChecks
          /\ context'[t].checks = context[t].checks + 1
          /\ context'[t].observations = Filed(t) + 0
          /\ \A u \in Turns \ {t} : context'[u] = context[u]
      BY <1>13 DEF CheckAnswer, CanUse, TypeOK, Contexts, Filed
    <2>2. context'[t].checks <= MaxAnswerChecks
      BY <2>1, LimitsAssumption DEF TypeOK, Contexts
    <2>3. Tallied(t, "check")
      BY <2>1, <2>2 DEF Tallied
    <2>4. QED
      BY <2>1, <2>3, WriteCounted DEF Unborn
  <1>14. CASE FileObservation(t)
    <2>1. /\ pc[t] = "observed" /\ Write(t, "observe", 0, "tools") /\ UNCHANGED context
          /\ context[t].observations \in 1 .. MaxObservations
      BY <1>14 DEF FileObservation, Counted
    <2>2. context'[t].checks = context[t].checks + 0 /\ context'[t].observations = Filed(t) + 1
      BY <2>1 DEF Filed, TypeOK, Contexts
    <2>3. context'[t].observations <= MaxObservations /\ \A u \in Turns \ {t} : context'[u] = context[u]
      BY <2>1, LimitsAssumption
    <2>4. Tallied(t, "observe")
      BY <2>2, <2>3 DEF Tallied
    <2>5. QED
      BY <2>1, <2>4, WriteCounted DEF Unborn
  <1>15. QED
    BY <1>2, <1>3, <1>4, <1>5, <1>6, <1>7, <1>8, <1>10, <1>11, <1>12, <1>13, <1>14 DEF Progress
---------------------------------------------------------------------------
\* Types

LEMMA WriteTypes ==
  ASSUME TypeOK, Ordered, NEW t \in Turns, NEW kind \in Kinds, NEW level \in Nat,
         NEW label \in Labels, pc[t] # "idle", Write(t, kind, level, label)
  PROVE  rows' \subseteq Row /\ seq' \in [Turns -> Nat] /\ pc' \in [Turns -> Labels]
  <1>1. seq[t] \in Nat \ {0} /\ seq[t] + 1 \in Nat
    BY DEF TypeOK, Ordered, Counting
  <1>2. NewRow(t, kind, level) \in Row
    BY <1>1 DEF NewRow, Row
  <1>3. "dead" \in Labels
    BY DEF Labels
  <1>4. QED
    BY <1>1, <1>2, <1>3 DEF Write, Goto, NewRow, TypeOK

LEMMA GotoTypes ==
  ASSUME TypeOK, NEW t \in Turns, NEW label \in Labels, Goto(t, label)
  PROVE  pc' \in [Turns -> Labels]
  BY DEF TypeOK, Goto

LEMMA UseTypes ==
  ASSUME TypeOK, NEW t \in Turns, CanUse(t), CountUse(t)
  PROVE  calls' \in [Turns -> Nat] /\ uses' \in [Turns -> Nat]
  BY DEF TypeOK, CanUse, CountUse

LEMMA TypesStep ==
  ASSUME TypeOK, Ordered, LevelsDense, Counted, Next
  PROVE  TypeOK'
  <1> USE DEF Kinds, Labels
  <1>1. PICK t \in Turns : Start(t) \/ Progress(t)
    BY DEF Next
  <1>2. \A k : Cardinality(RowsOf(k)) \in Nat
    <2>1. \A k : RowsOf(k) \subseteq rows
      BY DEF RowsOf
    <2>2. QED
      BY <2>1, FS_Subset, FS_CardinalityType DEF Counted
  <1>3. HighestHint \in Nat
    BY HighestHintIsHighest, LimitsAssumption DEF LevelsDense
  <1>4. CASE Start(t)
    <2>1. seq' \in [Turns -> Nat]
      BY <1>4, StartOrdered
    <2>2. QED
      BY <1>4, <2>1, GotoTypes DEF Start, TypeOK
  <1>5. CASE Say(t)
    <2>1. rows' \subseteq Row /\ seq' \in [Turns -> Nat] /\ pc' \in [Turns -> Labels]
      BY <1>5, WriteTypes DEF Say
    <2>2. QED
      BY <1>5, <2>1 DEF Say, TypeOK
  <1>6. CASE LoadContext(t)
    <2>1. context' \in [Turns -> Contexts]
      BY <1>2, <1>3, <1>6 DEF LoadContext, TypeOK, Contexts
    <2>2. QED
      BY <1>6, <2>1, GotoTypes DEF LoadContext, TypeOK
  <1>7. CASE AskModel(t)
    <2>1. rows' \subseteq Row /\ seq' \in [Turns -> Nat] /\ pc' \in [Turns -> Labels]
      BY <1>7, WriteTypes DEF AskModel
    <2>2. uses' \in [Turns -> Nat] /\ rounds' \in [Turns -> Nat]
      BY <1>7, LimitsAssumption DEF AskModel, TypeOK
    <2>3. QED
      BY <1>7, <2>1, <2>2 DEF AskModel, TypeOK
  <1>8. CASE ModelFails(t)
    BY <1>8, GotoTypes DEF ModelFails, TypeOK
  <1>9. CASE \E level \in 1 .. Hints : RevealHint(t, level)
    <2>1. PICK level \in 1 .. Hints : RevealHint(t, level)
      BY <1>9
    <2>2. level \in Nat /\ CanUse(t) /\ CountUse(t) /\ Write(t, "hint", level, "tools") /\ pc[t] = "tools"
      BY <2>1, LimitsAssumption DEF RevealHint, CanUse
    <2>3. rows' \subseteq Row /\ seq' \in [Turns -> Nat] /\ pc' \in [Turns -> Labels]
      BY <2>2, WriteTypes
    <2>4. context' \in [Turns -> Contexts]
      BY <2>1, <2>2 DEF RevealHint, TypeOK, Contexts
    <2>5. QED
      BY <2>1, <2>2, <2>3, <2>4, UseTypes DEF RevealHint, TypeOK
  <1>10. CASE CheckAnswer(t)
    <2>1. rows' \subseteq Row /\ seq' \in [Turns -> Nat] /\ pc' \in [Turns -> Labels]
      BY <1>10, WriteTypes DEF CheckAnswer, CanUse
    <2>2. context' \in [Turns -> Contexts]
      BY <1>10 DEF CheckAnswer, TypeOK, Contexts
    <2>3. QED
      BY <1>10, <2>1, <2>2, UseTypes DEF CheckAnswer, TypeOK
  <1>11. CASE RecordObservation(t)
    <2>1. context' \in [Turns -> Contexts]
      BY <1>11 DEF RecordObservation, TypeOK, Contexts
    <2>2. QED
      BY <1>11, <2>1, GotoTypes, UseTypes DEF RecordObservation, TypeOK
  <1>12. CASE FileObservation(t)
    <2>1. rows' \subseteq Row /\ seq' \in [Turns -> Nat] /\ pc' \in [Turns -> Labels]
      BY <1>12, WriteTypes DEF FileObservation
    <2>2. QED
      BY <1>12, <2>1 DEF FileObservation, TypeOK
  <1>13. CASE UseOther(t)
    <2>1. rows' \subseteq Row /\ seq' \in [Turns -> Nat] /\ pc' \in [Turns -> Labels]
      BY <1>13, WriteTypes DEF UseOther, CanUse
    <2>2. QED
      BY <1>13, <2>1, UseTypes DEF UseOther, TypeOK
  <1>14. CASE FinishRound(t)
    BY <1>14, GotoTypes DEF FinishRound, TypeOK
  <1>15. CASE StopAtCap(t)
    <2>1. rows' \subseteq Row /\ seq' \in [Turns -> Nat] /\ pc' \in [Turns -> Labels]
      BY <1>15, WriteTypes DEF StopAtCap
    <2>2. QED
      BY <1>15, <2>1 DEF StopAtCap, TypeOK
  <1>16. QED
    BY <1>1, <1>4, <1>5, <1>6, <1>7, <1>8, <1>9, <1>10, <1>11, <1>12, <1>13, <1>14, <1>15 DEF Progress

---------------------------------------------------------------------------
\* The invariant

LEMMA InitInvariant == Init => IInv
  <1> SUFFICES ASSUME Init PROVE IInv
    OBVIOUS
  <1>1. TypeOK
    BY DEF Init, TypeOK, Labels, Contexts
  <1>2. rows = {} /\ Seqs = {} /\ Levels = {} /\ \A k : RowsOf(k) = {}
    BY DEF Init, Seqs, Levels, RowsOf
  <1>3. Numbered
    <2>1. Seqs = 1 .. 0
      BY <1>2
    <2>2. QED
      BY <1>2, <2>1 DEF Numbered
  <1>4. Counting /\ Owned
    BY <1>2 DEF Init, Counting, Owned, Unborn
  <1>5. HintsInOrder
    BY <1>2 DEF HintsInOrder
  <1>6. LevelsDense
    <2>1. Levels = 1 .. 0 /\ 0 \in 0 .. Hints
      BY <1>2, LimitsAssumption
    <2>2. \A t \in Turns : 1 .. context[t].hints = {}
      BY DEF Init
    <2>3. QED
      BY <2>1, <2>2 DEF LevelsDense
  <1>7. IsFiniteSet(rows) /\ \A k : Cardinality(RowsOf(k)) = 0
    BY <1>2, FS_EmptySet
  <1>8. Counted /\ RationsHold
    BY <1>7, LimitsAssumption DEF Init, Counted, RationsHold, Leads, Unborn
  <1>9. QED
    BY <1>1, <1>3, <1>4, <1>5, <1>6, <1>8 DEF IInv

LEMMA StepInvariant == IInv /\ [Next]_vars => IInv'
  <1> SUFFICES ASSUME IInv, [Next]_vars PROVE IInv'
    OBVIOUS
  <1> USE DEF IInv
  <1>1. CASE Next
    <2>1. PICK t \in Turns : Start(t) \/ Progress(t)
      BY <1>1 DEF Next
    <2>2. Ordered'
      BY <2>1, StepShape, StartOrdered, MovesOrdered, AppendsOrdered DEF Ordered
    <2>3. TypeOK' /\ HintsInOrder' /\ LevelsDense' /\ Counted' /\ RationsHold'
      BY <1>1, TypesStep, HintsStep, CountedStep DEF Ordered
    <2>4. QED
      BY <2>2, <2>3 DEF Ordered
  <1>2. CASE UNCHANGED vars
    BY <1>2 DEF vars, TypeOK, Numbered, Counting, Owned, HintsInOrder, LevelsDense, Counted, RationsHold,
                Seqs, Levels, RowsOf, Leads, Filed
  <1>3. QED
    BY <1>1, <1>2

LEMMA Invariance == Spec => []IInv
  BY InitInvariant, StepInvariant, PTL DEF Spec

\* Every variable keeps its type, whatever the turns do.
THEOREM TranscriptTypes == Spec => []TypeOK
  BY Invariance, PTL DEF IInv

\* However many turns count from the same number, the transcript has neither a gap nor a
\* repeated number (next_seq, _write and the unique constraint).
THEOREM DenselyNumbered == Spec => []SeqsDense
  <1>1. IInv => SeqsDense
    <2>1. SUFFICES ASSUME IInv PROVE SeqsDense
      OBVIOUS
    <2>2. PICK n \in Nat : Seqs = 1 .. n
      BY <2>1 DEF IInv, Numbered
    <2>3. \A r \in rows : r.seq \in 1 .. n
      BY <2>2 DEF Seqs
    <2>4. QED
      BY <2>1, <2>2, <2>3 DEF IInv, Numbered, SeqsDense
  <1>2. QED
    BY Invariance, <1>1, PTL

\* The rows of one turn stand together, for any number of turns.
THEOREM TurnsStandTogether == Spec => []TurnsDoNotInterleave
  <1>1. IInv => TurnsDoNotInterleave
    BY DEF IInv, Owned, TypeOK, Row, TurnsDoNotInterleave
  <1>2. QED
    BY Invariance, <1>1, PTL

\* The hint ladder is climbed in order, whichever turns climb it (_reveal_hint).
THEOREM LadderInOrder == Spec => []HintsInOrder
  BY Invariance, PTL DEF IInv

\* No number of turns, each counting in its own context, exceeds the rations (ToolContext).
THEOREM RationsKept == Spec => []RationsHold
  BY Invariance, PTL DEF IInv
=============================================================================
