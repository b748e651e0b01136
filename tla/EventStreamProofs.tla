-------------------------- MODULE EventStreamProofs --------------------------
(***************************************************************************)
(* The live channel keeps its types, delivers events in order and shows a  *)
(* loss, for any number of sessions and events and any size of buffer.     *)
(*                                                                         *)
(* What makes it so: the numbers in a channel stand at a fixed distance    *)
(* from the ids (Numbered), so a number tells how far apart two events of  *)
(* one channel are; what has been received and what is on the wire is one  *)
(* list in which each event follows the one before (Follows); and the      *)
(* generator's cursor is never behind the end of that list, and ahead of   *)
(* it only by what the buffer has dropped (Cursor).  Numbers rise along    *)
(* the list even when a new channel begins to count again, for the cursor  *)
(* outlives the channel.                                                   *)
(***************************************************************************)
EXTENDS EventStream, FiniteSetTheorems, SequenceTheorems, TLAPS

IsEvent(frame) == frame.kind \in {"event", "terminal"}
Shifted == published - last  \* how far the channel's numbers lag behind the ids

\* What a channel holds: the newest of its events, all of them while there is room.
Channel ==
    /\ last <= published /\ epoch <= published /\ Len(buffer) <= last
    /\ (last # 0) <=> (buffer # <<>>)
    /\ last # 0 /\ Len(buffer) < BufferSize => Len(buffer) = last
    /\ \A n \in DOMAIN buffer :
           /\ buffer[n].seq = last - Len(buffer) + n
           /\ buffer[n].id = published - Len(buffer) + n
           /\ buffer[n].epoch = epoch

\* Where an event that has been published stands.
Numbered(e) ==
    /\ e.epoch <= epoch /\ e.id <= published
    /\ last # 0 /\ e.epoch = epoch => e.id - e.seq = Shifted /\ e.seq <= last
    /\ last # 0 /\ e.epoch < epoch => e.id <= Shifted

\* The buffer has dropped what is before a number of the current channel.
DroppedBefore(seq) == last >= seq + BufferSize - 1

\* How an event relates to the one delivered before it.
Follows(a, b) ==
    /\ a.seq < b.seq /\ a.epoch <= b.epoch
    /\ a.epoch = b.epoch => b.id - a.id = b.seq - a.seq
    /\ a.epoch < b.epoch => b.id - b.seq >= a.id
    /\ a.epoch = b.epoch /\ b.epoch = epoch /\ last # 0 /\ b.seq > a.seq + 1 => DroppedBefore(b.seq)

\* Events of one channel are missing between two events.
Jumps(a, b) == a.epoch = b.epoch => b.seq > a.seq + 1

Newer == client.got[Len(client.got)].event  \* the event received last, if there is one

Delivered ==
    \A n \in DOMAIN client.got :
        /\ Numbered(client.got[n].event)
        /\ n > 1 => Follows(client.got[n - 1].event, client.got[n].event)

\* What the client remembers of the event received last.
Remembered ==
    /\ client.lastId = IF client.got = <<>> THEN 0 ELSE Newer.seq
    /\ client.lastSeq \in {NaN, client.lastId}

\* One connection's frames: a gap comes first, a timeout last, and events follow one another.
Sent ==
    \A n \in DOMAIN wire :
        /\ IsEvent(wire[n]) => Numbered(wire[n])
        /\ wire[n].kind = "gap" => n = 1
        /\ wire[n].kind = "timeout" => n = Len(wire) /\ pc = "none"
        /\ n > 1 /\ IsEvent(wire[n - 1]) /\ IsEvent(wire[n]) => Follows(wire[n - 1], wire[n])

\* The first event on the wire, of which the one received last is the one before.
Arriving(n) == IsEvent(wire[n]) /\ (n = 1 \/ ~IsEvent(wire[n - 1]))
NextSent ==
    client.got # <<>> =>
        \A n \in DOMAIN wire : Arriving(n) =>
            /\ Follows(Newer, wire[n])
            /\ client.gapTold \/ n > 1 => Jumps(Newer, wire[n])

\* A gap was announced because what follows the event received last had been dropped.
GapIsReal ==
    client.gapTold \/ (wire # <<>> /\ wire[1].kind = "gap") =>
        /\ client.got # <<>>
        /\ Newer.epoch = epoch /\ last # 0 => buffer[1].seq > Newer.seq + 1

\* The cursor against the event that was sent last.
Behind(e) ==
    /\ cursor >= e.seq
    /\ e.epoch = epoch /\ last # 0 /\ cursor > e.seq => DroppedBefore(cursor + 1)
Cursor ==
    pc # "none" =>
        /\ pc = "start" => wire = <<>> /\ cursor = client.lastId
        /\ wire # <<>> /\ IsEvent(wire[Len(wire)]) => Behind(wire[Len(wire)])
        /\ client.got # <<>> /\ (wire = <<>> \/ ~IsEvent(wire[Len(wire)])) => Behind(Newer)

IInv ==
    /\ TypeOK /\ Channel
    /\ Delivered /\ Remembered /\ Sent /\ NextSent /\ GapIsReal /\ Cursor
    /\ LossIsShown

---------------------------------------------------------------------------
\* Sequences

\* What a comprehension keeps when it keeps the end of a list.
LEMMA TailPicked ==
  ASSUME NEW seq, NEW k \in Nat, NEW L \in Nat, k <= L
  PROVE  Picked(seq, k + 1 .. L) = [n \in 1 .. L - k |-> seq[k + n]]
  <1> DEFINE places == k + 1 .. L
             rank(m) == Cardinality({j \in places : j <= m})
             at(n) == CHOOSE m \in places : rank(m) = n
  <1>1. Cardinality(places) = L - k
    <2>1. Cardinality(k + 1 .. L) = IF k + 1 > L THEN 0 ELSE L - (k + 1) + 1
      BY FS_Interval
    <2>2. QED
      BY <2>1
  <1>2. \A m \in places : rank(m) = m - k
    <2>1. SUFFICES ASSUME NEW m \in places PROVE rank(m) = m - k
      OBVIOUS
    <2>2. {j \in places : j <= m} = k + 1 .. m
      OBVIOUS
    <2>3. Cardinality(k + 1 .. m) = m - k
      BY FS_Interval
    <2>4. QED
      BY <2>2, <2>3
  <1> HIDE DEF rank
  <1>3. \A n \in 1 .. L - k : at(n) = k + n
    <2>1. SUFFICES ASSUME NEW n \in 1 .. L - k PROVE at(n) = k + n
      OBVIOUS
    <2>2. k + n \in places /\ rank(k + n) = n
      BY <1>2
    <2>3. at(n) \in places /\ rank(at(n)) = n
      BY <2>2
    <2> HIDE DEF at
    <2>4. QED
      BY <1>2, <2>3
  <1>4. Ascending(places) = [n \in 1 .. Cardinality(places) |-> at(n)]
    BY DEF Ascending, rank
  <1> HIDE DEF at
  <1>5. Ascending(places) = [n \in 1 .. L - k |-> k + n]
    BY <1>1, <1>3, <1>4
  <1>6. QED
    BY <1>5 DEF Picked

\* The newest elements of a list, when it grows beyond a bound.
LEMMA BoundedIs ==
  ASSUME NEW T, NEW seq \in Seq(T), NEW most \in Nat \ {0}
  PROVE  LET new == Bounded(seq, most)
             cut == IF Len(seq) > most THEN Len(seq) - most ELSE 0
         IN  /\ new \in Seq(T) /\ Len(new) = Len(seq) - cut
             /\ \A n \in 1 .. Len(seq) - cut : new[n] = seq[cut + n]
  <1>1. Len(seq) \in Nat
    OBVIOUS
  <1>2. CASE Len(seq) > most
    <2> DEFINE m == Len(seq) - most + 1
    <2>1. m \in Nat /\ m \in 1 .. Len(seq) /\ m <= Len(seq) + 1 /\ Len(seq) - m + 1 = most
      BY <1>1, <1>2
    <2>2. Bounded(seq, most) = SubSeq(seq, m, Len(seq))
      BY <1>2 DEF Bounded, Newest
    <2>3. /\ SubSeq(seq, m, Len(seq)) \in Seq(T) /\ Len(SubSeq(seq, m, Len(seq))) = most
          /\ \A n \in 1 .. most : SubSeq(seq, m, Len(seq))[n] = seq[m + n - 1]
      BY <1>1, <2>1, SubSeqProperties
    <2>4. \A n \in 1 .. most : m + n - 1 = Len(seq) - most + n
      BY <1>1
    <2> HIDE DEF m
    <2>5. QED
      BY <1>1, <1>2, <2>2, <2>3, <2>4
  <1>3. CASE ~(Len(seq) > most)
    BY <1>1, <1>3 DEF Bounded
  <1>4. QED
    BY <1>2, <1>3

\* One more element in a bounded list, which gives up its first one when it is full.
Extended(new, seq, e, most, T) ==
    \E cut \in {0, 1} :
        /\ cut = 1 <=> Len(seq) = most
        /\ new \in Seq(T) /\ Len(new) = Len(seq) + 1 - cut
        /\ \A n \in 1 .. Len(seq) + 1 - cut : new[n] = IF cut + n = Len(seq) + 1 THEN e ELSE seq[cut + n]

LEMMA AppendBounded ==
  ASSUME NEW T, NEW seq \in Seq(T), NEW e \in T, NEW most \in Nat \ {0}, Len(seq) <= most
  PROVE  Extended(Bounded(Append(seq, e), most), seq, e, most, T)
  <1> DEFINE grown == Append(seq, e)
  <1>1. Len(seq) \in Nat
    OBVIOUS
  <1>2. /\ grown \in Seq(T) /\ Len(grown) = Len(seq) + 1 /\ grown[Len(seq) + 1] = e
        /\ \A n \in 1 .. Len(seq) : grown[n] = seq[n]
    OBVIOUS
  <1> DEFINE new == Bounded(grown, most)
  <1> HIDE DEF grown
  <1>3. ASSUME Len(seq) = most PROVE Extended(new, seq, e, most, T)
    <2>1. Len(grown) > most /\ Len(grown) - most = 1
      BY <1>1, <1>2, <1>3
    <2>2. /\ new \in Seq(T) /\ Len(new) = Len(grown) - 1
          /\ \A n \in 1 .. Len(grown) - 1 : new[n] = grown[1 + n]
      BY <1>2, <2>1, BoundedIs
    <2> HIDE DEF new
    <2>3. QED
      BY <1>1, <1>2, <1>3, <2>2 DEF Extended
  <1>4. ASSUME Len(seq) # most PROVE Extended(new, seq, e, most, T)
    <2>1. ~(Len(grown) > most)
      BY <1>1, <1>2, <1>4
    <2>2. new = grown
      BY <2>1 DEF Bounded
    <2> HIDE DEF new
    <2>3. QED
      BY <1>1, <1>2, <1>4, <2>2 DEF Extended
  <1>5. Extended(new, seq, e, most, T)
    BY <1>3, <1>4
  <1>6. QED
    BY <1>5 DEF grown

---------------------------------------------------------------------------
\* Types

\* Events are what frames with a number are.
LEMMA Frames ==
  /\ \A e \in Event : /\ IsEvent(e) /\ e.seq \in 1 .. MaxEvents /\ e.id \in 1 .. MaxEvents
                      /\ e.epoch \in 1 .. MaxEvents
  /\ \A f \in Control : ~IsEvent(f) /\ f.kind \in {"gap", "timeout"} /\ f \notin Event
  BY DEF Event, Control, IsEvent

\* What the type invariant says of each part.
LEMMA Parts ==
  ASSUME TypeOK
  PROVE  /\ MaxEvents \in Nat /\ BufferSize \in Nat \ {0} /\ MaxChannels \in Nat \ {0} /\ MaxFaults \in Nat
         /\ last \in 0 .. MaxEvents /\ epoch \in 0 .. MaxEvents /\ published \in 0 .. MaxEvents
         /\ cursor \in 0 .. MaxEvents
         /\ buffer \in Seq(Event) /\ Len(buffer) \in Nat /\ DOMAIN buffer = 1 .. Len(buffer)
         /\ \A n \in DOMAIN buffer : buffer[n] \in Event
         /\ wire \in Seq(Event \cup Control) /\ Len(wire) \in Nat /\ DOMAIN wire = 1 .. Len(wire)
         /\ \A n \in DOMAIN wire : wire[n] \in Event \cup Control /\ (IsEvent(wire[n]) <=> wire[n] \in Event)
         /\ client.got \in Seq(Received) /\ Len(client.got) \in Nat /\ DOMAIN client.got = 1 .. Len(client.got)
         /\ \A n \in DOMAIN client.got : client.got[n] \in Received /\ client.got[n].event \in Event
         /\ client.got # <<>> => Len(client.got) \in DOMAIN client.got /\ Newer \in Event
  <1>1. /\ buffer \in Seq(Event) /\ wire \in Seq(Event \cup Control) /\ client.got \in Seq(Received)
        /\ last \in 0 .. MaxEvents /\ epoch \in 0 .. MaxEvents /\ published \in 0 .. MaxEvents
        /\ cursor \in 0 .. MaxEvents
    BY DEF TypeOK
  <1>2. \A n \in DOMAIN client.got : client.got[n] \in Received /\ client.got[n].event \in Event
    <2>1. SUFFICES ASSUME NEW n \in DOMAIN client.got
                   PROVE  client.got[n] \in Received /\ client.got[n].event \in Event
      OBVIOUS
    <2>2. client.got[n] \in Received
      BY <1>1
    <2>3. QED
      BY <2>2 DEF Received
  <1>3. /\ \A n \in DOMAIN wire : wire[n] \in Event \cup Control
        /\ \A n \in DOMAIN buffer : buffer[n] \in Event
    BY <1>1
  <1>4. Len(client.got) \in Nat /\ DOMAIN client.got = 1 .. Len(client.got)
        /\ (client.got # <<>> => Len(client.got) \in DOMAIN client.got)
    BY <1>1
  <1>5. QED
    BY <1>1, <1>2, <1>3, <1>4, Frames, StreamAssumption DEF Newer

\* What a channel holds, by the length of its buffer.
LEMMA ChannelAt ==
  ASSUME TypeOK, Channel, NEW L \in Nat, L = Len(buffer)
  PROVE  /\ DOMAIN buffer = 1 .. L /\ L <= BufferSize /\ L <= last
         /\ (last # 0) <=> (buffer # <<>>)
         /\ last # 0 /\ L < BufferSize => L = last
         /\ \A n \in 1 .. L : /\ buffer[n] \in Event /\ buffer[n].epoch = epoch
                              /\ buffer[n].seq = last - L + n /\ buffer[n].id = published - L + n
  BY Parts DEF TypeOK, Channel

\* What is sent is the end of the buffer, from the first number beyond the cursor on.
LEMMA SinceIs ==
  ASSUME TypeOK, Channel
  PROVE  \E k \in 0 .. Len(buffer) :
             /\ Since(cursor) = [n \in 1 .. Len(buffer) - k |-> buffer[k + n]]
             /\ \A n \in DOMAIN buffer : buffer[n].seq > cursor <=> n > k
  <1> DEFINE L == Len(buffer)
             k == IF cursor <= last - L THEN 0 ELSE IF cursor >= last THEN L ELSE cursor - (last - L)
  <1>1. /\ L \in Nat /\ last \in Nat /\ cursor \in Nat /\ L <= last /\ DOMAIN buffer = 1 .. L
    BY Parts DEF Channel
  <1>2. k \in 0 .. L
    BY <1>1
  <1>3. \A n \in DOMAIN buffer : buffer[n].seq > cursor <=> n > k
    <2>1. SUFFICES ASSUME NEW n \in DOMAIN buffer PROVE buffer[n].seq > cursor <=> n > k
      OBVIOUS
    <2>2. buffer[n].seq = last - L + n /\ n \in 1 .. L
      BY <1>1 DEF Channel
    <2>3. QED
      BY <1>1, <2>2
  <1> HIDE DEF k
  <1>4. {n \in DOMAIN buffer : buffer[n].seq > cursor} = k + 1 .. L
    BY <1>1, <1>2, <1>3
  <1>5. Picked(buffer, k + 1 .. L) = [n \in 1 .. L - k |-> buffer[k + n]]
    BY <1>1, <1>2, TailPicked
  <1>6. QED
    BY <1>2, <1>3, <1>4, <1>5 DEF Since

\* A publication moves its channel to the end of the list and keeps the bound.
LEMMA TouchedIs ==
  ASSUME TypeOK, NEW session \in Others \cup {Watched}
  PROVE  LET new == Touched(session)
         IN  /\ new \in Seq(Others \cup {Watched}) /\ Len(new) <= MaxChannels
             /\ \E n \in DOMAIN new : new[n] = session
             /\ \A n \in DOMAIN new : new[n] # session => \E m \in DOMAIN lru : lru[m] = new[n]
  <1> DEFINE T == Others \cup {Watched}
             held == {n \in DOMAIN lru : lru[n] = session}
             p == CHOOSE n \in held : TRUE
             others == IF held = {} THEN lru ELSE RemoveAt(lru, p)
             whole == Append(others, session)
             new == Bounded(whole, MaxChannels)
             cut == IF Len(whole) > MaxChannels THEN Len(whole) - MaxChannels ELSE 0
  <1>1. lru \in Seq(T) /\ Len(lru) \in Nat /\ MaxChannels \in Nat \ {0}
    BY Parts DEF TypeOK
  <1>2. others \in Seq(T) /\ \A n \in DOMAIN others : \E m \in DOMAIN lru : lru[m] = others[n]
    <2>1. CASE held = {}
      BY <1>1, <2>1
    <2>2. CASE held # {}
      <3>1. p \in 1 .. Len(lru)
        BY <1>1, <2>2
      <3> HIDE DEF p
      <3> DEFINE left == SubSeq(lru, 1, p - 1)
                 right == SubSeq(lru, p + 1, Len(lru))
      <3>2. /\ left \in Seq(T) /\ Len(left) = p - 1
            /\ \A n \in 1 .. p - 1 : left[n] = lru[n]
        BY <1>1, <3>1, SubSeqProperties
      <3>3. /\ right \in Seq(T) /\ Len(right) = Len(lru) - p
            /\ \A n \in 1 .. Len(lru) - p : right[n] = lru[p + n]
        BY <1>1, <3>1, SubSeqProperties
      <3>4. others = left \o right
        BY <2>2 DEF RemoveAt
      <3> HIDE DEF left, right
      <3>5. /\ left \o right \in Seq(T) /\ Len(left \o right) = Len(lru) - 1
            /\ \A n \in 1 .. Len(lru) - 1 : (left \o right)[n] = IF n <= p - 1 THEN left[n] ELSE right[n - (p - 1)]
        <4>1. /\ left \o right \in Seq(T) /\ Len(left \o right) = Len(left) + Len(right)
              /\ \A n \in 1 .. Len(left) + Len(right) :
                     (left \o right)[n] = IF n <= Len(left) THEN left[n] ELSE right[n - Len(left)]
          BY <3>2, <3>3, ConcatProperties
        <4>2. Len(left) = p - 1 /\ Len(left) + Len(right) = Len(lru) - 1
          BY <1>1, <3>1, <3>2, <3>3
        <4>3. QED
          BY <4>1, <4>2
      <3>6. \A n \in 1 .. Len(lru) - 1 : \E m \in 1 .. Len(lru) : lru[m] = (left \o right)[n]
        <4>1. SUFFICES ASSUME NEW n \in 1 .. Len(lru) - 1
                       PROVE  \E m \in 1 .. Len(lru) : lru[m] = (left \o right)[n]
          OBVIOUS
        <4>2. CASE n <= p - 1
          BY <1>1, <3>1, <3>2, <3>5, <4>2
        <4>3. CASE ~(n <= p - 1)
          <5>1. n - (p - 1) \in 1 .. Len(lru) - p /\ p + (n - (p - 1)) = n + 1 /\ n + 1 \in 1 .. Len(lru)
            BY <1>1, <3>1, <4>3
          <5>2. QED
            BY <3>3, <3>5, <4>3, <5>1
        <4>4. QED
          BY <4>2, <4>3
      <3> HIDE DEF others
      <3>7. DOMAIN (left \o right) = 1 .. Len(lru) - 1
        BY <3>5
      <3>8. DOMAIN lru = 1 .. Len(lru)
        BY <1>1
      <3>9. QED
        BY <3>4, <3>5, <3>6, <3>7, <3>8
    <2>3. QED
      BY <2>1, <2>2
  <1> HIDE DEF others, held
  <1>3. /\ whole \in Seq(T) /\ Len(whole) = Len(others) + 1 /\ Len(others) \in Nat
        /\ whole[Len(others) + 1] = session /\ \A n \in 1 .. Len(others) : whole[n] = others[n]
    BY <1>2
  <1> HIDE DEF whole
  <1>4. /\ new \in Seq(T) /\ Len(new) = Len(whole) - cut
        /\ \A n \in 1 .. Len(whole) - cut : new[n] = whole[cut + n]
    BY <1>1, <1>3, BoundedIs
  <1>5. cut \in Nat /\ cut < Len(whole) /\ Len(whole) - cut <= MaxChannels
    BY <1>1, <1>3
  <1>6. Touched(session) = new
    BY DEF Touched, whole, others, held
  <1> HIDE DEF new, cut
  <1>7. DOMAIN new = 1 .. Len(whole) - cut
    BY <1>4
  <1>8. Len(whole) - cut \in DOMAIN new /\ new[Len(whole) - cut] = session
    BY <1>3, <1>4, <1>5, <1>7
  <1>9. \A n \in DOMAIN new : new[n] # session => \E m \in DOMAIN lru : lru[m] = new[n]
    <2>1. SUFFICES ASSUME NEW n \in DOMAIN new, new[n] # session PROVE \E m \in DOMAIN lru : lru[m] = new[n]
      OBVIOUS
    <2>2. new[n] = whole[cut + n] /\ cut + n \in 1 .. Len(others)
      BY <1>3, <1>4, <1>5, <1>7, <2>1
    <2>3. QED
      BY <1>2, <1>3, <2>2
  <1>10. QED
    BY <1>4, <1>5, <1>6, <1>8, <1>9

---------------------------------------------------------------------------
\* The bus moves on

\* What a publication or an eviction does to the numbering of the watched channel.
Grows == last # 0 /\ last' = last + 1 /\ published' = published + 1 /\ epoch' = epoch
Begins == last = 0 /\ last' = 1 /\ published' = published + 1 /\ epoch' = epoch + 1
Empties == last' = 0 /\ UNCHANGED <<published, epoch>>
Turns == Grows \/ Begins \/ Empties \/ UNCHANGED <<last, published, epoch>>

\* An event keeps its place in the numbering, ...
LEMMA NumberedKept ==
  ASSUME TypeOK, Channel, Turns, NEW e \in Event, Numbered(e)
  PROVE  Numbered(e)'
  <1>1. e.seq \in Nat /\ e.id \in Nat /\ e.epoch \in Nat
    BY Frames, Parts
  <1>2. last \in Nat /\ published \in Nat /\ epoch \in Nat
    BY Parts
  <1>3. CASE Grows
    BY <1>1, <1>2, <1>3 DEF Grows, Numbered, Shifted
  <1>4. CASE Begins
    BY <1>1, <1>2, <1>4 DEF Begins, Numbered, Shifted
  <1>5. CASE Empties
    BY <1>1, <1>2, <1>5 DEF Empties, Numbered, Shifted
  <1>6. CASE UNCHANGED <<last, published, epoch>>
    BY <1>1, <1>2, <1>6 DEF Numbered, Shifted
  <1>7. QED
    BY <1>3, <1>4, <1>5, <1>6 DEF Turns

\* ... the one after it keeps its distance, ...
LEMMA FollowsKept ==
  ASSUME TypeOK, Channel, Turns, NEW a \in Event, NEW b \in Event, Numbered(b), Follows(a, b)
  PROVE  Follows(a, b)'
  <1>1. b.seq \in Nat /\ b.epoch \in Nat /\ b.epoch <= epoch
    BY Frames, Parts DEF Numbered
  <1>2. last \in Nat /\ epoch \in Nat /\ BufferSize \in Nat
    BY Parts
  <1>3. CASE Grows
    BY <1>1, <1>2, <1>3 DEF Grows, Follows, DroppedBefore
  <1>4. CASE Begins
    BY <1>1, <1>2, <1>4 DEF Begins, Follows, DroppedBefore
  <1>5. CASE Empties
    BY <1>1, <1>2, <1>5 DEF Empties, Follows, DroppedBefore
  <1>6. CASE UNCHANGED <<last, published, epoch>>
    BY <1>1, <1>2, <1>6 DEF Follows, DroppedBefore
  <1>7. QED
    BY <1>3, <1>4, <1>5, <1>6 DEF Turns

\* ... and the cursor what it has over it.
LEMMA BehindKept ==
  ASSUME TypeOK, Channel, Turns, UNCHANGED cursor, NEW e \in Event, Numbered(e), Behind(e)
  PROVE  Behind(e)'
  <1>1. e.seq \in Nat /\ e.epoch \in Nat /\ e.epoch <= epoch
    BY Frames, Parts DEF Numbered
  <1>2. last \in Nat /\ epoch \in Nat /\ BufferSize \in Nat /\ cursor \in Nat
    BY Parts
  <1>3. CASE Grows
    BY <1>1, <1>2, <1>3 DEF Grows, Behind, DroppedBefore
  <1>4. CASE Begins
    BY <1>1, <1>2, <1>4 DEF Begins, Behind, DroppedBefore
  <1>5. CASE Empties
    BY <1>1, <1>2, <1>5 DEF Empties, Behind, DroppedBefore
  <1>6. CASE UNCHANGED <<last, published, epoch>>
    BY <1>1, <1>2, <1>6 DEF Behind, DroppedBefore
  <1>7. QED
    BY <1>3, <1>4, <1>5, <1>6 DEF Turns

\* The received events stay in order ...
LEMMA DeliveredKept ==
  ASSUME TypeOK, Channel, Delivered, Remembered, LossIsShown, Turns, UNCHANGED client
  PROVE  Delivered' /\ Remembered' /\ LossIsShown'
  <1>1. \A e \in Event : Numbered(e) => Numbered(e)'
    BY NumberedKept
  <1>2. \A a, b \in Event : Numbered(b) /\ Follows(a, b) => Follows(a, b)'
    BY FollowsKept
  <1>3. Delivered'
    <2>1. SUFFICES ASSUME NEW n \in DOMAIN client.got
                   PROVE  /\ Numbered(client.got[n].event)'
                          /\ n > 1 => Follows(client.got[n - 1].event, client.got[n].event)'
      BY DEF Delivered
    <2> DEFINE b == client.got[n].event
               a == client.got[n - 1].event
    <2>2. b \in Event /\ Numbered(b) /\ (n > 1 => a \in Event /\ Follows(a, b))
      <3>1. n > 1 => n - 1 \in DOMAIN client.got
        BY Parts
      <3>2. QED
        BY <3>1, Parts DEF Delivered
    <2>3. b' = b /\ a' = a
      OBVIOUS
    <2>4. Numbered(b)'
      BY <1>1, <2>2, <2>3
    <2>5. n > 1 => Follows(a, b)'
      BY <1>2, <2>2, <2>3
    <2>6. QED
      BY <2>4, <2>5
  <1>4. Remembered' /\ LossIsShown'
    BY DEF Remembered, LossIsShown, Skipped, Newer
  <1>5. QED
    BY <1>3, <1>4

\* ... and so does what the connection and the client hold, whatever the bus does.
LEMMA BusKeeps ==
  ASSUME IInv, Turns, TypeOK', Channel', UNCHANGED <<wire, client, pc, cursor>>,
         Grows => Len(buffer') <= Len(buffer) + 1,
         UNCHANGED <<last, published, epoch>> => UNCHANGED buffer
  PROVE  IInv'
  <1>1. TypeOK /\ Channel /\ Delivered /\ Remembered /\ Sent /\ NextSent /\ GapIsReal /\ Cursor /\ LossIsShown
    BY DEF IInv
  <1>2. Newer' = Newer
    BY DEF Newer
  <1>3. client.got # <<>> => Newer \in Event /\ Numbered(Newer)
    BY <1>1, Parts DEF Delivered, Newer
  <1>4. \A e \in Event : Numbered(e) => Numbered(e)'
    BY <1>1, NumberedKept
  <1>5. \A a, b \in Event : Numbered(b) /\ Follows(a, b) => Follows(a, b)'
    BY <1>1, FollowsKept
  <1>6. \A e \in Event : Numbered(e) /\ Behind(e) => Behind(e)'
    BY <1>1, BehindKept
  <1>7. Delivered' /\ Remembered' /\ LossIsShown'
    BY <1>1, DeliveredKept
  <1>8. Sent'
    <2>1. SUFFICES ASSUME NEW n \in DOMAIN wire
                   PROVE  /\ IsEvent(wire[n]) => Numbered(wire[n])'
                          /\ n > 1 /\ IsEvent(wire[n - 1]) /\ IsEvent(wire[n]) => Follows(wire[n - 1], wire[n])'
      BY <1>1 DEF Sent, IsEvent
    <2> DEFINE b == wire[n]
               a == wire[n - 1]
    <2>2. /\ IsEvent(b) => b \in Event /\ Numbered(b)
          /\ n > 1 /\ IsEvent(a) /\ IsEvent(b) => a \in Event /\ Follows(a, b)
      <3>1. n > 1 => n - 1 \in DOMAIN wire
        BY <1>1, Parts
      <3>2. QED
        BY <1>1, <3>1, Parts DEF Sent
    <2>3. b' = b /\ a' = a
      OBVIOUS
    <2>4. IsEvent(b) => Numbered(b)'
      BY <1>4, <2>2, <2>3
    <2>5. n > 1 /\ IsEvent(a) /\ IsEvent(b) => Follows(a, b)'
      BY <1>5, <2>2, <2>3
    <2>6. QED
      BY <2>4, <2>5
  <1>9. NextSent'
    <2>1. SUFFICES ASSUME client.got # <<>>, NEW n \in DOMAIN wire, Arriving(n)
                   PROVE  Follows(Newer, wire[n])'
      BY <1>1, <1>2 DEF NextSent, Arriving, IsEvent, Jumps
    <2> DEFINE b == wire[n]
    <2>2. b \in Event /\ Numbered(b) /\ Follows(Newer, b)
      BY <1>1, <2>1, Parts DEF NextSent, Arriving, Sent
    <2>3. b' = b
      OBVIOUS
    <2>4. QED
      BY <1>2, <1>3, <1>5, <2>1, <2>2, <2>3
  <1>10. GapIsReal'
    <2>1. SUFFICES ASSUME client.gapTold \/ (wire # <<>> /\ wire[1].kind = "gap"), Newer.epoch = epoch', last' # 0
                   PROVE  buffer'[1].seq > Newer.seq + 1
      BY <1>1, <1>2 DEF GapIsReal
    <2>2. Newer \in Event /\ Newer.epoch <= epoch /\ Newer.epoch \in Nat /\ epoch \in Nat /\ Newer.seq \in Nat
      <3>1. Newer \in Event /\ Numbered(Newer)
        BY <1>1, <1>3, <2>1 DEF GapIsReal
      <3>2. epoch \in Nat /\ Newer.seq \in 1 .. MaxEvents /\ Newer.epoch \in 1 .. MaxEvents
        BY <1>1, <3>1, Parts, Frames
      <3>3. Newer.epoch <= epoch
        BY <3>1 DEF Numbered
      <3>4. QED
        BY <3>1, <3>2, <3>3
    <2>3. last # 0 /\ (Grows \/ UNCHANGED <<last, published, epoch>>)
      BY <2>1, <2>2 DEF Turns, Grows, Begins, Empties
    <2>4. buffer[1].seq > Newer.seq + 1
      BY <1>1, <2>1, <2>2, <2>3 DEF GapIsReal, Grows
    <2>5. CASE Grows
      <3>1. buffer[1].seq = last - Len(buffer) + 1 /\ Len(buffer) \in Nat /\ last \in Nat
        BY <1>1, <2>3, Parts, EmptySeq DEF Channel
      <3>2. buffer'[1].seq = last' - Len(buffer') + 1 /\ Len(buffer') \in Nat
        <4>1. buffer' \in Seq(Event) /\ buffer' # <<>>
          BY <2>1 DEF TypeOK, Channel
        <4>2. Len(buffer') \in Nat /\ 1 \in DOMAIN buffer'
          BY <4>1
        <4>3. QED
          BY <4>2 DEF Channel
      <3>3. QED
        BY <2>2, <2>4, <2>5, <3>1, <3>2 DEF Grows
    <2>6. QED
      BY <2>3, <2>4, <2>5
  <1>11. Cursor'
    <2>1. SUFFICES ASSUME pc # "none"
                   PROVE  /\ wire # <<>> /\ IsEvent(wire[Len(wire)]) => Behind(wire[Len(wire)])'
                          /\ client.got # <<>> /\ (wire = <<>> \/ ~IsEvent(wire[Len(wire)])) => Behind(Newer)'
      BY <1>1 DEF Cursor, IsEvent
    <2> DEFINE b == wire[Len(wire)]
    <2>2. wire # <<>> /\ IsEvent(b) => b \in Event /\ Numbered(b) /\ Behind(b)
      BY <1>1, <2>1, Parts, EmptySeq DEF Cursor, Sent
    <2>3. client.got # <<>> /\ (wire = <<>> \/ ~IsEvent(b)) => Behind(Newer)
      BY <1>1, <2>1 DEF Cursor
    <2>4. b' = b
      OBVIOUS
    <2>5. wire # <<>> /\ IsEvent(b) => Behind(b)'
      BY <1>6, <2>2, <2>4
    <2>6. client.got # <<>> /\ (wire = <<>> \/ ~IsEvent(b)) => Behind(Newer)'
      BY <1>2, <1>3, <1>6, <2>3
    <2>7. QED
      BY <2>5, <2>6
  <1>12. QED
    BY <1>7, <1>8, <1>9, <1>10, <1>11 DEF IInv

---------------------------------------------------------------------------
\* Steps of the bus and of the session

LEMMA InitHolds == Init => IInv
  <1> SUFFICES ASSUME Init PROVE IInv
    OBVIOUS
  <1>1. TypeOK
    <2>1. <<>> \in Seq(Others \cup {Watched}) /\ <<>> \in Seq(Event) /\ <<>> \in Seq(Event \cup Control)
          /\ <<>> \in Seq(Received) /\ Len(<<>>) = 0 /\ DOMAIN <<>> = {}
      OBVIOUS
    <2>2. BufferSize \in Nat /\ MaxChannels \in Nat /\ MaxEvents \in Nat /\ MaxFaults \in Nat
      BY StreamAssumption
    <2>3. client \in [open : BOOLEAN, lastId : 0 .. MaxEvents, lastSeq : 0 .. MaxEvents \cup {NaN},
                      gapTold : BOOLEAN, got : Seq(Received)]
      BY <2>1, <2>2 DEF Init
    <2>4. /\ lru \in Seq(Others \cup {Watched}) /\ Len(lru) <= MaxChannels
          /\ buffer \in Seq(Event) /\ Len(buffer) <= BufferSize /\ wire \in Seq(Event \cup Control)
          /\ (buffer = <<>>) <=> (\A n \in DOMAIN lru : lru[n] # Watched)
      BY <2>1, <2>2 DEF Init
    <2>5. /\ last \in 0 .. MaxEvents /\ published \in 0 .. MaxEvents /\ epoch \in 0 .. MaxEvents
          /\ cursor \in 0 .. MaxEvents /\ faults \in 0 .. MaxFaults
          /\ status \in {"open", "ended"} /\ announced \in {"no", "owed", "yes", "lost"}
          /\ pc \in {"none", "start", "poll", "check", "leave"} /\ finished \in BOOLEAN
      <3>1. 0 \in 0 .. MaxEvents /\ 0 \in 0 .. MaxFaults
        BY <2>2
      <3>2. /\ last = 0 /\ published = 0 /\ epoch = 0 /\ cursor = 0 /\ faults = 0 /\ status = "open"
            /\ announced = "no" /\ pc = "none" /\ finished = FALSE
        BY DEF Init
      <3>3. QED
        BY <3>1, <3>2
    <2>6. QED
      BY <2>3, <2>4, <2>5 DEF TypeOK
  <1>2. Channel
    BY StreamAssumption DEF Init, Channel
  <1>3. Delivered /\ Remembered /\ Sent /\ NextSent /\ GapIsReal /\ Cursor /\ LossIsShown
    BY DEF Init, Delivered, Remembered, Sent, NextSent, GapIsReal, Cursor, LossIsShown
  <1>4. QED
    BY <1>1, <1>2, <1>3 DEF IInv

\* The next event goes to the end of the buffer and may push the first one out.
LEMMA PublishStep ==
  ASSUME IInv, NEW kind \in {"event", "terminal"}, PublishWatched(kind),
         UNCHANGED <<status, stream, wire, client, faults>>, announced' \in {"no", "owed", "yes", "lost"}
  PROVE  IInv'
  <1> DEFINE event == [kind |-> kind, seq |-> last + 1, id |-> published + 1,
                       epoch |-> IF last = 0 THEN epoch + 1 ELSE epoch]
  <1>1. TypeOK /\ Channel
    BY DEF IInv
  <1>2. PICK L \in Nat : L = Len(buffer)
    BY <1>1, Parts
  <1>3. /\ MaxEvents \in Nat /\ BufferSize \in Nat \ {0} /\ DOMAIN buffer = 1 .. L
        /\ last \in Nat /\ epoch \in Nat /\ published \in Nat /\ buffer \in Seq(Event)
    BY <1>1, <1>2, Parts
  <1>4. /\ L <= BufferSize /\ last <= published /\ epoch <= published /\ L <= last
        /\ (last # 0) <=> (buffer # <<>>)
        /\ last # 0 /\ L < BufferSize => L = last
        /\ \A n \in 1 .. L : /\ buffer[n].seq = last - L + n /\ buffer[n].id = published - L + n
                             /\ buffer[n].epoch = epoch
    BY <1>1, <1>2, <1>3 DEF TypeOK, Channel
  <1>5. last # 0 => epoch >= 1 /\ L >= 1
    <2>1. last # 0 => L >= 1
      BY <1>2, <1>3, <1>4
    <2>2. last # 0 => buffer[1].epoch = epoch /\ buffer[1] \in Event
      BY <1>3, <1>4, <2>1
    <2>3. QED
      BY <1>3, <2>1, <2>2, Frames
  <1>6. /\ published < MaxEvents
        /\ last' = last + 1 /\ published' = published + 1 /\ epoch' = event.epoch
        /\ lru' = Touched(Watched) /\ buffer' = Bounded(Append(buffer, event), BufferSize)
    BY DEF PublishWatched
  <1>7. event \in Event
    BY <1>3, <1>4, <1>5, <1>6 DEF Event
  <1>8. Turns /\ (Grows \/ Begins)
    BY <1>3, <1>6 DEF Turns, Grows, Begins
  <1>9. event.seq = last' /\ event.id = published' /\ event.epoch = epoch'
    BY <1>6
  <1> HIDE DEF event
  <1>10. PICK cut \in {0, 1} :
             /\ cut = 1 <=> L = BufferSize
             /\ buffer' \in Seq(Event) /\ Len(buffer') = L + 1 - cut
             /\ \A n \in 1 .. L + 1 - cut : buffer'[n] = IF cut + n = L + 1 THEN event ELSE buffer[cut + n]
    <2>1. /\ buffer \in Seq(Event) /\ event \in Event /\ BufferSize \in Nat \ {0} /\ Len(buffer) <= BufferSize
          /\ buffer' = Bounded(Append(buffer, event), BufferSize)
      BY <1>2, <1>3, <1>4, <1>6, <1>7
    <2>2. Extended(buffer', buffer, event, BufferSize, Event)
      BY ONLY <2>1, AppendBounded
    <2>3. QED
      BY <1>2, <2>2 DEF Extended
  <1>11. /\ DOMAIN buffer' = 1 .. L + 1 - cut /\ L + 1 - cut \in Nat \ {0} /\ buffer' # <<>>
         /\ L + 1 - cut <= BufferSize /\ L + 1 - cut <= L + 1
    BY <1>3, <1>4, <1>10
  <1>12. TypeOK'
    <2>1. /\ lru' \in Seq(Others \cup {Watched}) /\ Len(lru') <= MaxChannels
          /\ \E n \in DOMAIN lru' : lru'[n] = Watched
      BY <1>1, <1>6, TouchedIs
    <2>2. last' \in 0 .. MaxEvents /\ published' \in 0 .. MaxEvents /\ epoch' \in 0 .. MaxEvents
      BY <1>3, <1>4, <1>6, <1>7, Frames
    <2>3. buffer' \in Seq(Event) /\ Len(buffer') <= BufferSize /\ buffer' # <<>>
      BY <1>10, <1>11
    <2>4. QED
      BY <1>1, <2>1, <2>2, <2>3 DEF TypeOK, stream
  <1>13. Channel'
    <2>1. last' <= published' /\ epoch' <= published' /\ L + 1 - cut <= last' /\ last' # 0
      BY <1>3, <1>4, <1>6, <1>8, <1>10 DEF Grows, Begins
    <2>2. L + 1 - cut < BufferSize => L + 1 - cut = last'
      BY <1>3, <1>4, <1>6, <1>10
    <2>3. \A n \in 1 .. L + 1 - cut : /\ buffer'[n].seq = last' - (L + 1 - cut) + n
                                      /\ buffer'[n].id = published' - (L + 1 - cut) + n
                                      /\ buffer'[n].epoch = epoch'
      <3>1. SUFFICES ASSUME NEW n \in 1 .. L + 1 - cut
                     PROVE  /\ buffer'[n].seq = last' - (L + 1 - cut) + n
                            /\ buffer'[n].id = published' - (L + 1 - cut) + n
                            /\ buffer'[n].epoch = epoch'
        OBVIOUS
      <3>2. CASE cut + n = L + 1
        <4>1. buffer'[n] = event
          BY <1>10, <3>2
        <4>2. last' - (L + 1 - cut) + n = last' /\ published' - (L + 1 - cut) + n = published'
          BY <1>3, <1>6, <3>2
        <4>3. QED
          BY <1>9, <4>1, <4>2
      <3>3. CASE cut + n # L + 1
        <4>1. cut + n \in 1 .. L /\ buffer'[n] = buffer[cut + n]
          BY <1>10, <3>3
        <4>2. last # 0 /\ epoch' = epoch
          BY <1>3, <1>4, <1>8, <4>1 DEF Grows, Begins
        <4>3. /\ buffer[cut + n].seq = last - L + (cut + n) /\ buffer[cut + n].id = published - L + (cut + n)
              /\ buffer[cut + n].epoch = epoch
          BY <1>4, <4>1
        <4>4. QED
          BY <1>3, <1>6, <4>1, <4>2, <4>3
      <3>4. QED
        BY <3>2, <3>3
    <2>4. QED
      BY <1>10, <1>11, <2>1, <2>2, <2>3 DEF Channel
  <1>14. QED
    <2>1. Len(buffer') <= Len(buffer) + 1
      BY <1>2, <1>10
    <2>2. ~ UNCHANGED <<last, published, epoch>>
      BY <1>3, <1>6
    <2>3. UNCHANGED <<wire, client, pc, cursor>>
      BY DEF stream
    <2>4. QED
      BY <1>8, <1>12, <1>13, <2>1, <2>2, <2>3, BusKeeps

LEMMA PublishOtherStep ==
  ASSUME IInv, NEW session \in Others, PublishOther(session)
  PROVE  IInv'
  <1>1. TypeOK /\ Channel
    BY DEF IInv
  <1>2. /\ lru' \in Seq(Others \cup {Watched}) /\ Len(lru') <= MaxChannels
        /\ \A n \in DOMAIN lru' : lru'[n] # session => \E m \in DOMAIN lru : lru[m] = lru'[n]
    BY <1>1, TouchedIs DEF PublishOther
  <1>3. session # Watched
    BY StreamAssumption
  <1>4. CASE Watched \in Range(lru')
    <2>1. UNCHANGED <<last, buffer, published, epoch>>
      BY <1>4 DEF PublishOther
    <2>2. PICK n \in DOMAIN lru' : lru'[n] = Watched
      BY <1>4 DEF Range
    <2>3. buffer # <<>>
      BY <1>1, <1>2, <1>3, <2>2 DEF TypeOK
    <2>4. TypeOK'
      BY <1>1, <1>2, <2>1, <2>2, <2>3 DEF TypeOK, PublishOther, stream
    <2>5. Channel'
      BY <1>1, <2>1 DEF Channel
    <2>6. Turns /\ ~Grows /\ UNCHANGED <<wire, client, pc, cursor>>
      <3>1. last \in Nat
        BY <1>1, Parts
      <3>2. QED
        BY <2>1, <3>1 DEF Turns, Grows, PublishOther, stream
    <2>7. QED
      BY <2>1, <2>4, <2>5, <2>6, BusKeeps
  <1>5. CASE Watched \notin Range(lru')
    <2>1. last' = 0 /\ buffer' = <<>> /\ UNCHANGED <<published, epoch>>
      BY <1>5 DEF PublishOther
    <2>2. \A n \in DOMAIN lru' : lru'[n] # Watched
      BY <1>5 DEF Range
    <2>3. TypeOK'
      BY <1>1, <1>2, <2>1, <2>2, StreamAssumption DEF TypeOK, PublishOther, stream
    <2>4. Channel'
      BY <1>1, <2>1, Parts DEF Channel
    <2>5. Turns /\ ~Grows /\ UNCHANGED <<wire, client, pc, cursor>>
      <3>1. last \in Nat
        BY <1>1, Parts
      <3>2. QED
        BY <2>1, <3>1 DEF Turns, Grows, Empties, PublishOther, stream
    <2>6. UNCHANGED last => UNCHANGED buffer
      BY <1>1, <2>1 DEF Channel
    <2>7. QED
      BY <2>3, <2>4, <2>5, <2>6, BusKeeps
  <1>6. QED
    BY <1>4, <1>5

\* Steps that leave the bus, the wire, the client and the cursor alone.
LEMMA QuietKeeps ==
  ASSUME IInv, TypeOK', UNCHANGED <<bus, wire, client, cursor>>,
         pc' # "none" => pc # "none", pc' = "start" => pc = "start"
  PROVE  IInv'
  <1>1. TypeOK /\ Channel /\ Delivered /\ Remembered /\ Sent /\ NextSent /\ GapIsReal /\ Cursor /\ LossIsShown
    BY DEF IInv
  <1>2. Channel'
    BY <1>1 DEF Channel, bus
  <1>3. Delivered' /\ Remembered' /\ LossIsShown'
    BY <1>1 DEF Delivered, Remembered, LossIsShown, Skipped, Numbered, Follows, Shifted, DroppedBefore, Newer, bus
  <1>4. Sent'
    BY <1>1 DEF Sent, Numbered, Follows, Shifted, DroppedBefore, IsEvent, bus
  <1>5. NextSent'
    BY <1>1 DEF NextSent, Arriving, Follows, DroppedBefore, Jumps, IsEvent, Newer, bus
  <1>6. GapIsReal'
    BY <1>1 DEF GapIsReal, Newer, bus
  <1>7. Cursor'
    BY <1>1 DEF Cursor, Behind, DroppedBefore, IsEvent, Newer, bus
  <1>8. QED
    BY <1>2, <1>3, <1>4, <1>5, <1>6, <1>7 DEF IInv

---------------------------------------------------------------------------
\* Steps of the stream

\* What a step leaves in place when it does not touch the bus.
LEMMA SameBus ==
  ASSUME IInv, UNCHANGED bus
  PROVE  /\ Channel' /\ Turns
         /\ \A e \in Event : Numbered(e) => Numbered(e)'
         /\ \A a, b \in Event : Follows(a, b) => Follows(a, b)'
  BY DEF IInv, Turns, Channel, Numbered, Follows, Shifted, DroppedBefore, bus

\* The same when it does not touch the client either.
LEMMA SameClient ==
  ASSUME IInv, UNCHANGED <<bus, client>>
  PROVE  Channel' /\ Delivered' /\ Remembered' /\ LossIsShown' /\ Newer' = Newer
  <1>1. TypeOK /\ Channel /\ Delivered /\ Remembered /\ LossIsShown
    BY DEF IInv
  <1>2. Channel' /\ Turns
    BY SameBus
  <1>3. QED
    BY <1>1, <1>2, DeliveredKept DEF Newer

\* The connection ends and nothing is on it: what is left is what the client has.
LEMMA NothingSent ==
  ASSUME IInv, UNCHANGED <<bus, client>>, TypeOK', wire' = <<>>, pc' = "none"
  PROVE  IInv'
  <1>1. Channel' /\ Delivered' /\ Remembered' /\ LossIsShown' /\ Newer' = Newer
    BY SameClient
  <1>2. Sent' /\ NextSent' /\ Cursor'
    BY DEF Sent, NextSent, Cursor
  <1>3. GapIsReal'
    BY <1>1 DEF IInv, GapIsReal, bus
  <1>4. QED
    BY <1>1, <1>2, <1>3 DEF IInv

LEMMA DropStep ==
  ASSUME IInv, Drop
  PROVE  IInv'
  <1>1. TypeOK'
    <2>1. <<>> \in Seq(Event \cup Control) /\ 0 \in 0 .. MaxEvents /\ faults + 1 \in 0 .. MaxFaults
      BY Parts DEF IInv, TypeOK, Drop
    <2>2. QED
      BY <2>1 DEF IInv, TypeOK, Drop, bus
  <1>2. QED
    BY <1>1, NothingSent DEF Drop

\* The channel is gone with the connection; the client remembers.
LEMMA RestartStep ==
  ASSUME IInv, Restart
  PROVE  IInv'
  <1>1. TypeOK /\ Channel /\ Delivered /\ Remembered /\ LossIsShown /\ GapIsReal
    BY DEF IInv
  <1>2. TypeOK'
    <2>1. /\ <<>> \in Seq(Event \cup Control) /\ <<>> \in Seq(Event) /\ <<>> \in Seq(Others \cup {Watched})
          /\ Len(<<>>) = 0 /\ 0 \in 0 .. MaxEvents /\ faults + 1 \in 0 .. MaxFaults
          /\ 0 <= MaxChannels /\ 0 <= BufferSize
      BY <1>1, Parts DEF TypeOK, Restart
    <2>2. (buffer' = <<>>) <=> (\A n \in DOMAIN lru' : lru'[n] # Watched)
      BY DEF Restart
    <2>3. announced' \in {"no", "owed", "yes", "lost"}
      BY <1>1 DEF TypeOK, Restart
    <2>4. QED
      BY <1>1, <2>1, <2>2, <2>3 DEF TypeOK, Restart
  <1>3. Turns /\ UNCHANGED client
    BY DEF Turns, Empties, Restart
  <1>4. Delivered' /\ Remembered' /\ LossIsShown'
    BY <1>1, <1>3, DeliveredKept
  <1>5. Channel'
    BY <1>1, Parts DEF Channel, Restart
  <1>6. Sent' /\ NextSent' /\ Cursor'
    BY DEF Sent, NextSent, Cursor, Restart
  <1>7. GapIsReal'
    BY <1>1 DEF GapIsReal, Restart
  <1>8. QED
    BY <1>2, <1>4, <1>5, <1>6, <1>7 DEF IInv

\* The stream resumes just behind the event the client received last.
LEMMA ConnectStep ==
  ASSUME IInv, Connect
  PROVE  IInv'
  <1>1. TypeOK /\ Remembered /\ GapIsReal
    BY DEF IInv
  <1>2. UNCHANGED <<bus, client>> /\ wire = <<>> /\ wire' = <<>> /\ cursor' = client.lastId
    BY DEF Connect
  <1>3. TypeOK'
    <2>1. client.lastId \in 0 .. MaxEvents
      BY <1>1 DEF TypeOK
    <2>2. QED
      BY <1>1, <2>1 DEF TypeOK, Connect, bus
  <1>4. Channel' /\ Delivered' /\ Remembered' /\ LossIsShown' /\ Newer' = Newer
    BY <1>2, SameClient
  <1>5. Sent' /\ NextSent'
    BY <1>2 DEF Sent, NextSent
  <1>6. GapIsReal'
    BY <1>1, <1>2, <1>4 DEF GapIsReal, bus
  <1>7. Cursor'
    <2>1. client.got # <<>> => cursor' = Newer.seq /\ Newer.seq \in Nat
      BY <1>1, <1>2, Parts, Frames DEF Remembered
    <2>2. client.got # <<>> => Behind(Newer)'
      BY <1>4, <2>1 DEF Behind
    <2>3. QED
      BY <1>2, <2>2 DEF Cursor
  <1>8. QED
    BY <1>3, <1>4, <1>5, <1>6, <1>7 DEF IInv

\* A stream that resumes before the buffer says so and goes on at its start.
LEMMA StartStep ==
  ASSUME IInv, Start
  PROVE  IInv'
  <1>1. TypeOK /\ Channel /\ Remembered /\ Cursor
    BY DEF IInv
  <1>2. UNCHANGED <<bus, client>> /\ wire = <<>> /\ cursor = client.lastId /\ pc = "start" /\ pc' = "poll"
    BY <1>1 DEF Start, Cursor
  <1>3. CASE UNCHANGED <<cursor, wire>>
    <2>1. TypeOK'
      BY <1>1, <1>2, <1>3 DEF TypeOK, Start, bus
    <2>2. QED
      BY <1>2, <1>3, <2>1, QuietKeeps
  <1>4. CASE /\ cursor # 0 /\ OldestSeq # 0 /\ cursor < OldestSeq - 1
             /\ cursor' = OldestSeq - 1 /\ wire' = Append(wire, [kind |-> "gap"])
    <2>1. /\ buffer # <<>> /\ OldestSeq = buffer[1].seq /\ last # 0
          /\ buffer[1].seq = last - Len(buffer) + 1 /\ buffer[1] \in Event /\ Len(buffer) \in Nat
      <3>1. buffer # <<>> /\ OldestSeq = buffer[1].seq
        BY <1>4 DEF OldestSeq
      <3>2. 1 \in DOMAIN buffer
        BY <1>1, <3>1, Parts, EmptySeq
      <3>3. QED
        BY <1>1, <3>1, <3>2, Parts DEF Channel
    <2>2. buffer[1].seq \in 1 .. MaxEvents /\ MaxEvents \in Nat /\ cursor \in Nat /\ last \in Nat /\ BufferSize \in Nat
      BY <1>1, <2>1, Frames, Parts
    <2>3. Len(buffer) = BufferSize /\ last = buffer[1].seq + BufferSize - 1
      <3>1. Len(buffer) <= BufferSize /\ (Len(buffer) < BufferSize => Len(buffer) = last)
        BY <1>1, <2>1 DEF TypeOK, Channel
      <3>2. PICK L \in Nat : L = Len(buffer)
        BY <2>1
      <3>3. cursor < buffer[1].seq - 1
        BY <1>4, <2>1
      <3>4. buffer[1].seq = last - L + 1 /\ L <= BufferSize /\ (L < BufferSize => L = last)
        BY <2>1, <3>1, <3>2
      <3>5. L = BufferSize
        <4>1. L # last
          BY ONLY <2>2, <3>2, <3>3, <3>4
        <4>2. QED
          BY ONLY <2>2, <3>2, <3>4, <4>1
      <3>6. last = buffer[1].seq + BufferSize - 1
        BY ONLY <2>2, <3>2, <3>4, <3>5
      <3>7. QED
        BY <3>2, <3>5, <3>6
    <2>4. wire' = << [kind |-> "gap"] >> /\ ~IsEvent([kind |-> "gap"]) /\ [kind |-> "gap"] \in Control
      BY <1>2, <1>4 DEF IsEvent, Control
    <2>5. client.got # <<>> /\ Newer.seq = cursor /\ Newer \in Event
      BY <1>1, <1>2, <1>4, Parts DEF Remembered
    <2>6. TypeOK'
      <3>1. cursor' \in 0 .. MaxEvents
        BY <1>4, <2>1, <2>2
      <3>2. wire' \in Seq(Event \cup Control)
        BY <2>4
      <3>3. QED
        BY <1>1, <1>2, <3>1, <3>2 DEF TypeOK, Start, bus
    <2>7. Channel' /\ Delivered' /\ Remembered' /\ LossIsShown' /\ Newer' = Newer
      BY <1>2, SameClient
    <2>8. DOMAIN wire' = {1} /\ Len(wire') = 1 /\ wire'[1] = [kind |-> "gap"] /\ wire' # <<>>
      BY <2>4
    <2>9. Sent' /\ NextSent'
      BY <2>4, <2>8 DEF Sent, NextSent, Arriving, IsEvent
    <2>10. GapIsReal'
      BY <1>2, <1>4, <2>1, <2>2, <2>5, <2>7 DEF GapIsReal, bus
    <2>11. Cursor'
      <3>1. Behind(Newer)'
        <4>1. cursor' >= Newer.seq /\ cursor' + 1 = buffer[1].seq
          BY <1>4, <2>1, <2>2, <2>5
        <4>2. last >= (cursor' + 1) + BufferSize - 1
          BY <2>2, <2>3, <4>1
        <4>3. QED
          BY <1>2, <2>7, <4>1, <4>2 DEF Behind, DroppedBefore, bus
      <3>2. QED
        BY <1>2, <2>4, <2>8, <3>1 DEF Cursor, IsEvent
    <2>12. QED
      BY <2>6, <2>7, <2>9, <2>10, <2>11 DEF IInv
  <1>5. QED
    BY <1>3, <1>4 DEF Start

\* A stream that has run its time says so last.
LEMMA TimeoutStep ==
  ASSUME IInv, Timeout
  PROVE  IInv'
  <1> DEFINE out == [kind |-> "timeout"]
             W == Len(wire)
  <1>1. TypeOK /\ Sent /\ NextSent /\ GapIsReal
    BY DEF IInv
  <1>2. UNCHANGED <<bus, client>> /\ wire' = Append(wire, out) /\ pc = "leave" /\ pc' = "none" /\ UNCHANGED cursor
    BY DEF Timeout
  <1>3. out \in Control /\ ~IsEvent(out) /\ out.kind = "timeout"
    BY DEF Control, IsEvent
  <1> HIDE DEF out
  <1>4. wire \in Seq(Event \cup Control) /\ W \in Nat /\ DOMAIN wire = 1 .. W
    BY <1>1, Parts
  <1>5. /\ wire' \in Seq(Event \cup Control) /\ Len(wire') = W + 1 /\ DOMAIN wire' = 1 .. W + 1
        /\ wire'[W + 1] = out /\ \A n \in 1 .. W : wire'[n] = wire[n]
    BY <1>2, <1>3, <1>4
  <1>6. \A n \in 1 .. W : wire[n].kind # "timeout"
    BY <1>1, <1>2, <1>4 DEF Sent
  <1>7. TypeOK'
    <2>1. faults + 1 \in 0 .. MaxFaults
      BY <1>1, Parts DEF TypeOK, Timeout
    <2>2. QED
      BY <1>1, <1>2, <1>5, <2>1 DEF TypeOK, Timeout, bus
  <1>8. Channel' /\ Delivered' /\ Remembered' /\ LossIsShown' /\ Newer' = Newer
    BY <1>2, SameClient
  <1>9. /\ \A e \in Event : Numbered(e) => Numbered(e)'
        /\ \A a, b \in Event : Follows(a, b) => Follows(a, b)'
    BY <1>2, SameBus
  <1>10. \A n \in 1 .. W : (IsEvent(wire[n]) <=> wire[n] \in Event)
    BY <1>1, <1>4, Parts
  <1> HIDE DEF W
  <1>11. Sent'
    <2>1. SUFFICES ASSUME NEW n \in 1 .. W + 1
                   PROVE  /\ IsEvent(wire'[n]) => Numbered(wire[n])'
                          /\ wire'[n].kind = "gap" => n = 1
                          /\ wire'[n].kind = "timeout" => n = W + 1
                          /\ n > 1 /\ IsEvent(wire'[n - 1]) /\ IsEvent(wire'[n]) => Follows(wire[n - 1], wire[n])'
      BY <1>2, <1>5 DEF Sent, IsEvent
    <2>2. CASE n = W + 1
      BY <1>3, <1>4, <1>5, <2>2 DEF IsEvent
    <2>3. CASE n \in 1 .. W
      <3> DEFINE b == wire[n]
                 a == wire[n - 1]
      <3>1. b' = b /\ (n > 1 => n - 1 \in 1 .. W /\ a' = a)
        BY <1>4, <1>5, <2>3
      <3>2. /\ IsEvent(b) => b \in Event /\ Numbered(b)
            /\ b.kind = "gap" => n = 1
            /\ n > 1 /\ IsEvent(a) /\ IsEvent(b) => a \in Event /\ Follows(a, b)
        BY <1>1, <1>4, <1>10, <2>3, <3>1 DEF Sent
      <3>3. IsEvent(b) => Numbered(b)'
        BY <1>9, <3>1, <3>2
      <3>4. n > 1 /\ IsEvent(a) /\ IsEvent(b) => Follows(a, b)'
        BY <1>9, <3>1, <3>2
      <3>5. b.kind # "timeout"
        BY <1>6, <2>3
      <3>6. QED
        BY <3>1, <3>2, <3>3, <3>4, <3>5
    <2>4. QED
      BY <1>4, <2>2, <2>3
  <1>12. NextSent'
    <2>1. SUFFICES ASSUME client.got # <<>>, NEW n \in 1 .. W + 1, Arriving(n)'
                   PROVE  /\ Follows(Newer, wire[n])'
                          /\ client.gapTold \/ n > 1 => Jumps(Newer, wire[n])'
      BY <1>2, <1>5 DEF NextSent
    <2>2. n \in 1 .. W
      BY <1>3, <1>4, <1>5, <2>1 DEF Arriving, IsEvent
    <2>3. n > 1 => n - 1 \in 1 .. W
      BY <1>4, <2>2
    <2>4. Arriving(n) /\ wire'[n] = wire[n]
      BY <1>5, <2>1, <2>2, <2>3 DEF Arriving, IsEvent
    <2>5. /\ wire[n] \in Event /\ Newer \in Event /\ Follows(Newer, wire[n])
          /\ client.gapTold \/ n > 1 => Jumps(Newer, wire[n])
      BY <1>1, <1>4, <1>10, <2>1, <2>2, <2>4, Parts DEF NextSent, Arriving
    <2> DEFINE b == wire[n]
    <2>6. b' = b
      BY <2>4
    <2>7. Follows(Newer, b)'
      BY <1>8, <1>9, <2>5, <2>6
    <2>8. QED
      BY <1>8, <2>5, <2>6, <2>7 DEF Jumps
  <1>13. GapIsReal'
    <2>1. wire' # <<>> /\ wire'[1].kind = "gap" => wire # <<>> /\ wire[1].kind = "gap"
      <3>1. CASE W = 0
        BY <1>3, <1>5, <3>1
      <3>2. CASE W # 0
        <4>1. 1 \in 1 .. W /\ wire # <<>>
          BY <1>4, <3>2 DEF W
        <4>2. QED
          BY <1>5, <4>1
      <3>3. QED
        BY <3>1, <3>2
    <2>2. QED
      BY <1>1, <1>2, <1>8, <2>1 DEF GapIsReal, bus
  <1>14. Cursor'
    BY <1>2 DEF Cursor
  <1>15. QED
    BY <1>7, <1>8, <1>11, <1>12, <1>13, <1>14 DEF IInv

\* The first event sent beyond the cursor follows one that the cursor has reached.
LEMMA FirstSentFollows ==
  ASSUME IInv, pc = "poll", NEW k \in 0 .. Len(buffer) - 1,
         \A n \in DOMAIN buffer : buffer[n].seq > cursor <=> n > k,
         NEW a \in Event, Numbered(a), Behind(a)
  PROVE  Follows(a, buffer[k + 1])
  <1>1. TypeOK /\ Channel
    BY DEF IInv
  <1>2. PICK L \in Nat : L = Len(buffer)
    BY <1>1, Parts
  <1>3. /\ last \in Nat /\ published \in Nat /\ epoch \in Nat /\ cursor \in Nat /\ BufferSize \in Nat \ {0}
        /\ k \in Nat
    BY <1>1, <1>2, Parts
  <1>4. k + 1 \in 1 .. L /\ k + 1 > k /\ (k > 0 => k \in 1 .. L)
    BY ONLY <1>2, <1>3, k \in 0 .. Len(buffer) - 1
  <1>5. DOMAIN buffer = 1 .. L /\ L <= BufferSize /\ L <= last /\ (last # 0 /\ L < BufferSize => L = last)
    BY <1>1, <1>2, ChannelAt
  <1>6. \A n \in 1 .. L : /\ buffer[n].seq = last - L + n /\ buffer[n].id = published - L + n
                           /\ buffer[n].epoch = epoch
    BY <1>1, <1>2, ChannelAt
  <1>7. PICK b : b = buffer[k + 1]
    OBVIOUS
  <1>8. b.seq = last - L + (k + 1) /\ b.id = published - L + (k + 1) /\ b.epoch = epoch
    BY ONLY <1>4, <1>6, <1>7
  <1>9. b.seq > cursor
    BY <1>4, <1>5, <1>7
  <1>10. last # 0 /\ (L < BufferSize => L = last)
    <2>1. last # 0
      BY ONLY <1>2, <1>3, <1>4, <1>5
    <2>2. QED
      BY ONLY <1>5, <2>1
  <1>11. a.seq \in Nat \ {0} /\ a.id \in Nat /\ a.epoch \in Nat /\ a.epoch <= epoch /\ a.seq <= cursor
    <2>1. a.seq \in 1 .. MaxEvents /\ a.id \in 1 .. MaxEvents /\ a.epoch \in 1 .. MaxEvents
      BY Frames
    <2>2. MaxEvents \in Nat
      BY StreamAssumption
    <2>3. a.epoch <= epoch
      BY DEF Numbered
    <2>4. cursor >= a.seq
      BY DEF Behind
    <2>5. QED
      BY ONLY <1>3, <2>1, <2>2, <2>3, <2>4
  <1>12. a.epoch = epoch => a.id - a.seq = published - last
    BY <1>10 DEF Numbered, Shifted
  <1>13. a.epoch < epoch => a.id <= published - last
    BY <1>10 DEF Numbered, Shifted
  <1>14. k > 0 => b.seq = cursor + 1
    <2>1. SUFFICES ASSUME k > 0 PROVE b.seq = cursor + 1
      OBVIOUS
    <2>2. k \in 1 .. L /\ k \in DOMAIN buffer /\ ~(k > k)
      BY ONLY <1>3, <1>4, <1>5, <2>1
    <2>3. buffer[k].seq = last - L + k
      BY ONLY <1>6, <2>2
    <2>4. ~(buffer[k].seq > cursor)
      BY <2>2
    <2>5. QED
      BY ONLY <1>2, <1>3, <1>8, <1>9, <2>3, <2>4
  <1>15. a.epoch = epoch /\ b.seq > a.seq + 1 => last >= b.seq + BufferSize - 1
    <2>1. SUFFICES ASSUME a.epoch = epoch, b.seq > a.seq + 1 PROVE last >= b.seq + BufferSize - 1
      OBVIOUS
    <2>2. CASE k > 0
      <3>1. cursor > a.seq
        BY ONLY <1>3, <1>11, <1>14, <2>1, <2>2
      <3>2. last >= (cursor + 1) + BufferSize - 1
        BY <1>10, <2>1, <3>1 DEF Behind, DroppedBefore
      <3>3. QED
        BY ONLY <1>3, <1>14, <2>2, <3>2
    <2>3. CASE k = 0
      <3>1. b.seq = last - L + 1 /\ b.seq > 2
        BY ONLY <1>2, <1>3, <1>8, <1>11, <2>1, <2>3
      <3>2. L = BufferSize
        BY ONLY <1>2, <1>3, <1>5, <1>10, <3>1
      <3>3. QED
        BY ONLY <1>2, <1>3, <3>1, <3>2
    <2>4. QED
      BY <1>3, <2>2, <2>3
  <1>16. Follows(a, b)
    <2>1. b.seq \in Int /\ b.id \in Int /\ b.id - b.seq = published - last
      BY ONLY <1>2, <1>3, <1>8
    <2>2. a.seq < b.seq /\ a.epoch <= b.epoch
      BY ONLY <1>3, <1>8, <1>9, <1>11, <2>1
    <2>3. a.epoch = b.epoch => b.id - a.id = b.seq - a.seq
      BY ONLY <1>3, <1>8, <1>11, <1>12, <2>1
    <2>4. a.epoch < b.epoch => b.id - b.seq >= a.id
      BY ONLY <1>3, <1>8, <1>11, <1>13, <2>1
    <2>5. a.epoch = b.epoch /\ b.seq > a.seq + 1 => DroppedBefore(b.seq)
      BY <1>8, <1>15 DEF DroppedBefore
    <2>6. QED
      BY <2>2, <2>3, <2>4, <2>5 DEF Follows
  <1>17. QED
    BY <1>16, <1>7

\* Everything beyond the cursor follows what was sent before it.
LEMMA PollStep ==
  ASSUME IInv, Poll
  PROVE  IInv'
  <1>1. TypeOK /\ Channel /\ Delivered /\ Sent /\ NextSent /\ GapIsReal /\ Cursor
    BY DEF IInv
  <1>2. UNCHANGED <<bus, client>> /\ wire' = wire \o Since(cursor) /\ pc = "poll" /\ pc' = "check"
    BY DEF Poll
  <1>3. PICK k \in 0 .. Len(buffer) :
             /\ Since(cursor) = [n \in 1 .. Len(buffer) - k |-> buffer[k + n]]
             /\ \A n \in DOMAIN buffer : buffer[n].seq > cursor <=> n > k
    BY <1>1, SinceIs
  <1>4. PICK L \in Nat : L = Len(buffer) /\ DOMAIN buffer = 1 .. L /\ k \in 0 .. L
    BY <1>1, Parts
  <1>5. /\ L <= last /\ (L > 0 => last # 0) /\ last \in Nat /\ published \in Nat /\ epoch \in Nat
         /\ \A n \in 1 .. L : /\ buffer[n] \in Event /\ buffer[n].epoch = epoch
                              /\ buffer[n].seq = last - L + n /\ buffer[n].id = published - L + n
    BY <1>1, <1>4, ChannelAt, Parts
  <1>6. PICK W \in Nat : W = Len(wire) /\ DOMAIN wire = 1 .. W
    BY <1>1, Parts
  <1> DEFINE more == Since(cursor)
  <1>7. \A n \in 1 .. L : buffer[n] \in Event
    BY <1>1, <1>4, Parts
  <1>8. more \in Seq(Event) /\ Len(more) = L - k /\ \A n \in 1 .. L - k : more[n] = buffer[k + n]
    <2>1. \A n \in 1 .. L - k : k + n \in 1 .. L
      BY <1>4
    <2>2. L - k \in Nat
      BY <1>4
    <2>3. more = [n \in 1 .. L - k |-> buffer[k + n]]
      BY <1>3, <1>4
    <2> HIDE DEF more
    <2>4. QED
      BY <1>7, <2>1, <2>2, <2>3
  <1> HIDE DEF more
  <1>9. finished' \in BOOLEAN
    BY <1>1 DEF TypeOK, Poll
  <1>10. CASE k = L
    <2>1. more = <<>>
      BY <1>8, <1>10
    <2>2. UNCHANGED <<cursor, wire>>
      BY <1>1, <1>2, <2>1, Parts DEF Poll, more
    <2>3. TypeOK'
      BY <1>1, <1>2, <1>9, <2>2 DEF TypeOK, Poll, bus
    <2>4. QED
      BY <1>2, <2>2, <2>3, QuietKeeps
  <1>11. CASE k < L
    <2>1. /\ wire' \in Seq(Event \cup Control) /\ Len(wire') = W + (L - k) /\ DOMAIN wire' = 1 .. W + (L - k)
          /\ \A n \in 1 .. W : wire'[n] = wire[n]
          /\ \A n \in 1 .. L - k : wire'[W + n] = buffer[k + n]
      <3>1. wire \in Seq(Event \cup Control) /\ more \in Seq(Event \cup Control) /\ wire' = wire \o more
        BY <1>1, <1>2, <1>8, Parts DEF more
      <3>2. /\ wire' \in Seq(Event \cup Control) /\ Len(wire') = Len(wire) + Len(more)
            /\ \A n \in 1 .. Len(wire) + Len(more) : wire'[n] = IF n <= Len(wire) THEN wire[n] ELSE more[n - Len(wire)]
        BY <3>1, ConcatProperties
      <3>3. \A n \in 1 .. W + (L - k) : wire'[n] = IF n <= W THEN wire[n] ELSE more[n - W]
        BY <1>6, <1>8, <3>2
      <3>4. \A n \in 1 .. L - k : wire'[W + n] = more[n]
        BY <1>4, <1>6, <3>3
      <3>5. \A n \in 1 .. W : wire'[n] = wire[n]
        BY <1>4, <1>6, <3>3
      <3>6. Len(wire') = W + (L - k) /\ DOMAIN wire' = 1 .. W + (L - k)
        BY <1>6, <1>8, <3>2
      <3>7. \A n \in 1 .. L - k : wire'[W + n] = buffer[k + n]
        BY <1>8, <3>4
      <3>8. QED
        BY <3>2, <3>5, <3>6, <3>7
    <2>2. cursor' = buffer[L].seq
      <3>1. more # <<>> /\ Last(more) = buffer[L]
        BY <1>4, <1>8, <1>11 DEF Last
      <3>2. QED
        BY <3>1 DEF Poll, more
    <2>3. TypeOK'
      <3>1. cursor' \in 0 .. MaxEvents
        BY <1>4, <1>7, <1>11, <2>2, Frames
      <3>2. QED
        BY <1>1, <1>2, <1>9, <2>1, <3>1 DEF TypeOK, Poll, bus
    <2>4. Channel' /\ Delivered' /\ Remembered' /\ LossIsShown' /\ Newer' = Newer
      BY <1>2, SameClient
    <2>5. /\ \A e \in Event : Numbered(e) => Numbered(e)'
          /\ \A a, b \in Event : Follows(a, b) => Follows(a, b)'
      BY <1>2, SameBus
    <2>6. \A n \in 1 .. L : Numbered(buffer[n]) /\ IsEvent(buffer[n]) /\ (n > 1 => Follows(buffer[n - 1], buffer[n]))
      <3>1. SUFFICES ASSUME NEW n \in 1 .. L
                     PROVE  Numbered(buffer[n]) /\ IsEvent(buffer[n]) /\ (n > 1 => Follows(buffer[n - 1], buffer[n]))
        OBVIOUS
      <3>2. Numbered(buffer[n])
        BY <1>4, <1>5 DEF Numbered, Shifted
      <3>3. n > 1 => Follows(buffer[n - 1], buffer[n])
        <4>1. SUFFICES ASSUME n > 1 PROVE Follows(buffer[n - 1], buffer[n])
          OBVIOUS
        <4>2. n - 1 \in 1 .. L
          BY <1>4, <4>1
        <4>3. QED
          <5>1. /\ buffer[n].epoch = epoch /\ buffer[n - 1].epoch = epoch
                /\ buffer[n].seq = last - L + n /\ buffer[n].id = published - L + n
                /\ buffer[n - 1].seq = last - L + (n - 1) /\ buffer[n - 1].id = published - L + (n - 1)
            BY <1>5, <4>2
          <5>2. /\ buffer[n - 1].seq < buffer[n].seq /\ ~(buffer[n].seq > buffer[n - 1].seq + 1)
                /\ buffer[n].id - buffer[n - 1].id = buffer[n].seq - buffer[n - 1].seq
            BY <1>4, <1>5, <5>1
          <5>3. epoch <= epoch /\ ~(epoch < epoch)
            BY <1>5
          <5>4. QED
            BY <5>1, <5>2, <5>3 DEF Follows
      <3>4. QED
        BY <1>7, <3>2, <3>3, Frames
    <2>7. W > 0 /\ IsEvent(wire[W]) => wire[W] \in Event /\ Follows(wire[W], buffer[k + 1])
      <3>1. SUFFICES ASSUME W > 0, IsEvent(wire[W]) PROVE wire[W] \in Event /\ Follows(wire[W], buffer[k + 1])
        OBVIOUS
      <3>2. W \in 1 .. W /\ wire # <<>>
        BY <1>6, <3>1
      <3>3. wire[W] \in Event /\ Numbered(wire[W]) /\ Behind(wire[W])
        BY <1>1, <1>2, <1>6, <3>1, <3>2, Parts DEF Sent, Cursor
      <3>4. k \in 0 .. Len(buffer) - 1
        BY <1>4, <1>11
      <3>5. QED
        BY <1>2, <1>3, <3>3, <3>4, FirstSentFollows
    <2>8. client.got # <<>> /\ (W = 0 \/ ~IsEvent(wire[W])) => Newer \in Event /\ Follows(Newer, buffer[k + 1])
      <3>1. SUFFICES ASSUME client.got # <<>>, W = 0 \/ ~IsEvent(wire[W])
                     PROVE  Newer \in Event /\ Follows(Newer, buffer[k + 1])
        OBVIOUS
      <3>2. Newer \in Event /\ Numbered(Newer)
        BY <1>1, <3>1, Parts DEF Delivered, Newer
      <3>3. W = 0 => wire = <<>>
        BY <1>1, <1>6, Parts
      <3>4. Behind(Newer)
        BY <1>1, <1>2, <1>6, <3>1, <3>3 DEF Cursor
      <3>5. QED
        BY <1>2, <1>3, <1>4, <1>11, <3>2, <3>4, FirstSentFollows
    <2>9. \A n \in 1 .. W : /\ wire[n].kind # "timeout" /\ (wire[n].kind = "gap" => n = 1)
                            /\ IsEvent(wire[n]) <=> wire[n] \in Event
                            /\ ~IsEvent(wire[n]) => wire[n].kind = "gap"
      BY <1>1, <1>2, <1>6, Parts, Frames DEF Sent
    <2>10. Sent'
      <3>1. SUFFICES ASSUME NEW n \in 1 .. W + (L - k)
                     PROVE  /\ IsEvent(wire'[n]) => Numbered(wire[n])'
                            /\ wire'[n].kind = "gap" => n = 1
                            /\ wire'[n].kind # "timeout"
                            /\ n > 1 /\ IsEvent(wire'[n - 1]) /\ IsEvent(wire'[n]) => Follows(wire[n - 1], wire[n])'
        BY <2>1 DEF Sent, IsEvent
      <3>2. CASE n \in 1 .. W
        <4> DEFINE b == wire[n]
                   a == wire[n - 1]
        <4>1. b' = b /\ (n > 1 => n - 1 \in 1 .. W /\ a' = a)
          <5>1. n > 1 => n - 1 \in 1 .. W
            BY <1>6, <3>2
          <5>2. b' = b /\ (n > 1 => a' = a)
            BY <2>1, <3>2, <5>1
          <5>3. QED
            BY <5>1, <5>2
        <4>2. /\ IsEvent(b) => b \in Event /\ Numbered(b)
              /\ b.kind = "gap" => n = 1
              /\ n > 1 /\ IsEvent(a) /\ IsEvent(b) => a \in Event /\ Follows(a, b)
          BY <1>1, <1>6, <2>9, <3>2, <4>1 DEF Sent
        <4>3. IsEvent(b) => Numbered(b)'
          BY <2>5, <4>1, <4>2
        <4>4. n > 1 /\ IsEvent(a) /\ IsEvent(b) => Follows(a, b)'
          BY <2>5, <4>1, <4>2
        <4>5. QED
          BY <2>9, <3>2, <4>1, <4>2, <4>3, <4>4
      <3>3. CASE n \notin 1 .. W
        <4>1. PICK m \in 1 .. L - k : n = W + m
          <5>1. n - W \in 1 .. L - k /\ n = W + (n - W)
            BY <1>4, <1>6, <3>3
          <5>2. QED
            BY <5>1
        <4>2. k + m \in 1 .. L /\ wire'[n] = buffer[k + m]
          BY <1>4, <2>1, <4>1
        <4> DEFINE b == wire[n]
                   a == wire[n - 1]
        <4>3. b' \in Event /\ b' = buffer[k + m] /\ Numbered(b')
          BY <1>7, <2>6, <4>2
        <4>4. Numbered(b)'
          BY <1>2, <4>3 DEF Numbered, Shifted, bus
        <4>5. n > 1 /\ IsEvent(a') => a' \in Event /\ Follows(a', b')
          <5>1. CASE m = 1
            <6>1. n - 1 = W /\ (n > 1 => a' = wire[W])
              BY <1>6, <2>1, <4>1, <5>1
            <6>2. QED
              BY <1>6, <2>7, <4>1, <4>2, <5>1, <6>1
          <5>2. CASE m # 1
            <6>1. m - 1 \in 1 .. L - k /\ n - 1 = W + (m - 1) /\ k + (m - 1) = (k + m) - 1 /\ (k + m) - 1 \in 1 .. L
                  /\ k + m > 1
              BY <1>4, <1>6, <4>1, <5>2
            <6>2. a' = buffer[(k + m) - 1]
              BY <2>1, <6>1
            <6>3. QED
              BY <1>7, <2>6, <4>2, <4>3, <6>1, <6>2
          <5>3. QED
            BY <5>1, <5>2
        <4>6. n > 1 /\ IsEvent(a') => Follows(a, b)'
          BY <1>2, <4>5 DEF Follows, DroppedBefore, bus
        <4>7. b'.kind \notin {"gap", "timeout"}
          BY <4>3 DEF Event
        <4>8. QED
          BY <4>4, <4>6, <4>7
      <3>4. QED
        BY <3>2, <3>3
    <2>11. NextSent'
      <3>1. SUFFICES ASSUME client.got # <<>>, NEW n \in 1 .. W + (L - k), Arriving(n)'
                     PROVE  /\ Follows(Newer, wire[n])'
                            /\ client.gapTold \/ n > 1 => Jumps(Newer, wire[n])'
        BY <1>2, <2>1 DEF NextSent
      <3> DEFINE b == wire[n]
      <3>2. Newer \in Event
        BY <1>1, <3>1, Parts
      <3>3. CASE n \in 1 .. W
        <4>1. n > 1 => n - 1 \in 1 .. W
          BY <1>6, <3>3
        <4>2. Arriving(n) /\ b' = b
          BY <2>1, <3>1, <3>3, <4>1 DEF Arriving, IsEvent
        <4>3. /\ b \in Event /\ Follows(Newer, b)
              /\ client.gapTold \/ n > 1 => Jumps(Newer, b)
          BY <1>1, <1>6, <2>9, <3>1, <3>3, <4>2 DEF NextSent, Arriving
        <4>4. Follows(Newer, b)'
          BY <2>4, <2>5, <3>2, <4>2, <4>3
        <4>5. QED
          BY <2>4, <4>2, <4>3, <4>4 DEF Jumps
      <3>4. CASE n \notin 1 .. W
        <4>1. PICK m \in 1 .. L - k : n = W + m
          <5>1. n - W \in 1 .. L - k /\ n = W + (n - W)
            BY <1>4, <1>6, <3>4
          <5>2. QED
            BY <5>1
        <4>2. m = 1
          <5>1. SUFFICES ASSUME m # 1 PROVE FALSE
            OBVIOUS
          <5>2. m - 1 \in 1 .. L - k /\ n - 1 = W + (m - 1) /\ k + (m - 1) \in 1 .. L /\ n # 1
            BY <1>4, <1>6, <4>1, <5>1
          <5>3. wire'[n - 1] = buffer[k + (m - 1)]
            BY <2>1, <5>2
          <5>4. IsEvent(wire'[n - 1])
            BY <2>6, <5>2, <5>3
          <5>5. QED
            BY <3>1, <5>2, <5>4 DEF Arriving, IsEvent
        <4>3. b' = buffer[k + 1] /\ k + 1 \in 1 .. L /\ n - 1 = W
          BY <1>4, <1>6, <2>1, <4>1, <4>2
        <4>4. W = 0 \/ ~IsEvent(wire[W])
          <5>1. W # 0 => W \in 1 .. W /\ wire'[n - 1] = wire[W] /\ n # 1
            BY <1>6, <2>1, <4>1, <4>2, <4>3
          <5>2. QED
            BY <3>1, <5>1 DEF Arriving, IsEvent
        <4>5. Follows(Newer, b')
          BY <2>8, <3>1, <4>3, <4>4
        <4>6. Follows(Newer, b)'
          BY <1>2, <2>4, <4>5 DEF Follows, DroppedBefore, bus
        <4>7. client.gapTold \/ n > 1 => Jumps(Newer, b')
          <5>1. SUFFICES ASSUME client.gapTold \/ n > 1, Newer.epoch = buffer[k + 1].epoch
                         PROVE  buffer[k + 1].seq > Newer.seq + 1
            BY <4>3 DEF Jumps
          <5>2. client.gapTold \/ (wire # <<>> /\ wire[1].kind = "gap")
            <6>1. SUFFICES ASSUME W # 0 PROVE wire # <<>> /\ wire[1].kind = "gap"
              BY <1>6, <4>3, <5>1
            <6>2. W \in 1 .. W /\ wire # <<>>
              BY <1>6, <6>1
            <6>3. wire[W].kind = "gap" /\ W = 1
              BY <2>9, <4>4, <6>1, <6>2
            <6>4. QED
              BY <6>2, <6>3
          <5>3. 1 \in 1 .. L /\ k \in Nat
            BY <1>4, <4>3
          <5>4. last # 0 /\ buffer[k + 1].epoch = epoch /\ buffer[k + 1].seq = last - L + (k + 1)
                /\ buffer[1].seq = last - L + 1
            BY <1>4, <1>5, <4>3, <5>3
          <5>5. buffer[1].seq > Newer.seq + 1
            BY <1>1, <5>1, <5>2, <5>4 DEF GapIsReal
          <5>6. Newer.seq \in Nat
            BY <3>2, <1>1, Parts, Frames
          <5>7. QED
            BY <1>4, <1>5, <5>3, <5>4, <5>5, <5>6
        <4>8. QED
          BY <2>4, <4>6, <4>7 DEF Jumps
      <3>5. QED
        BY <3>3, <3>4
    <2>12. GapIsReal'
      <3>1. wire' # <<>> /\ wire'[1].kind = "gap" => wire # <<>> /\ wire[1].kind = "gap"
        <4>1. CASE W = 0
          <5>1. 1 \in 1 .. L - k /\ wire'[1] = buffer[k + 1] /\ k + 1 \in 1 .. L
            BY <1>4, <1>6, <1>11, <2>1, <4>1
          <5>2. buffer[k + 1].kind # "gap"
            BY <1>7, <5>1 DEF Event
          <5>3. QED
            BY <5>1, <5>2
        <4>2. CASE W # 0
          <5>1. 1 \in 1 .. W /\ wire # <<>>
            BY <1>6, <4>2
          <5>2. QED
            BY <2>1, <5>1
        <4>3. QED
          BY <4>1, <4>2
      <3>2. QED
        BY <1>1, <1>2, <2>4, <3>1 DEF GapIsReal, bus
    <2>13. Cursor'
      <3>1. Len(wire') = W + (L - k) /\ wire'[W + (L - k)] = buffer[L] /\ wire' # <<>>
        <4>1. L - k \in 1 .. L - k /\ k + (L - k) = L /\ W + (L - k) # 0
          BY <1>4, <1>6, <1>11
        <4>2. wire'[W + (L - k)] = buffer[k + (L - k)]
          BY <2>1, <4>1
        <4>3. QED
          BY <2>1, <4>1, <4>2
      <3>2. IsEvent(buffer[L]) /\ buffer[L].seq \in Nat
        <4>1. L \in 1 .. L
          BY <1>4, <1>11
        <4>2. QED
          BY <1>1, <1>7, <4>1, Parts, Frames
      <3> DEFINE b == wire[Len(wire)]
      <3>3. b' = buffer[L] /\ Behind(b)'
        BY <2>2, <3>1, <3>2 DEF Behind
      <3>4. QED
        BY <1>2, <3>1, <3>2, <3>3 DEF Cursor, IsEvent
    <2>14. QED
      BY <2>3, <2>4, <2>10, <2>11, <2>12, <2>13 DEF IInv
  <1>12. QED
    BY <1>4, <1>10, <1>11

---------------------------------------------------------------------------
\* Steps of the client

\* Numbers of two events that follow one another tell what is between them.
LEMMA JumpSkips ==
  ASSUME TypeOK, NEW a \in Event, NEW b \in Event, Follows(a, b)
  PROVE  a.id < b.id /\ (Jumps(a, b) => b.id > a.id + 1)
  <1>1. a.seq \in Nat \ {0} /\ b.seq \in Nat \ {0} /\ a.id \in Nat /\ b.id \in Nat /\ a.epoch \in Nat /\ b.epoch \in Nat
    <2>1. /\ a.seq \in 1 .. MaxEvents /\ b.seq \in 1 .. MaxEvents /\ a.id \in 1 .. MaxEvents
          /\ b.id \in 1 .. MaxEvents /\ a.epoch \in 1 .. MaxEvents /\ b.epoch \in 1 .. MaxEvents
      BY Frames
    <2>2. MaxEvents \in Nat
      BY Parts
    <2>3. QED
      BY <2>1, <2>2
  <1>2. CASE a.epoch = b.epoch
    BY <1>1, <1>2 DEF Follows, Jumps
  <1>3. CASE a.epoch < b.epoch
    BY <1>1, <1>3 DEF Follows
  <1>4. QED
    BY <1>1, <1>2, <1>3 DEF Follows

\* A frame leaves the wire: the others move up.
LEMMA HeadLeaves ==
  ASSUME TypeOK, wire # <<>>
  PROVE  \E W \in Nat \ {0} :
             /\ DOMAIN wire = 1 .. W /\ Len(wire) = W /\ Head(wire) = wire[1] /\ 1 \in DOMAIN wire
             /\ Tail(wire) \in Seq(Event \cup Control) /\ DOMAIN Tail(wire) = 1 .. W - 1 /\ Len(Tail(wire)) = W - 1
             /\ \A n \in 1 .. W - 1 : Tail(wire)[n] = wire[n + 1]
  <1>1. wire \in Seq(Event \cup Control) /\ Len(wire) \in Nat \ {0} /\ DOMAIN wire = 1 .. Len(wire)
    BY Parts, EmptySeq
  <1>2. /\ Tail(wire) \in Seq(Event \cup Control) /\ Len(Tail(wire)) = Len(wire) - 1
        /\ \A n \in 1 .. Len(Tail(wire)) : Tail(wire)[n] = wire[n + 1]
    BY <1>1, HeadTailProperties
  <1>3. Head(wire) = wire[1] /\ 1 \in DOMAIN wire
    BY <1>1
  <1>4. DOMAIN Tail(wire) = 1 .. Len(wire) - 1
    BY <1>2
  <1>5. \A n \in 1 .. Len(wire) - 1 : Tail(wire)[n] = wire[n + 1]
    BY <1>2
  <1>6. QED
    BY <1>1, <1>2, <1>3, <1>4, <1>5

\* What is left on the wire when its first frame is read keeps its order.
LEMMA TailSent ==
  ASSUME IInv, wire # <<>>, UNCHANGED bus, wire' = Tail(wire), pc' = pc
  PROVE  Sent'
  <1>1. TypeOK /\ Sent
    BY DEF IInv
  <1>2. PICK W \in Nat \ {0} :
             /\ DOMAIN wire = 1 .. W /\ Len(wire) = W
             /\ DOMAIN wire' = 1 .. W - 1 /\ Len(wire') = W - 1
             /\ \A n \in 1 .. W - 1 : wire'[n] = wire[n + 1]
    BY <1>1, HeadLeaves
  <1>3. /\ \A e \in Event : Numbered(e) => Numbered(e)'
        /\ \A a, b \in Event : Follows(a, b) => Follows(a, b)'
    BY SameBus
  <1>4. SUFFICES ASSUME NEW n \in 1 .. W - 1
                 PROVE  /\ IsEvent(wire'[n]) => Numbered(wire[n])'
                        /\ wire'[n].kind = "gap" => n = 1
                        /\ wire'[n].kind = "timeout" => n = W - 1 /\ pc = "none"
                        /\ n > 1 /\ IsEvent(wire'[n - 1]) /\ IsEvent(wire'[n]) => Follows(wire[n - 1], wire[n])'
    BY <1>2 DEF Sent, IsEvent
  <1> DEFINE b == wire[n]
             a == wire[n - 1]
  <1>5. n + 1 \in 1 .. W /\ b' = wire[n + 1] /\ (n > 1 => n \in 1 .. W /\ a' = wire[n])
    BY <1>2
  <1>6. /\ IsEvent(wire[n + 1]) => wire[n + 1] \in Event /\ Numbered(wire[n + 1])
        /\ wire[n + 1].kind # "gap"
        /\ wire[n + 1].kind = "timeout" => n + 1 = W /\ pc = "none"
        /\ n > 1 /\ IsEvent(wire[n]) /\ IsEvent(wire[n + 1]) => wire[n] \in Event /\ Follows(wire[n], wire[n + 1])
    <2>1. /\ IsEvent(wire[n + 1]) => Numbered(wire[n + 1])
          /\ wire[n + 1].kind = "gap" => n + 1 = 1
          /\ wire[n + 1].kind = "timeout" => n + 1 = W /\ pc = "none"
          /\ n + 1 > 1 /\ IsEvent(wire[(n + 1) - 1]) /\ IsEvent(wire[n + 1]) => Follows(wire[(n + 1) - 1], wire[n + 1])
      BY <1>1, <1>2, <1>5 DEF Sent
    <2>2. (n + 1) - 1 = n /\ n + 1 > 1 /\ n + 1 # 1
      BY <1>2
    <2>3. IsEvent(wire[n + 1]) => wire[n + 1] \in Event
      BY <1>1, <1>2, <1>5, Parts
    <2>4. n > 1 /\ IsEvent(wire[n]) => wire[n] \in Event
      BY <1>1, <1>2, <1>5, Parts
    <2>5. QED
      BY <2>1, <2>2, <2>3, <2>4
  <1>7. IsEvent(b') => Numbered(b)'
    BY <1>3, <1>5, <1>6
  <1>8. n > 1 /\ IsEvent(a') /\ IsEvent(b') => Follows(a, b)'
    BY <1>3, <1>5, <1>6
  <1>9. b'.kind # "gap" /\ (b'.kind = "timeout" => n = W - 1 /\ pc = "none")
    BY <1>2, <1>5, <1>6
  <1>10. QED
    BY <1>7, <1>8, <1>9

\* Behind the first frame there is no gap, and a timeout only at the end.
LEMMA LaterFrames ==
  ASSUME Sent, NEW W \in Nat, DOMAIN wire = 1 .. W, Len(wire) = W, NEW n \in 2 .. W
  PROVE  wire[n].kind # "gap" /\ (wire[n].kind = "timeout" => n = W /\ pc = "none")
  <1>1. n \in DOMAIN wire /\ n # 1
    OBVIOUS
  <1>2. QED
    BY <1>1 DEF Sent

\* A control frame is read: what comes next is behind whatever it announced.
LEMMA ReceiveControlStep ==
  ASSUME IInv, ReceiveControl
  PROVE  IInv'
  <1>1. TypeOK /\ Channel /\ Delivered /\ Remembered /\ Sent /\ NextSent /\ GapIsReal /\ Cursor /\ LossIsShown
    BY DEF IInv
  <1>2. /\ wire # <<>> /\ Head(wire).kind \in {"gap", "timeout"} /\ wire' = Tail(wire)
        /\ UNCHANGED <<bus, stream, status, announced, faults>>
        /\ client' = [client EXCEPT !.lastSeq = NaN, !.gapTold = client.gapTold \/ Head(wire).kind = "gap"]
    BY DEF ReceiveControl
  <1>3. UNCHANGED <<pc, cursor, finished>>
    BY <1>2 DEF stream
  <1>4. PICK W \in Nat \ {0} :
             /\ DOMAIN wire = 1 .. W /\ Len(wire) = W /\ Head(wire) = wire[1] /\ 1 \in DOMAIN wire
             /\ wire' \in Seq(Event \cup Control) /\ DOMAIN wire' = 1 .. W - 1 /\ Len(wire') = W - 1
             /\ \A n \in 1 .. W - 1 : wire'[n] = wire[n + 1]
    BY <1>1, <1>2, HeadLeaves
  <1>5. ~IsEvent(wire[1])
    BY <1>2, <1>4 DEF IsEvent
  <1>6. client.gapTold \in BOOLEAN
    BY <1>1 DEF TypeOK
  <1>7. /\ client'.open = client.open /\ client'.lastId = client.lastId /\ client'.got = client.got
        /\ client'.lastSeq = NaN /\ client'.gapTold = (client.gapTold \/ wire[1].kind = "gap")
    BY <1>1, <1>2, <1>4 DEF TypeOK
  <1>8. TypeOK'
    <2>1. client' \in [open : BOOLEAN, lastId : 0 .. MaxEvents, lastSeq : 0 .. MaxEvents \cup {NaN},
                       gapTold : BOOLEAN, got : Seq(Received)]
      BY <1>1, <1>2, <1>6 DEF TypeOK
    <2>2. QED
      BY <1>1, <1>2, <1>3, <1>4, <2>1 DEF TypeOK, bus
  <1>9. /\ Channel' /\ Turns
        /\ \A e \in Event : Numbered(e) => Numbered(e)'
        /\ \A a, b \in Event : Follows(a, b) => Follows(a, b)'
    BY <1>2, SameBus
  <1>10. Newer' = Newer
    BY <1>7 DEF Newer
  <1>11. Delivered' /\ Remembered' /\ LossIsShown'
    <2>1. Delivered'
      BY <1>1, <1>2, <1>7 DEF Delivered, Numbered, Follows, Shifted, DroppedBefore, bus
    <2>2. QED
      BY <1>1, <1>7, <1>10, <2>1 DEF Remembered, LossIsShown, Skipped
  <1>12. Sent'
    BY <1>2, <1>3, TailSent
  <1>13. \A n \in 2 .. W : wire[n].kind # "gap" /\ (wire[n].kind = "timeout" => n = W /\ pc = "none")
    BY <1>1, <1>4, LaterFrames
  <1>14. \A n \in 1 .. W : wire[n] \in Event \cup Control /\ (IsEvent(wire[n]) <=> wire[n] \in Event)
    BY <1>1, <1>4, Parts
  <1>15. NextSent'
    <2>1. SUFFICES ASSUME client.got # <<>>, NEW n \in 1 .. W - 1, Arriving(n)'
                   PROVE  Follows(Newer, wire[n])' /\ Jumps(Newer, wire[n])'
      BY <1>4, <1>7 DEF NextSent
    <2>2. n = 1
      <3>1. SUFFICES ASSUME n # 1 PROVE FALSE
        OBVIOUS
      <3>2. n - 1 \in 1 .. W - 1 /\ (n - 1) + 1 = n /\ n \in 2 .. W /\ n # W
        BY <1>4, <3>1
      <3>3. wire'[n - 1] = wire[n]
        BY <1>4, <3>2
      <3>4. ~IsEvent(wire[n])
        BY <2>1, <3>1, <3>3 DEF Arriving, IsEvent
      <3>5. wire[n].kind \in {"gap", "timeout"}
        BY <1>14, <3>2, <3>4, Frames
      <3>6. QED
        BY <1>13, <3>2, <3>5
    <2>3. 2 \in 1 .. W /\ wire'[1] = wire[2] /\ 2 - 1 = 1
      BY <1>4, <2>2
    <2>4. Arriving(2)
      BY <1>5, <2>1, <2>2, <2>3 DEF Arriving, IsEvent
    <2>5. wire[2] \in Event /\ Newer \in Event /\ Follows(Newer, wire[2]) /\ Jumps(Newer, wire[2])
      <3>1. wire[2] \in Event /\ Newer \in Event
        BY <1>1, <1>14, <2>1, <2>3, <2>4, Parts DEF Arriving
      <3>2. 2 \in DOMAIN wire /\ 2 > 1
        BY <1>4, <2>3
      <3>3. QED
        BY <1>1, <2>1, <2>4, <3>1, <3>2 DEF NextSent
    <2> DEFINE b == wire[n]
    <2>6. b' = wire[2]
      BY <2>2, <2>3
    <2>7. Follows(Newer, b)'
      BY <1>9, <1>10, <2>5, <2>6
    <2>8. Jumps(Newer, b)'
      BY <1>10, <2>5, <2>6 DEF Jumps
    <2>9. QED
      BY <2>7, <2>8
  <1>16. GapIsReal'
    <2>1. wire' # <<>> => wire'[1].kind # "gap"
      <3>1. SUFFICES ASSUME wire' # <<>> PROVE wire'[1].kind # "gap"
        OBVIOUS
      <3>2. 1 \in 1 .. W - 1 /\ 1 + 1 \in 2 .. W
        BY <1>4, <3>1
      <3>3. QED
        BY <1>4, <1>13, <3>2
    <2>2. QED
      BY <1>1, <1>2, <1>7, <1>10, <2>1 DEF GapIsReal, bus
  <1>17. Cursor'
    <2>1. SUFFICES ASSUME pc # "none"
                   PROVE  /\ pc # "start"
                          /\ wire' # <<>> /\ IsEvent(wire'[Len(wire')]) => Behind(wire[Len(wire)])'
                          /\ client.got # <<>> /\ (wire' = <<>> \/ ~IsEvent(wire'[Len(wire')])) => Behind(Newer)'
      BY <1>3, <1>7 DEF Cursor, IsEvent
    <2>2. pc # "start" /\ (IsEvent(wire[W]) => Behind(wire[W]))
          /\ (client.got # <<>> /\ ~IsEvent(wire[W]) => Behind(Newer))
      BY <1>1, <1>2, <1>4, <2>1 DEF Cursor
    <2>3. wire' # <<>> => wire'[Len(wire')] = wire[W]
      <3>1. SUFFICES ASSUME wire' # <<>> PROVE wire'[Len(wire')] = wire[W]
        OBVIOUS
      <3>2. W - 1 \in 1 .. W - 1 /\ (W - 1) + 1 = W
        BY <1>4, <3>1
      <3>3. QED
        BY <1>4, <3>2
    <2>4. wire' = <<>> => W = 1
      BY <1>4
    <2> DEFINE b == wire[Len(wire)]
    <2>5. wire' # <<>> /\ IsEvent(b') => Behind(b)'
      BY <1>2, <1>3, <2>2, <2>3 DEF Behind, DroppedBefore, bus
    <2>6. client.got # <<>> /\ (wire' = <<>> \/ ~IsEvent(b')) => Behind(Newer)'
      BY <1>2, <1>3, <1>5, <1>10, <2>2, <2>3, <2>4 DEF Behind, DroppedBefore, bus
    <2>7. QED
      BY <2>2, <2>5, <2>6
  <1>18. QED
    BY <1>8, <1>9, <1>11, <1>12, <1>15, <1>16, <1>17 DEF IInv

\* An event is read: it becomes the newest, and shows a loss where there is one.
LEMMA ReceiveStep ==
  ASSUME IInv, Receive
  PROVE  IInv'
  <1>1. TypeOK /\ Channel /\ Delivered /\ Remembered /\ Sent /\ NextSent /\ GapIsReal /\ Cursor /\ LossIsShown
    BY DEF IInv
  <1>2. wire # <<>> /\ Head(wire).kind \in {"event", "terminal"} /\ UNCHANGED <<bus, status, announced, faults>>
    BY DEF Receive
  <1>3. PICK W \in Nat \ {0} :
             /\ DOMAIN wire = 1 .. W /\ Len(wire) = W /\ Head(wire) = wire[1] /\ 1 \in DOMAIN wire
             /\ Tail(wire) \in Seq(Event \cup Control) /\ DOMAIN Tail(wire) = 1 .. W - 1 /\ Len(Tail(wire)) = W - 1
             /\ \A n \in 1 .. W - 1 : Tail(wire)[n] = wire[n + 1]
    BY <1>1, <1>2, HeadLeaves
  <1>4. PICK e \in Event : e = wire[1] /\ IsEvent(e) /\ Numbered(e)
    BY <1>1, <1>2, <1>3, Parts DEF Sent, IsEvent
  <1>5. /\ e.seq \in Nat \ {0} /\ e.seq \in 1 .. MaxEvents /\ MaxEvents \in Nat
    BY <1>1, Frames, Parts
  <1> DEFINE r == [event |-> e, told |-> client.gapTold \/ Loss(e.seq), blind |-> client.lastSeq = NaN]
  <1>6. /\ client'.open = (e.kind # "terminal") /\ client'.lastId = e.seq /\ client'.gapTold = FALSE
        /\ client'.lastSeq = IF client.lastSeq = NaN THEN NaN ELSE Max({client.lastSeq, e.seq})
        /\ client'.got = Append(client.got, r)
        /\ client' = [open |-> client'.open, lastId |-> client'.lastId, lastSeq |-> client'.lastSeq,
                      gapTold |-> client'.gapTold, got |-> client'.got]
    BY <1>3, <1>4 DEF Receive
  <1>7. \/ wire' = <<>> /\ pc' = "none" /\ cursor' = 0 /\ finished' = FALSE
        \/ wire' = Tail(wire) /\ UNCHANGED <<pc, cursor, finished>>
    BY <1>3, <1>4 DEF Receive, stream
  <1>8. client.gapTold \in BOOLEAN /\ client.lastSeq \in 0 .. MaxEvents \cup {NaN}
    BY <1>1 DEF TypeOK
  <1>9. PICK G \in Nat : G = Len(client.got) /\ DOMAIN client.got = 1 .. G /\ (G = 0 <=> client.got = <<>>)
    BY <1>1, Parts
  <1>10. r \in Received
    BY <1>8 DEF Received, Loss
  <1>11. r.event = e /\ r.told = (client.gapTold \/ Loss(e.seq)) /\ r.blind = (client.lastSeq = NaN)
    OBVIOUS
  <1> HIDE DEF r
  <1>12. /\ client'.got \in Seq(Received) /\ Len(client'.got) = G + 1 /\ DOMAIN client'.got = 1 .. G + 1
         /\ client'.got[G + 1] = r /\ \A n \in 1 .. G : client'.got[n] = client.got[n]
    <2>1. client.got \in Seq(Received)
      BY <1>1, Parts
    <2>2. QED
      BY <1>6, <1>9, <1>10, <2>1
  <1>13. Newer' = e
    BY <1>11, <1>12 DEF Newer
  \* The event and the one before it.
  <1>14. G > 0 => /\ Newer = client.got[G].event /\ Newer \in Event /\ client.lastId = Newer.seq
                  /\ Follows(Newer, e) /\ (client.gapTold => Jumps(Newer, e))
    <2>1. SUFFICES ASSUME G > 0
                   PROVE  /\ Newer = client.got[G].event /\ Newer \in Event /\ client.lastId = Newer.seq
                          /\ Follows(Newer, e) /\ (client.gapTold => Jumps(Newer, e))
      OBVIOUS
    <2>2. client.got # <<>> /\ Newer = client.got[G].event /\ Newer \in Event /\ client.lastId = Newer.seq
      BY <1>1, <1>9, <2>1, Parts DEF Newer, Remembered
    <2>3. Arriving(1)
      BY <1>4 DEF Arriving
    <2>4. QED
      BY <1>1, <1>3, <1>4, <2>2, <2>3 DEF NextSent
  <1>15. /\ client'.lastSeq \in {NaN, e.seq}
         /\ client.lastSeq # NaN /\ G > 0 => client.lastSeq = Newer.seq
         /\ client.lastSeq > 0 => G > 0 /\ client.lastSeq = Newer.seq
    <2>1. client.lastSeq \in {NaN, client.lastId} /\ (G = 0 => client.lastId = 0)
      BY <1>1, <1>9 DEF Remembered
    <2>2. client.lastSeq # NaN => client.lastSeq \in Nat /\ client.lastSeq <= e.seq
      <3>1. G > 0 => Newer.seq < e.seq
        BY <1>14 DEF Follows
      <3>2. G > 0 => Newer.seq \in Nat
        BY <1>1, <1>14, Frames, Parts
      <3>3. QED
        BY <1>5, <1>9, <1>14, <2>1, <3>1, <3>2
    <2>3. client.lastSeq # NaN => Max({client.lastSeq, e.seq}) = e.seq
      BY <1>5, <2>2 DEF Max
    <2>4. QED
      BY <1>6, <1>9, <1>14, <2>1, <2>3 DEF NaN
  <1>16. TypeOK'
    <2>1. client' \in [open : BOOLEAN, lastId : 0 .. MaxEvents, lastSeq : 0 .. MaxEvents \cup {NaN},
                       gapTold : BOOLEAN, got : Seq(Received)]
      <3>1. client'.open \in BOOLEAN /\ client'.lastId \in 0 .. MaxEvents /\ client'.gapTold \in BOOLEAN
            /\ client'.lastSeq \in 0 .. MaxEvents \cup {NaN} /\ client'.got \in Seq(Received)
        <4>1. client'.open \in BOOLEAN /\ client'.gapTold \in BOOLEAN
          BY <1>6
        <4>2. client'.lastId \in 0 .. MaxEvents
          BY <1>5, <1>6
        <4>3. client'.lastSeq \in 0 .. MaxEvents \cup {NaN}
          BY <1>5, <1>15
        <4>4. QED
          BY <1>12, <4>1, <4>2, <4>3
      <3>2. QED
        BY <1>6, <3>1
    <2>2. wire' \in Seq(Event \cup Control) /\ cursor' \in 0 .. MaxEvents /\ finished' \in BOOLEAN
          /\ pc' \in {"none", "start", "poll", "check", "leave"}
      <3>1. <<>> \in Seq(Event \cup Control) /\ 0 \in 0 .. MaxEvents
        BY <1>5
      <3>2. QED
        BY <1>1, <1>3, <1>7, <3>1 DEF TypeOK
    <2>3. QED
      BY <1>1, <1>2, <2>1, <2>2 DEF TypeOK, bus
  <1>17. /\ Channel' /\ Turns
         /\ \A d \in Event : Numbered(d) => Numbered(d)'
         /\ \A a, b \in Event : Follows(a, b) => Follows(a, b)'
    BY <1>2, SameBus
  <1>18. Delivered'
    <2>1. SUFFICES ASSUME NEW n \in 1 .. G + 1
                   PROVE  /\ Numbered(client.got[n].event)'
                          /\ n > 1 => Follows(client.got[n - 1].event, client.got[n].event)'
      BY <1>12 DEF Delivered
    <2> DEFINE b == client.got[n].event
               a == client.got[n - 1].event
    <2>2. n > 1 => n - 1 \in 1 .. G /\ a' = a
      BY <1>9, <1>12
    <2>3. CASE n \in 1 .. G
      <3>1. b' = b /\ b \in Event /\ Numbered(b) /\ (n > 1 => a \in Event /\ Follows(a, b))
        BY <1>1, <1>9, <1>12, <2>2, <2>3, Parts DEF Delivered
      <3>2. Numbered(b)'
        BY <1>17, <3>1
      <3>3. n > 1 => Follows(a, b)'
        BY <1>17, <2>2, <3>1
      <3>4. QED
        BY <3>2, <3>3
    <2>4. CASE n = G + 1
      <3>1. b' = e /\ (n > 1 => G > 0 /\ a' = Newer)
        BY <1>9, <1>11, <1>12, <1>14, <2>2, <2>4
      <3>2. Numbered(b)'
        BY <1>4, <1>17, <3>1
      <3>3. n > 1 => Follows(a, b)'
        BY <1>14, <1>17, <3>1
      <3>4. QED
        BY <3>2, <3>3
    <2>5. QED
      BY <1>9, <2>3, <2>4
  <1>19. Remembered'
    BY <1>6, <1>12, <1>13, <1>15 DEF Remembered
  <1>20. LossIsShown'
    <2>1. SUFFICES ASSUME NEW n \in 1 .. G + 1
                   PROVE  /\ Skipped(n)' /\ ~client'.got[n].blind => client'.got[n].told
                          /\ client'.got[n].told =>
                                 n > 1 /\ client'.got[n].event.id > client'.got[n - 1].event.id + 1
      BY <1>12 DEF LossIsShown
    <2>2. CASE n \in 1 .. G
      <3>1. client'.got[n] = client.got[n] /\ (n > 1 => client'.got[n - 1] = client.got[n - 1])
        BY <1>9, <1>12, <2>2
      <3>2. Skipped(n)' <=> Skipped(n)
        BY <3>1 DEF Skipped
      <3>3. /\ Skipped(n) /\ ~client.got[n].blind => client.got[n].told
            /\ client.got[n].told => n > 1 /\ client.got[n].event.id > client.got[n - 1].event.id + 1
        BY <1>1, <1>9, <2>2 DEF LossIsShown
      <3>4. QED
        BY <3>1, <3>2, <3>3
    <2>3. CASE n = G + 1
      <3>1. client'.got[n] = r /\ (n > 1 => G > 0 /\ client'.got[n - 1].event = Newer)
        BY <1>9, <1>12, <1>14, <2>3
      <3>2. Skipped(n)' => G > 0 /\ Newer.epoch = e.epoch /\ e.seq > Newer.seq + 1
        BY <1>11, <3>1 DEF Skipped
      <3>3. Skipped(n)' /\ ~r.blind => r.told
        <4>1. SUFFICES ASSUME Skipped(n)', client.lastSeq # NaN PROVE Loss(e.seq)
          BY <1>11
        <4>2. client.lastSeq = Newer.seq /\ e.seq > Newer.seq + 1 /\ Newer.seq \in Nat \ {0}
          BY <1>1, <1>14, <1>15, <3>2, <4>1, Frames, Parts
        <4>3. QED
          BY <4>2 DEF Loss
      <3>4. r.told => G > 0 /\ Jumps(Newer, e)
        <4>1. client.gapTold => G > 0
          BY <1>1, <1>9 DEF GapIsReal
        <4>2. Loss(e.seq) => G > 0 /\ e.seq > Newer.seq + 1
          BY <1>15 DEF Loss
        <4>3. QED
          BY <1>11, <1>14, <4>1, <4>2 DEF Jumps
      <3>5. r.told => e.id > Newer.id + 1
        BY <1>1, <1>14, <3>4, JumpSkips
      <3>6. G > 0 => n > 1
        BY <2>3
      <3>7. QED
        BY <1>11, <3>1, <3>3, <3>4, <3>5, <3>6
    <2>4. QED
      BY <1>9, <2>2, <2>3
  <1>21. CASE wire' = <<>> /\ pc' = "none"
    <2>1. Sent' /\ NextSent' /\ GapIsReal' /\ Cursor'
      BY <1>6, <1>21 DEF Sent, NextSent, GapIsReal, Cursor
    <2>2. QED
      BY <1>16, <1>17, <1>18, <1>19, <1>20, <2>1 DEF IInv
  <1>22. CASE wire' = Tail(wire) /\ UNCHANGED <<pc, cursor, finished>>
    <2>1. Sent'
      BY <1>2, <1>22, TailSent
    <2>2. \A n \in 2 .. W : wire[n].kind # "gap" /\ (wire[n].kind = "timeout" => n = W /\ pc = "none")
      BY <1>1, <1>3, LaterFrames
    <2>3. \A n \in 1 .. W : wire[n] \in Event \cup Control /\ (IsEvent(wire[n]) <=> wire[n] \in Event)
      BY <1>1, <1>3, Parts
    <2>4. NextSent'
      <3>1. SUFFICES ASSUME NEW n \in 1 .. W - 1, Arriving(n)'
                     PROVE  Follows(Newer, wire[n])' /\ n = 1
        BY <1>3, <1>6, <1>22 DEF NextSent
      <3>2. n = 1
        <4>1. SUFFICES ASSUME n # 1 PROVE FALSE
          OBVIOUS
        <4>2. n - 1 \in 1 .. W - 1 /\ (n - 1) + 1 = n /\ n \in 2 .. W /\ n # W
          BY <1>3, <4>1
        <4>3. wire'[n - 1] = wire[n]
          BY <1>3, <1>22, <4>2
        <4>4. ~IsEvent(wire[n])
          BY <3>1, <4>1, <4>3 DEF Arriving, IsEvent
        <4>5. wire[n].kind \in {"gap", "timeout"}
          BY <2>3, <4>2, <4>4, Frames
        <4>6. QED
          BY <2>2, <4>2, <4>5
      <3>3. 2 \in 1 .. W /\ wire'[1] = wire[2] /\ 2 - 1 = 1 /\ 2 > 1
        BY <1>3, <1>22, <3>2
      <3>4. IsEvent(wire[2]) /\ wire[2] \in Event
        BY <2>3, <3>1, <3>2, <3>3 DEF Arriving, IsEvent
      <3>5. Follows(e, wire[2])
        BY <1>1, <1>3, <1>4, <3>3, <3>4 DEF Sent
      <3> DEFINE b == wire[n]
      <3>6. b' = wire[2]
        BY <3>2, <3>3
      <3>7. Follows(Newer, b)'
        BY <1>13, <1>17, <3>4, <3>5, <3>6
      <3>8. QED
        BY <3>2, <3>7
    <2>5. GapIsReal'
      <3>1. wire' # <<>> => wire'[1].kind # "gap"
        <4>1. SUFFICES ASSUME wire' # <<>> PROVE wire'[1].kind # "gap"
          OBVIOUS
        <4>2. 1 \in 1 .. W - 1 /\ 1 + 1 \in 2 .. W
          BY <1>3, <1>22, <4>1
        <4>3. QED
          BY <1>3, <1>22, <2>2, <4>2
      <3>2. QED
        BY <1>6, <3>1 DEF GapIsReal
    <2>6. Cursor'
      <3>1. SUFFICES ASSUME pc # "none"
                     PROVE  /\ pc # "start"
                            /\ wire' # <<>> /\ IsEvent(wire'[Len(wire')]) => Behind(wire[Len(wire)])'
                            /\ wire' = <<>> \/ ~IsEvent(wire'[Len(wire')]) => Behind(Newer)'
        BY <1>22 DEF Cursor, IsEvent
      <3>2. pc # "start" /\ (IsEvent(wire[W]) => Behind(wire[W]))
        BY <1>1, <1>2, <1>3, <3>1 DEF Cursor
      <3>3. IsEvent(wire[W])
        <4>1. CASE W = 1
          BY <1>4, <4>1
        <4>2. CASE W # 1
          <5>1. W \in 2 .. W /\ W \in 1 .. W
            BY <1>3, <4>2
          <5>2. wire[W].kind \notin {"gap", "timeout"}
            BY <2>2, <3>1, <5>1
          <5>3. QED
            BY <2>3, <5>1, <5>2, Frames
        <4>3. QED
          BY <4>1, <4>2
      <3>4. wire' # <<>> => wire'[Len(wire')] = wire[W]
        <4>1. SUFFICES ASSUME wire' # <<>> PROVE wire'[Len(wire')] = wire[W]
          OBVIOUS
        <4>2. W - 1 \in 1 .. W - 1 /\ (W - 1) + 1 = W
          BY <1>3, <1>22, <4>1
        <4>3. QED
          BY <1>3, <1>22, <4>2
      <3>5. wire' = <<>> => wire[W] = e
        BY <1>3, <1>4, <1>22
      <3> DEFINE b == wire[Len(wire)]
      <3>6. wire' # <<>> => Behind(b)'
        BY <1>2, <1>22, <3>2, <3>3, <3>4 DEF Behind, DroppedBefore, bus
      <3>7. wire' = <<>> => Behind(Newer)'
        BY <1>2, <1>13, <1>22, <3>2, <3>3, <3>5 DEF Behind, DroppedBefore, bus
      <3>8. wire' # <<>> => IsEvent(wire'[Len(wire')])
        BY <3>3, <3>4
      <3>9. QED
        BY <3>2, <3>6, <3>7, <3>8
    <2>7. QED
      BY <1>16, <1>17, <1>18, <1>19, <1>20, <2>1, <2>4, <2>5, <2>6 DEF IInv
  <1>23. QED
    BY <1>7, <1>21, <1>22

\* The generator's other steps.
LEMMA CheckStep ==
  ASSUME IInv, NEW due \in BOOLEAN, Check(due)
  PROVE  IInv'
  <1>1. UNCHANGED <<bus, wire, client, cursor>> /\ pc # "none" /\ pc' = "leave"
    BY DEF Check
  <1>2. TypeOK'
    <2>1. finished' \in BOOLEAN
      BY DEF Check, IInv, TypeOK
    <2>2. QED
      BY <2>1 DEF Check, IInv, TypeOK, bus
  <1>3. QED
    BY <1>1, <1>2, QuietKeeps

LEMMA LeaveStep ==
  ASSUME IInv, Leave
  PROVE  IInv'
  <1>1. UNCHANGED <<bus, wire, client, cursor, status, announced, finished, faults>> /\ pc # "none" /\ pc' \in {"none", "poll"}
    BY DEF Leave
  <1>2. TypeOK'
    BY <1>1 DEF IInv, TypeOK, bus
  <1>3. QED
    BY <1>1, <1>2, QuietKeeps

LEMMA EndSessionStep ==
  ASSUME IInv, EndSession
  PROVE  IInv'
  <1>1. UNCHANGED <<bus, wire, client, cursor, pc, finished, faults>> /\ status' = "ended" /\ announced' = "owed"
    BY DEF EndSession, stream
  <1>2. TypeOK'
    BY <1>1 DEF IInv, TypeOK, bus
  <1>3. QED
    BY <1>1, <1>2, QuietKeeps

---------------------------------------------------------------------------
\* The invariant and what follows from it

LEMMA StepKeeps == IInv /\ [Next]_vars => IInv'
  <1> SUFFICES ASSUME IInv, [Next]_vars PROVE IInv'
    OBVIOUS
  <1>1. CASE Publish
    <2>1. announced' \in {"no", "owed", "yes", "lost"}
      BY <1>1 DEF Publish, IInv, TypeOK
    <2>2. QED
      BY <1>1, <2>1, PublishStep DEF Publish
  <1>2. CASE EndSession
    BY <1>2, EndSessionStep
  <1>3. CASE Announce
    BY <1>3, PublishStep DEF Announce
  <1>4. CASE \E session \in Others : PublishOther(session)
    BY <1>4, PublishOtherStep
  <1>5. CASE Serve
    BY <1>5, StartStep, PollStep, CheckStep, LeaveStep DEF Serve
  <1>6. CASE Timeout
    BY <1>6, TimeoutStep
  <1>7. CASE Browse
    BY <1>7, ConnectStep, ReceiveStep, ReceiveControlStep DEF Browse
  <1>8. CASE Drop
    BY <1>8, DropStep
  <1>9. CASE Restart
    BY <1>9, RestartStep
  <1>10. CASE UNCHANGED vars
    <2>1. UNCHANGED <<bus, wire, client, cursor, pc, status, announced, finished, faults>>
      BY <1>10 DEF vars, bus
    <2>2. TypeOK'
      BY <2>1 DEF IInv, TypeOK, bus
    <2>3. QED
      BY <2>1, <2>2, QuietKeeps
  <1>11. QED
    BY <1>1, <1>2, <1>3, <1>4, <1>5, <1>6, <1>7, <1>8, <1>9, <1>10 DEF Next

LEMMA Invariant == Spec => []IInv
  BY InitHolds, StepKeeps, PTL DEF Spec

\* The bus stays within BUFFER_SIZE events and MAX_CHANNELS channels, and the watched session
\* has a channel exactly when events of it are buffered, whoever publishes, evicts, connects,
\* drops or restarts (EventBus, events.py).
THEOREM TypeCorrect == Spec => []TypeOK
  <1>1. IInv => TypeOK
    BY DEF IInv
  <1>2. QED
    BY <1>1, Invariant, PTL

\* The client receives events in the order they were published and none twice, across any
\* number of reconnections, evictions and restarts; and within the life of a channel it
\* misses an event only if a full buffer had dropped it (session_events' cursor and
\* Last-Event-ID, EventBus.since).
THEOREM DeliveredInOrder == Spec => []InOrder
  <1>1. IInv => InOrder
    <2> SUFFICES ASSUME IInv, NEW n \in DOMAIN client.got
                 PROVE  /\ n > 1 => client.got[n - 1].event.id < client.got[n].event.id
                        /\ Skipped(n) /\ client.got[n].event.epoch = epoch /\ last # 0
                               => last >= client.got[n].event.seq + BufferSize - 1
      BY DEF InOrder
    <2>1. TypeOK /\ Delivered
      BY DEF IInv
    <2>2. n > 1 => client.got[n - 1].event \in Event /\ client.got[n].event \in Event
                   /\ Follows(client.got[n - 1].event, client.got[n].event)
      <3>1. DOMAIN client.got = 1 .. Len(client.got) /\ Len(client.got) \in Nat
        BY <2>1, Parts
      <3>2. n > 1 => n - 1 \in DOMAIN client.got
        BY <3>1
      <3>3. QED
        BY <2>1, <3>2, Parts DEF Delivered
    <2>3. n > 1 => client.got[n - 1].event.id < client.got[n].event.id
      BY <2>1, <2>2, JumpSkips
    <2>4. Skipped(n) /\ client.got[n].event.epoch = epoch /\ last # 0
              => last >= client.got[n].event.seq + BufferSize - 1
      BY <2>2 DEF Skipped, Follows, DroppedBefore
    <2>5. QED
      BY <2>3, <2>4
  <1>2. QED
    BY <1>1, Invariant, PTL

\* A client that has had no control frame shows every loss within a channel, and no client
\* shows a loss where no event is missing (sessionReducer's check of seq, and its stream.gap).
THEOREM LossesShown == Spec => []LossIsShown
  <1>1. IInv => LossIsShown
    BY DEF IInv
  <1>2. QED
    BY <1>1, Invariant, PTL

=============================================================================
