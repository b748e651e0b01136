------------------------- MODULE IdempotencyProofs -------------------------
(***************************************************************************)
(* For any requests, keys and bodies, with crashes and expiry: one request *)
(* of a key is in its handler at a time, a replay is faithful, and a key   *)
(* that has not expired brings about at most one effect.                   *)
(***************************************************************************)
EXTENDS Idempotency, TLAPS

EffectOf(r) == [by |-> r, key |-> asked[r].key, body |-> asked[r].body, session |-> asked[r].session]

UniqueRows == \A x, y \in rows : x.key = y.key => x = y

\* Whoever is in the handler under a key has its reservation in the table.
Held ==
    /\ \A r \in Requests : pc[r] \in {"expire", "reserve", "lookup", "release", "store"} => asked[r].key \in Keys
    /\ \A r \in Requests : Holds(r) => Reservation(r) \in rows
    /\ \A r, q \in Requests : Holds(r) /\ Holds(q) /\ asked[r].key = asked[q].key => r = q

\* An effect's key stays in the table until it expires, and only the request that brought
\* the effect about may still be at work under it.
Remembered ==
    \A e \in effects : e.key \in Keys \ forgotten =>
        /\ \E row \in rows : row.key = e.key
        /\ \A r \in Requests : Holds(r) /\ asked[r].key = e.key => pc[r] = "store" /\ r = e.by

\* What is stored, or about to be, was brought about.
Backed ==
    /\ \A row \in rows : row.response # "none" => DoneFor(row.response, row.key, row.body)
    /\ \A r \in Requests : pc[r] = "store" => EffectOf(r) \in effects

IInv == TypeOK /\ UniqueRows /\ Held /\ Remembered /\ Backed /\ ReplayFaithful /\ AtMostOnce

LEMMA InitInvariant == Init => IInv
  BY KeysAssumption DEF Init, IInv, TypeOK, UniqueRows, Held, Remembered, Backed, ReplayFaithful, AtMostOnce,
     DoneFor, Labels, Holds, Handling

---------------------------------------------------------------------------
\* Steps that leave the tables alone

\* A move that ends in no handler, stores nothing and answers nothing new.
LEMMA QuietMove ==
  ASSUME IInv, NEW r \in Requests, NEW label \in Labels, Goto(r, label),
         UNCHANGED <<rows, forgotten, effects, asked>>,
         label \in Handling => Holds(r) \/ asked[r].key = NoKey,
         label \in Handling /\ asked[r].key # NoKey => pc[r] # "store",
         label # "store",
         label \in {"expire", "reserve", "lookup", "release"} => asked[r].key \in Keys,
         answer' \in [Requests -> Requests \cup {"none", "failed", "refused"}],
         \A q \in Requests : answer'[q] \in Requests => answer'[q] = answer[q]
              \/ DoneFor(answer'[q], asked[q].key, asked[q].body)
  PROVE  IInv'
  <1> USE DEF IInv
  <1>1. pc' = [pc EXCEPT ![r] = label] /\ pc' \in [Requests -> Labels]
    BY DEF Goto, TypeOK
  <1>2. TypeOK' /\ UniqueRows' /\ AtMostOnce' /\ ReplayFaithful'
    BY <1>1 DEF TypeOK, UniqueRows, AtMostOnce, ReplayFaithful, DoneFor
  <1>3. \A q \in Requests : Holds(q)' => Holds(q)
    BY <1>1 DEF Holds, TypeOK
  <1>4. \A q \in Requests : Holds(q)' /\ pc[q] = "store" => pc'[q] = "store"
    BY <1>1 DEF Holds, TypeOK
  <1>5. Held'
    BY <1>1, <1>3 DEF Held, TypeOK, Reservation
  <1>6. Remembered'
    BY <1>3, <1>4 DEF Remembered
  <1>7. Backed'
    BY <1>1 DEF Backed, EffectOf, TypeOK, DoneFor
  <1>8. QED
    BY <1>2, <1>5, <1>6, <1>7

LEMMA QuietSteps ==
  ASSUME IInv, NEW r \in Requests, Arrive(r) \/ HandlerCheck(r) \/ Lookup(r)
  PROVE  IInv'
  <1> USE DEF IInv, Labels, Handling
  <1>1. asked[r].key \in Keys \cup {NoKey} /\ answer \in [Requests -> Requests \cup {"none", "failed", "refused"}]
    BY DEF TypeOK, Asked
  <1>2. CASE Arrive(r)
    BY <1>1, <1>2, QuietMove DEF Arrive
  <1>3. CASE HandlerCheck(r)
    <2>1. pc[r] = "handler" /\ UNCHANGED <<rows, forgotten, effects, asked>>
          /\ (Holds(r) \/ asked[r].key = NoKey)
      BY <1>3 DEF HandlerCheck, Holds
    <2>2. CASE Goto(r, "insert") /\ UNCHANGED answer
      BY <1>1, <2>1, <2>2, QuietMove
    <2>3. CASE asked[r].key # NoKey /\ Goto(r, "release") /\ UNCHANGED answer
      BY <1>1, <2>1, <2>3, QuietMove
    <2>4. CASE Finish(r, "failed")
      <3>1. /\ answer' \in [Requests -> Requests \cup {"none", "failed", "refused"}]
            /\ \A q \in Requests : answer'[q] \in Requests => answer'[q] = answer[q]
        BY <1>1, <2>4, KeysAssumption DEF Finish
      <3>2. QED
        BY <2>1, <2>4, <3>1, QuietMove DEF Finish
    <2>5. QED
      BY <1>3, <2>2, <2>3, <2>4 DEF HandlerCheck, Fail
  <1>4. CASE Lookup(r)
    <2>1. pc[r] = "lookup" /\ UNCHANGED <<rows, forgotten, effects, asked>>
      BY <1>4 DEF Lookup
    <2>2. CASE Finish(r, "refused")
      <3>1. /\ answer' \in [Requests -> Requests \cup {"none", "failed", "refused"}]
            /\ \A q \in Requests : answer'[q] \in Requests => answer'[q] = answer[q]
        BY <1>1, <2>2, KeysAssumption DEF Finish
      <3>2. QED
        BY <2>1, <2>2, <3>1, QuietMove DEF Finish
    <2>3. ASSUME NEW row \in Replayable(r), Finish(r, row.response)
          PROVE  IInv'
      <3>1. /\ row \in rows /\ row.key = asked[r].key /\ row.body = asked[r].body
            /\ row.response \in Requests
        BY DEF Replayable, Mine, TypeOK, Row
      <3>2. DoneFor(row.response, asked[r].key, asked[r].body)
        BY <3>1, KeysAssumption DEF Backed, DoneFor
      <3>3. /\ answer' \in [Requests -> Requests \cup {"none", "failed", "refused"}]
            /\ \A q \in Requests : q # r => answer'[q] = answer[q]
            /\ answer'[r] = row.response
        BY <1>1, <2>3, <3>1 DEF Finish
      <3>4. QED
        BY <2>1, <2>3, <3>2, <3>3, QuietMove DEF Finish
    <2>4. QED
      BY <1>4, <2>2, <2>3 DEF Lookup
  <1>5. QED
    BY <1>2, <1>3, <1>4
---------------------------------------------------------------------------
\* Steps that change the tables

LEMMA ExpireStep ==
  ASSUME IInv, NEW r \in Requests, Expire(r)
  PROVE  IInv'
  <1> USE DEF IInv
  <1>1. /\ pc[r] = "expire" /\ pc' = [pc EXCEPT ![r] = "reserve"] /\ rows' \subseteq rows
        /\ \A row \in rows : ~row.old => row \in rows'
        /\ forgotten' = forgotten \cup {row.key : row \in rows \ rows'}
        /\ UNCHANGED <<effects, asked, answer>>
    BY DEF Expire, Goto
  <1>2. TypeOK' /\ UniqueRows' /\ AtMostOnce' /\ ReplayFaithful'
    BY <1>1 DEF TypeOK, Row, UniqueRows, AtMostOnce, ReplayFaithful, Labels, DoneFor
  <1>3. \A q \in Requests : Holds(q)' <=> Holds(q)
    BY <1>1 DEF Holds, TypeOK, Handling
  <1>4. Held'
    <2>1. \A q \in Requests : Holds(q)' => Reservation(q)' \in rows'
      BY <1>1, <1>3 DEF Held, Reservation
    <2>2. QED
      BY <1>1, <1>3, <2>1 DEF Held, TypeOK
  <1>5. Remembered'
    <2>1. \A e \in effects : e.key \in Keys \ forgotten' => \E row \in rows' : row.key = e.key
      BY <1>1 DEF Remembered
    <2>2. QED
      BY <1>1, <1>3, <2>1 DEF Remembered, TypeOK
  <1>6. Backed'
    BY <1>1 DEF Backed, EffectOf, TypeOK, DoneFor
  <1>7. QED
    BY <1>2, <1>4, <1>5, <1>6

LEMMA ReserveStep ==
  ASSUME IInv, NEW r \in Requests, Reserve(r)
  PROVE  IInv'
  <1> USE DEF IInv
  <1>1. pc[r] = "reserve" /\ asked[r].key \in Keys /\ asked[r].body \in Bodies
    BY DEF Reserve, Held, TypeOK, Asked
  <1>2. CASE Goto(r, "lookup") /\ UNCHANGED rows
    BY <1>1, <1>2, QuietMove DEF Reserve, Labels, Handling, TypeOK
  <1>3. CASE Mine(r) = {} /\ rows' = rows \cup {Reservation(r)} /\ Goto(r, "handler")
    <2>1. /\ pc' = [pc EXCEPT ![r] = "handler"] /\ UNCHANGED <<forgotten, effects, asked, answer>>
          /\ \A row \in rows : row.key # asked[r].key
      BY <1>3 DEF Reserve, Goto, Mine
    <2>2. Reservation(r) \in Row /\ Reservation(r).key = asked[r].key /\ Reservation(r).response = "none"
      BY <1>1 DEF Reservation, Row
    <2>3. TypeOK' /\ UniqueRows' /\ AtMostOnce' /\ ReplayFaithful'
      BY <1>3, <2>1, <2>2 DEF TypeOK, UniqueRows, AtMostOnce, ReplayFaithful, Labels, DoneFor
    <2>4. \A q \in Requests : q # r => (Holds(q)' <=> Holds(q)) /\ pc'[q] = pc[q]
      BY <2>1 DEF Holds, TypeOK
    <2>5. \A q \in Requests : Holds(q) => asked[q].key # asked[r].key
      BY <2>1 DEF Held, Reservation
    <2>6. Held'
      <3>1. \A q \in Requests : Holds(q)' => Reservation(q)' \in rows'
        BY <1>3, <2>1, <2>4 DEF Held, Reservation
      <3>2. QED
        BY <1>1, <2>1, <2>4, <2>5, <3>1 DEF Held, TypeOK
    <2>7. \A e \in effects : e.key \in Keys \ forgotten => e.key # asked[r].key
      BY <2>1 DEF Remembered
    <2>8. Remembered'
      BY <1>3, <2>1, <2>4, <2>7 DEF Remembered
    <2>9. Backed'
      BY <1>3, <2>1, <2>2 DEF Backed, EffectOf, TypeOK, DoneFor
    <2>10. QED
      BY <2>3, <2>6, <2>8, <2>9
  <1>4. QED
    BY <1>2, <1>3 DEF Reserve

LEMMA InsertStep ==
  ASSUME IInv, NEW r \in Requests, HandlerInsert(r)
  PROVE  IInv'
  <1> USE DEF IInv
  <1>1. /\ pc[r] = "insert" /\ UNCHANGED <<rows, forgotten, asked>>
        /\ asked[r].key \in Keys \cup {NoKey} /\ asked[r].body \in Bodies
        /\ asked[r].session \in Sessions \cup {NoSession}
        /\ answer \in [Requests -> Requests \cup {"none", "failed", "refused"}]
        /\ pc \in [Requests -> Labels]
    BY DEF HandlerInsert, TypeOK, Asked
  <1>2. CASE /\ Goto(r, "gone") /\ answer' = [answer EXCEPT ![r] = "failed"]
             /\ UNCHANGED effects
    <2>1. /\ answer' \in [Requests -> Requests \cup {"none", "failed", "refused"}]
          /\ \A q \in Requests : answer'[q] \in Requests => answer'[q] = answer[q]
      BY <1>1, <1>2, KeysAssumption
    <2>2. QED
      BY <1>1, <1>2, <2>1, QuietMove DEF Labels, Handling
  <1>3. ASSUME effects' = effects \cup {EffectOf(r)}, NEW label \in {"done", "store"},
               pc' = [pc EXCEPT ![r] = label], asked[r].key = NoKey => label = "done",
               asked[r].key # NoKey => label = "store",
               UNCHANGED answer \/ answer' = [answer EXCEPT ![r] = r]
        PROVE  IInv'
    <2>1. EffectOf(r) \in Effect /\ EffectOf(r).key = asked[r].key /\ EffectOf(r).by = r
      BY <1>1 DEF EffectOf, Effect
    <2>2. TypeOK' /\ UniqueRows'
      BY <1>1, <1>3, <2>1 DEF TypeOK, UniqueRows, Labels
    <2>3. \A q \in Requests : (Holds(q)' <=> Holds(q)) /\ (q # r => pc'[q] = pc[q])
      BY <1>1, <1>3 DEF Holds, Handling
    <2>4. Held'
      BY <1>1, <1>3, <2>3 DEF Held, Reservation
    <2>5. asked[r].key # NoKey => Holds(r)
      BY <1>1 DEF Holds, Handling
    <2>6. \A e \in effects : e.key \in Keys \ forgotten => e.key # asked[r].key
      BY <1>1, <2>5, KeysAssumption DEF Remembered
    <2>7. AtMostOnce'
      BY <1>1, <1>3, <2>1, <2>6 DEF AtMostOnce
    <2>8. Remembered'
      <3>1. ASSUME NEW e \in effects', e.key \in Keys \ forgotten
            PROVE  /\ \E row \in rows : row.key = e.key
                   /\ \A q \in Requests : Holds(q) /\ asked[q].key = e.key => pc'[q] = "store" /\ q = e.by
        <4>1. CASE e \in effects
          BY <2>3, <2>6, <3>1, <4>1 DEF Remembered
        <4>2. CASE e = EffectOf(r)
          <5>1. Holds(r) /\ asked[r].key = e.key /\ pc'[r] = "store"
            BY <1>1, <1>3, <2>1, <2>5, <3>1, <4>2, KeysAssumption
          <5>2. Reservation(r) \in rows /\ Reservation(r).key = e.key
            BY <5>1 DEF Held, Reservation
          <5>3. \A q \in Requests : Holds(q) /\ asked[q].key = e.key => q = r
            BY <5>1 DEF Held
          <5>4. QED
            BY <2>1, <4>2, <5>1, <5>2, <5>3
        <4>3. QED
          BY <1>3, <3>1, <4>1, <4>2
      <3>2. QED
        BY <1>1, <2>3, <3>1 DEF Remembered
    <2>9. Backed' /\ ReplayFaithful'
      <3>1. \A q \in Requests : EffectOf(q)' = EffectOf(q)
        BY <1>1 DEF EffectOf
      <3>2. Backed'
        BY <1>1, <1>3, <2>3, <3>1 DEF Backed, DoneFor
      <3>3. ReplayFaithful'
        <4>1. DoneFor(r, asked[r].key, asked[r].body)'
          <5>1. EffectOf(r) \in effects' /\ asked' = asked
            BY <1>1, <1>3
          <5>2. /\ EffectOf(r).by = r /\ EffectOf(r).key = asked[r].key
                /\ EffectOf(r).body = asked[r].body
            BY DEF EffectOf
          <5>3. QED
            BY <5>1, <5>2 DEF DoneFor
        <4>2. SUFFICES ASSUME NEW q \in Requests, answer'[q] \in Requests
                       PROVE  DoneFor(answer[q], asked[q].key, asked[q].body)'
          BY DEF ReplayFaithful
        <4>3. CASE answer'[q] = answer[q]
          BY <1>1, <1>3, <4>2, <4>3 DEF ReplayFaithful, DoneFor
        <4>4. CASE answer'[q] # answer[q]
          <5>1. q = r /\ answer'[q] = r
            BY <1>1, <1>3, <4>4
          <5>2. QED
            BY <4>1, <5>1
        <4>5. QED
          BY <4>3, <4>4
      <3>4. QED
        BY <3>2, <3>3
    <2>10. QED
      BY <2>2, <2>4, <2>7, <2>8, <2>9
  <1>4. QED
    BY <1>1, <1>2, <1>3 DEF HandlerInsert, Insert, EffectOf, Finish, Goto

LEMMA ReleaseStep ==
  ASSUME IInv, NEW r \in Requests, Release(r)
  PROVE  IInv'
  <1> USE DEF IInv
  <1>1. /\ pc[r] = "release" /\ rows' = rows \ Mine(r) /\ pc' = [pc EXCEPT ![r] = "done"]
        /\ answer' = [answer EXCEPT ![r] = "failed"] /\ UNCHANGED <<forgotten, effects, asked>>
        /\ asked[r].key \in Keys
    BY DEF Release, Finish, Goto, Held
  <1>2. Holds(r)
    BY <1>1, KeysAssumption DEF Holds, Handling
  <1>3. TypeOK' /\ UniqueRows' /\ AtMostOnce' /\ ReplayFaithful'
    BY <1>1, KeysAssumption DEF TypeOK, UniqueRows, AtMostOnce, ReplayFaithful, Labels, DoneFor
  <1>4. \A q \in Requests : Holds(q)' => Holds(q) /\ pc'[q] = pc[q] /\ asked[q].key # asked[r].key
    BY <1>1, <1>2 DEF Holds, TypeOK, Held, Handling
  <1>5. Held'
    <2>1. \A q \in Requests : Holds(q)' => Reservation(q)' \in rows'
      BY <1>1, <1>4 DEF Held, Reservation, Mine
    <2>2. QED
      BY <1>1, <1>4, <2>1 DEF Held, TypeOK
  <1>6. \A e \in effects : e.key \in Keys \ forgotten => e.key # asked[r].key
    BY <1>1, <1>2 DEF Remembered
  <1>7. Remembered'
    BY <1>1, <1>4, <1>6 DEF Remembered, Mine
  <1>8. Backed'
    BY <1>1 DEF Backed, EffectOf, TypeOK, DoneFor
  <1>9. QED
    BY <1>3, <1>5, <1>7, <1>8

LEMMA StoreStep ==
  ASSUME IInv, NEW r \in Requests, Store(r)
  PROVE  IInv'
  <1> USE DEF IInv
  <1> DEFINE stored == [Reservation(r) EXCEPT !.response = r]
  <1>1. /\ pc[r] = "store" /\ pc' = [pc EXCEPT ![r] = "done"]
        /\ rows' = (rows \ Mine(r)) \cup {[row EXCEPT !.response = r] : row \in Mine(r)}
        /\ answer' = [answer EXCEPT ![r] = r] /\ UNCHANGED <<forgotten, effects, asked>>
        /\ asked[r].key \in Keys /\ asked[r].body \in Bodies
    BY DEF Store, Finish, Goto, Held, TypeOK, Asked
  <1>2. Holds(r) /\ Reservation(r) \in rows
    BY <1>1, KeysAssumption DEF Holds, Handling, Held
  <1>3. Mine(r) = {Reservation(r)} /\ Reservation(r).key = asked[r].key
    <2>1. Reservation(r).key = asked[r].key
      BY DEF Reservation
    <2>2. \A row \in rows : row.key = asked[r].key <=> row = Reservation(r)
      BY <1>2, <2>1 DEF UniqueRows
    <2>3. QED
      BY <1>2, <2>1, <2>2 DEF Mine
  <1>4. rows' = (rows \ {Reservation(r)}) \cup {stored}
    <2>1. {[row EXCEPT !.response = r] : row \in {Reservation(r)}} = {[Reservation(r) EXCEPT !.response = r]}
      OBVIOUS
    <2>2. QED
      BY <1>1, <1>3, <2>1
  <1>5. stored \in Row /\ stored.key = asked[r].key /\ stored.body = asked[r].body /\ stored.response = r
    BY <1>1 DEF Reservation, Row
  <1>6. TypeOK' /\ AtMostOnce'
    BY <1>1, <1>4, <1>5 DEF TypeOK, AtMostOnce, Labels
  <1>7. UniqueRows'
    <2>1. \A row \in rows \ {Reservation(r)} : row.key # asked[r].key
      BY <1>2, <1>3 DEF UniqueRows
    <2>2. QED
      BY <1>4, <1>5, <2>1 DEF UniqueRows
  <1>8. EffectOf(r) \in effects
    BY <1>1 DEF Backed, DoneFor
  <1>9. ReplayFaithful'
    BY <1>1, <1>8 DEF ReplayFaithful, EffectOf, TypeOK, DoneFor
  <1>10. \A q \in Requests : Holds(q)' => Holds(q) /\ pc'[q] = pc[q] /\ asked[q].key # asked[r].key
    BY <1>1, <1>2 DEF Holds, TypeOK, Held, Handling
  <1>11. Held'
    <2>1. \A q \in Requests : Holds(q)' => Reservation(q)' \in rows'
      BY <1>1, <1>4, <1>10 DEF Held, Reservation
    <2>2. QED
      BY <1>1, <1>10, <2>1 DEF Held, TypeOK
  <1>12. Remembered'
    <2>1. \A k : (\E row \in rows : row.key = k) => \E row \in rows' : row.key = k
      BY <1>4, <1>5 DEF Reservation
    <2>2. UNCHANGED <<forgotten, effects, asked>> /\ Remembered
      BY <1>1
    <2>3. SUFFICES ASSUME NEW e \in effects, e.key \in Keys \ forgotten
                   PROVE  /\ \E row \in rows' : row.key = e.key
                          /\ \A q \in Requests : Holds(q)' /\ asked[q].key = e.key => pc'[q] = "store" /\ q = e.by
      BY <2>2 DEF Remembered
    <2>4. /\ \E row \in rows : row.key = e.key
          /\ \A q \in Requests : Holds(q) /\ asked[q].key = e.key => pc[q] = "store" /\ q = e.by
      BY <2>2, <2>3 DEF Remembered
    <2>5. QED
      BY <1>10, <2>1, <2>4
  <1>13. Backed'
    BY <1>1, <1>4, <1>5, <1>8 DEF Backed, EffectOf, TypeOK, DoneFor
  <1>14. QED
    BY <1>6, <1>7, <1>9, <1>11, <1>12, <1>13

---------------------------------------------------------------------------
\* The environment

LEMMA AgeStep ==
  ASSUME IInv, NEW row \in rows, Age(row)
  PROVE  IInv'
  <1> USE DEF IInv
  <1> DEFINE aged == [row EXCEPT !.old = TRUE]
  <1>1. /\ rows' = (rows \ {row}) \cup {aged} /\ UNCHANGED <<forgotten, effects, pc, asked, answer>>
        /\ \A r \in Requests : asked[r].key = row.key => pc[r] \notin Handling
    BY DEF Age
  <1>2. /\ aged \in Row /\ aged.key = row.key /\ aged.body = row.body /\ aged.response = row.response
    BY DEF TypeOK, Row
  <1> HIDE DEF aged
  <1>3. TypeOK' /\ AtMostOnce' /\ ReplayFaithful'
    <2>1. rows' \in SUBSET Row
      BY <1>1, <1>2 DEF TypeOK
    <2>2. TypeOK'
      BY <1>1, <2>1 DEF TypeOK
    <2>3. AtMostOnce' /\ ReplayFaithful'
      BY <1>1 DEF AtMostOnce, ReplayFaithful, DoneFor
    <2>4. QED
      BY <2>2, <2>3
  <1>4. UniqueRows'
    BY <1>1, <1>2 DEF UniqueRows
  <1>5. Held'
    <2>1. \A q \in Requests : Holds(q) => Reservation(q) \in rows'
      BY <1>1 DEF Held, Holds, Reservation, aged
    <2>2. \A q \in Requests : (Holds(q)' <=> Holds(q)) /\ Reservation(q)' = Reservation(q)
      BY <1>1 DEF Holds, Reservation
    <2>3. /\ \A q \in Requests : pc'[q] \in {"expire", "reserve", "lookup", "release", "store"}
                                 => asked'[q].key \in Keys
          /\ \A q, p \in Requests : Holds(q)' /\ Holds(p)' /\ asked'[q].key = asked'[p].key => q = p
      BY <1>1, <2>2 DEF Held
    <2>4. QED
      BY <2>1, <2>2, <2>3 DEF Held
  <1>6. Remembered'
    <2>1. \A k : (\E x \in rows : x.key = k) => \E x \in rows' : x.key = k
      BY <1>1, <1>2
    <2>2. QED
      BY <1>1, <2>1 DEF Remembered, Holds
  <1>7. Backed'
    BY <1>1, <1>2 DEF Backed, EffectOf, DoneFor
  <1>8. QED
    BY <1>3, <1>4, <1>5, <1>6, <1>7

LEMMA RestartStep ==
  ASSUME IInv, Restart
  PROVE  IInv'
  <1> USE DEF IInv
  <1>1. /\ UNCHANGED <<rows, forgotten, effects, asked, answer>>
        /\ pc' \in [Requests -> Labels]
        /\ \A r \in Requests : pc'[r] \in {"idle", "done", "gone"}
    BY DEF Restart, TypeOK, Labels
  <1>2. \A r \in Requests : ~Holds(r)'
    BY <1>1 DEF Holds, Handling
  <1>3. QED
    BY <1>1, <1>2 DEF TypeOK, UniqueRows, Held, Remembered, Backed, ReplayFaithful, AtMostOnce, EffectOf, DoneFor

---------------------------------------------------------------------------
\* The theorems

LEMMA StepInvariant == IInv /\ [Next]_vars => IInv'
  <1> SUFFICES ASSUME IInv, [Next]_vars PROVE IInv'
    OBVIOUS
  <1>1. CASE Next
    BY <1>1, QuietSteps, ExpireStep, ReserveStep, InsertStep, ReleaseStep, StoreStep, AgeStep, RestartStep
       DEF Next, Step
  <1>2. CASE UNCHANGED vars
    BY <1>2 DEF vars, IInv, TypeOK, UniqueRows, Held, Remembered, Backed, ReplayFaithful, AtMostOnce, DoneFor,
                EffectOf, Holds, Reservation
  <1>3. QED
    BY <1>1, <1>2

LEMMA Invariance == Spec => []IInv
  BY InitInvariant, StepInvariant, PTL DEF Spec

\* Every variable keeps its type, for any requests, keys and bodies.
THEOREM IdempotencyTypes == Spec => []TypeOK
  BY Invariance, PTL DEF IInv

\* A retry never enters the handler beside the request it repeats, nor after its response
\* is stored (run_once).
THEOREM OneInHandler == Spec => []OneHandler
  <1>1. IInv => OneHandler
    <2>1. SUFFICES ASSUME IInv PROVE OneHandler
      OBVIOUS
    <2>2. \A r \in Requests : Holds(r) => \A row \in Mine(r) : row = Reservation(r)
      BY <2>1 DEF IInv, Held, UniqueRows, Mine, Reservation
    <2>3. QED
      BY <2>1, <2>2 DEF IInv, Held, OneHandler, Reservation
  <1>2. QED
    BY Invariance, <1>1, PTL

\* However many retries, restarts and expiries there are, a replay answers with what was
\* done for this key and this fingerprint, of whichever session.
THEOREM ReplaysAreFaithful == Spec => []ReplayFaithful
  BY Invariance, PTL DEF IInv

\* A key that has not expired brings about at most one session or artifact, through any
\* number of retries and restarts.
THEOREM KeyedAtMostOnce == Spec => []AtMostOnce
  BY Invariance, PTL DEF IInv
=============================================================================
