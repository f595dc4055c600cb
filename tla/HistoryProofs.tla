--------------------------- MODULE HistoryProofs ---------------------------
(***************************************************************************)
(* What the views promise about a history that only grows.                 *)
(*                                                                         *)
(* A history is Written when each of its events was one that a call could  *)
(* write on the history before it (Fits).  The two results everything else *)
(* rests on: what a call accepts and builds fits (AcceptedFits), and the   *)
(* projections replay a written history unless a case's relation id is     *)
(* occupied (WrittenReplays).  Neither looks at how effective states are   *)
(* computed.  After them comes what the search for stale records finds:    *)
(* the records that depend on a root, by the best of all their paths, which*)
(* is why a state that moved never returns.  Then comes what one more      *)
(* event does to a feedback case; and last, about any steps at all, what   *)
(* the breadth-first search of a query answers.                            *)
(***************************************************************************)
EXTENDS Operations, Explain, SequenceTheorems, FiniteSetTheorems, WellFoundedInduction, TLAPS

IsLog(h) == h \in Seq({h[i] : i \in DOMAIN h})

(***************************************************************************)
(* A history is a sequence: its length, its places.                        *)
(***************************************************************************)
LEMMA LogFacts ==
    ASSUME NEW h, IsLog(h)
    PROVE  Len(h) \in Nat /\ DOMAIN h = 1 .. Len(h)
BY LenProperties DEF IsLog

(***************************************************************************)
(* A prefix is a history and agrees with the whole.                        *)
(***************************************************************************)
LEMMA PrefixFacts ==
    ASSUME NEW h, IsLog(h), NEW n \in 0 .. Len(h)
    PROVE  /\ IsLog(Prefix(h, n))
           /\ Len(Prefix(h, n)) = n
           /\ \A i \in 1 .. n : Prefix(h, n)[i] = h[i]
<1> DEFINE S == {h[i] : i \in DOMAIN h}
<1>1. Len(h) \in Nat /\ DOMAIN h = 1 .. Len(h)
  BY LogFacts
<1>2. n \in Int /\ 1 \in Int /\ n \in Nat
  BY <1>1
<1>3. \A i \in 1 .. n : h[i] \in S
  BY <1>1
<1> HIDE DEF S
<1>4. /\ SubSeq(h, 1, n) \in Seq(S)
      /\ Len(SubSeq(h, 1, n)) = IF 1 <= n THEN n - 1 + 1 ELSE 0
      /\ \A i \in 1 .. n - 1 + 1 : SubSeq(h, 1, n)[i] = h[1 + i - 1]
  BY <1>2, <1>3, SubSeqProperties
<1>5. Len(SubSeq(h, 1, n)) = n /\ \A i \in 1 .. n : SubSeq(h, 1, n)[i] = h[i]
  BY <1>2, <1>4
<1> DEFINE p == SubSeq(h, 1, n)
<1>6. p \in [1 .. Len(p) -> S] /\ DOMAIN p = 1 .. Len(p) /\ Len(p) \in Nat
  BY <1>4, LenProperties
<1>7. p \in Seq({p[i] : i \in DOMAIN p})
  <2> HIDE DEF p
  <2>1. \A i \in 1 .. Len(p) : p[i] \in {p[j] : j \in DOMAIN p}
    BY <1>6
  <2>2. p = [i \in 1 .. Len(p) |-> p[i]]
    BY <1>6
  <2> QED  BY <1>6, <2>1, <2>2, IsASeq
<1> QED  BY <1>5, <1>7 DEF Prefix, IsLog

LEMMA PrefixFull ==
    ASSUME NEW h, IsLog(h)
    PROVE  Prefix(h, Len(h)) = h
BY SubSeqFull DEF Prefix, IsLog

(***************************************************************************)
(* An appended event is the last one, and the rest is as it was.           *)
(***************************************************************************)
LEMMA AppendFacts ==
    ASSUME NEW h, IsLog(h), NEW e
    PROVE  /\ IsLog(Append(h, e))
           /\ Len(Append(h, e)) = Len(h) + 1
           /\ \A i \in 1 .. Len(h) : Append(h, e)[i] = h[i]
           /\ Append(h, e)[Len(h) + 1] = e
<1> DEFINE S == {h[i] : i \in DOMAIN h} \cup {e}
           a == Append(h, e)
<1>1. h \in Seq(S)
  BY SeqMonotonic DEF IsLog
<1>2. e \in S
  OBVIOUS
<1> HIDE DEF S
<1>3. /\ a \in Seq(S) /\ Len(a) = Len(h) + 1
      /\ \A i \in 1 .. Len(h) : a[i] = h[i]
      /\ a[Len(h) + 1] = e
  BY <1>1, <1>2, AppendProperties
<1>4. DOMAIN a = 1 .. Len(a) /\ Len(a) \in Nat /\ a \in [1 .. Len(a) -> S]
  BY <1>3, LenProperties
<1> HIDE DEF a
<1>5. a \in Seq({a[i] : i \in DOMAIN a})
  <2>1. \A i \in 1 .. Len(a) : a[i] \in {a[j] : j \in DOMAIN a}
    BY <1>4
  <2>2. a = [i \in 1 .. Len(a) |-> a[i]]
    BY <1>4
  <2> QED  BY <1>4, <2>1, <2>2, IsASeq
<1> QED  BY <1>3, <1>5 DEF IsLog, a

-----------------------------------------------------------------------------
(***************************************************************************)
(* H starts with h.                                                        *)
(***************************************************************************)
Grows(h, H) == /\ IsLog(h) /\ IsLog(H)
               /\ Len(h) <= Len(H)
               /\ \A i \in 1 .. Len(h) : h[i] = H[i]

LEMMA PrefixGrows ==
    ASSUME NEW h, IsLog(h), NEW n \in 0 .. Len(h)
    PROVE  Grows(Prefix(h, n), h)
<1>1. Len(h) \in Nat
  BY LogFacts
<1> QED  BY <1>1, PrefixFacts DEF Grows

LEMMA AppendGrows ==
    ASSUME NEW h, IsLog(h), NEW e
    PROVE  Grows(h, Append(h, e))
<1>1. Len(h) \in Nat
  BY LogFacts
<1> QED  BY <1>1, AppendFacts DEF Grows

(***************************************************************************)
(* Histories of the same length and events are the same.                   *)
(***************************************************************************)
LEMMA SameLog ==
    ASSUME NEW g, NEW h, IsLog(g), IsLog(h), Len(g) = Len(h),
           \A i \in 1 .. Len(g) : g[i] = h[i]
    PROVE  g = h
<1> DEFINE S == {g[i] : i \in DOMAIN g} \cup {h[i] : i \in DOMAIN h}
<1>1. g \in Seq(S) /\ h \in Seq(S)
  BY SeqMonotonic DEF IsLog
<1> HIDE DEF S
<1> QED  BY <1>1, SeqEqual

(***************************************************************************)
(* What was before a place does not change when the history grows.         *)
(***************************************************************************)
LEMMA PrefixOfGrown ==
    ASSUME NEW h, NEW H, Grows(h, H), NEW n \in 0 .. Len(h)
    PROVE  Prefix(H, n) = Prefix(h, n)
<1>1. /\ IsLog(h) /\ IsLog(H) /\ Len(h) \in Nat /\ Len(H) \in Nat
      /\ Len(h) <= Len(H) /\ \A i \in 1 .. Len(h) : h[i] = H[i]
  BY LogFacts DEF Grows
<1>2. n \in 0 .. Len(H)
  BY <1>1
<1>3. IsLog(Prefix(H, n)) /\ Len(Prefix(H, n)) = n /\ \A i \in 1 .. n : Prefix(H, n)[i] = H[i]
  BY <1>1, <1>2, PrefixFacts
<1>4. IsLog(Prefix(h, n)) /\ Len(Prefix(h, n)) = n /\ \A i \in 1 .. n : Prefix(h, n)[i] = h[i]
  BY <1>1, PrefixFacts
<1> QED  BY <1>1, <1>3, <1>4, SameLog

-----------------------------------------------------------------------------
(***************************************************************************)
(* Ids are unique among the records and among the relations.               *)
(***************************************************************************)
Kinds == {"record", "relation"}

Unique(h) == \A ev \in Kinds : \A i, j \in Created(h, ev) : h[i].id = h[j].id => i = j

(***************************************************************************)
(* The place of an id holds an event of that kind with that id.            *)
(***************************************************************************)
LEMMA PlaceKnown ==
    ASSUME NEW h, IsLog(h), NEW ev, NEW id, PlaceOf(h, ev, id) # 0
    PROVE  /\ PlaceOf(h, ev, id) \in 1 .. Len(h)
           /\ PlaceOf(h, ev, id) \in Created(h, ev)
           /\ h[PlaceOf(h, ev, id)].ev = ev
           /\ h[PlaceOf(h, ev, id)].id = id
<1>1. DOMAIN h = 1 .. Len(h)
  BY LogFacts
<1>2. \E i \in DOMAIN h : h[i].ev = ev /\ h[i].id = id
  BY DEF PlaceOf
<1>3. PlaceOf(h, ev, id) = CHOOSE i \in DOMAIN h : h[i].ev = ev /\ h[i].id = id
  BY <1>2 DEF PlaceOf
<1>4. PlaceOf(h, ev, id) \in DOMAIN h /\ h[PlaceOf(h, ev, id)].ev = ev
                                      /\ h[PlaceOf(h, ev, id)].id = id
  BY <1>2, <1>3
<1> QED  BY <1>1, <1>4 DEF Created

\* A place is 0 only if no event has the id.
LEMMA PlaceUnknown ==
    ASSUME NEW h, IsLog(h), NEW ev, NEW i \in DOMAIN h, h[i].ev = ev
    PROVE  PlaceOf(h, ev, h[i].id) # 0
<1>1. Len(h) \in Nat /\ DOMAIN h = 1 .. Len(h)
  BY LogFacts
<1> DEFINE q == CHOOSE j \in DOMAIN h : h[j].ev = ev /\ h[j].id = h[i].id
<1>2. q \in DOMAIN h
  OBVIOUS
<1>3. PlaceOf(h, ev, h[i].id) = q
  BY DEF PlaceOf
<1> HIDE DEF q
<1> QED  BY <1>1, <1>2, <1>3

LEMMA PlaceIs ==
    ASSUME NEW h, IsLog(h), Unique(h), NEW ev \in Kinds, NEW i \in Created(h, ev)
    PROVE  PlaceOf(h, ev, h[i].id) = i
<1>1. PlaceOf(h, ev, h[i].id) # 0
  BY PlaceUnknown DEF Created
<1>2. /\ PlaceOf(h, ev, h[i].id) \in Created(h, ev)
      /\ h[PlaceOf(h, ev, h[i].id)].id = h[i].id
  BY <1>1, PlaceKnown
<1> QED  BY <1>2 DEF Unique

(***************************************************************************)
(* A place that is known stays; one in the old part was known.             *)
(***************************************************************************)
LEMMA PlaceStays ==
    ASSUME NEW h, NEW H, Grows(h, H), Unique(H), NEW ev \in Kinds, NEW id,
           PlaceOf(h, ev, id) # 0
    PROVE  PlaceOf(H, ev, id) = PlaceOf(h, ev, id)
<1> DEFINE i == PlaceOf(h, ev, id)
<1>1. IsLog(h) /\ IsLog(H) /\ Len(h) <= Len(H) /\ \A k \in 1 .. Len(h) : h[k] = H[k]
  BY DEF Grows
<1>2. i \in 1 .. Len(h) /\ h[i].ev = ev /\ h[i].id = id
  BY <1>1, PlaceKnown
<1> HIDE DEF i
<1>3. Len(h) \in Nat /\ Len(H) \in Nat /\ DOMAIN H = 1 .. Len(H)
  BY <1>1, LogFacts
<1>4. i \in Created(H, ev) /\ H[i].id = id
  BY <1>1, <1>2, <1>3 DEF Created
<1>5. PlaceOf(H, ev, H[i].id) = i
  BY <1>1, <1>4, PlaceIs
<1> QED  BY <1>4, <1>5 DEF i

LEMMA PlaceWas ==
    ASSUME NEW h, NEW H, Grows(h, H), Unique(H), NEW ev \in Kinds, NEW id,
           PlaceOf(H, ev, id) \in 1 .. Len(h)
    PROVE  PlaceOf(h, ev, id) = PlaceOf(H, ev, id)
<1> DEFINE i == PlaceOf(H, ev, id)
<1>1. IsLog(h) /\ IsLog(H) /\ Len(h) <= Len(H) /\ \A k \in 1 .. Len(h) : h[k] = H[k]
  BY DEF Grows
<1>2. Len(h) \in Nat /\ Len(H) \in Nat /\ DOMAIN H = 1 .. Len(H) /\ DOMAIN h = 1 .. Len(h)
  BY <1>1, LogFacts
<1>3. i # 0
  BY <1>2
<1>4. H[i].ev = ev /\ H[i].id = id
  BY <1>1, <1>3, PlaceKnown
<1>5. h[i].ev = ev /\ h[i].id = id /\ i \in DOMAIN h
  BY <1>1, <1>2, <1>4
<1>6. PlaceOf(h, ev, id) # 0
  BY <1>1, <1>5, PlaceUnknown
<1> QED  BY <1>6, PlaceStays

-----------------------------------------------------------------------------
(***************************************************************************)
(* A record or a relation that exists stays what it is.                    *)
(***************************************************************************)
LEMMA RecordStays ==
    ASSUME NEW h, NEW H, Grows(h, H), Unique(H), NEW id, HasRecord(h, id)
    PROVE  /\ HasRecord(H, id)
           /\ RecordAt(H, id) = RecordAt(h, id)
           /\ RecordAt(h, id) \in 1 .. Len(h)
           /\ Record(H, id) = Record(h, id)
           /\ Body(H, id) = Body(h, id)
           /\ \A type : IsOfType(H, id, type) <=> IsOfType(h, id, type)
<1>1. "record" \in Kinds
  BY DEF Kinds
<1>2. PlaceOf(h, "record", id) # 0
  BY DEF HasRecord, RecordAt
<1>3. RecordAt(H, id) = RecordAt(h, id)
  BY <1>1, <1>2, PlaceStays DEF RecordAt
<1>4. IsLog(h) /\ \A i \in 1 .. Len(h) : h[i] = H[i]
  BY DEF Grows
<1>5. RecordAt(h, id) \in 1 .. Len(h)
  BY <1>2, <1>4, PlaceKnown DEF RecordAt
<1>6. Record(H, id) = Record(h, id)
  BY <1>3, <1>4, <1>5 DEF Record
<1> QED  BY <1>3, <1>5, <1>6 DEF HasRecord, Body, IsOfType

LEMMA RelationStays ==
    ASSUME NEW h, NEW H, Grows(h, H), Unique(H), NEW id, HasRelation(h, id)
    PROVE  /\ HasRelation(H, id)
           /\ RelationAt(H, id) = RelationAt(h, id)
           /\ RelationAt(h, id) \in 1 .. Len(h)
           /\ Relation(H, id) = Relation(h, id)
<1>1. "relation" \in Kinds
  BY DEF Kinds
<1>2. PlaceOf(h, "relation", id) # 0
  BY DEF HasRelation, RelationAt
<1>3. RelationAt(H, id) = RelationAt(h, id)
  BY <1>1, <1>2, PlaceStays DEF RelationAt
<1>4. IsLog(h) /\ \A i \in 1 .. Len(h) : h[i] = H[i]
  BY DEF Grows
<1>5. RelationAt(h, id) \in 1 .. Len(h)
  BY <1>2, <1>4, PlaceKnown DEF RelationAt
<1>6. Relation(H, id) = Relation(h, id)
  BY <1>3, <1>4, <1>5 DEF Relation
<1> QED  BY <1>3, <1>5, <1>6 DEF HasRelation

(***************************************************************************)
(* The events a place refers to are where the kind says.                   *)
(***************************************************************************)
LEMMA RecordFacts ==
    ASSUME NEW h, IsLog(h), NEW id, HasRecord(h, id)
    PROVE  /\ RecordAt(h, id) \in 1 .. Len(h)
           /\ RecordAt(h, id) \in Created(h, "record")
           /\ Record(h, id).id = id
BY PlaceKnown DEF HasRecord, RecordAt, Record

LEMMA RelationFacts ==
    ASSUME NEW h, IsLog(h), NEW id, HasRelation(h, id)
    PROVE  /\ RelationAt(h, id) \in 1 .. Len(h)
           /\ RelationAt(h, id) \in Created(h, "relation")
           /\ Relation(h, id).id = id
BY PlaceKnown DEF HasRelation, RelationAt, Relation

LEMMA RecordAtPlace ==
    ASSUME NEW h, IsLog(h), Unique(h), NEW i \in Created(h, "record")
    PROVE  RecordAt(h, h[i].id) = i /\ HasRecord(h, h[i].id) /\ Record(h, h[i].id) = h[i]
<1>1. "record" \in Kinds
  BY DEF Kinds
<1>2. RecordAt(h, h[i].id) = i
  BY <1>1, PlaceIs DEF RecordAt
<1>3. i \in 1 .. Len(h) /\ Len(h) \in Nat
  BY LogFacts DEF Created
<1> QED  BY <1>2, <1>3 DEF HasRecord, Record

-----------------------------------------------------------------------------
(***************************************************************************)
(* What the views ask of the records of each type, on the history before   *)
(* them; then of every event.                                              *)
(***************************************************************************)
RecordFits(p, e) ==
    /\ NewId(p, e.id)
    /\ PayloadContract(e.type, e.body)
    /\ e.type = "VerificationReceipt" => MayRecordReceipt(p, e.body)
    /\ e.type = "GateRequest"         => MayRequest(p, e.body)
    /\ e.type = "GateDecision"        => /\ MayEvaluate(p, e.body.request)
                                         /\ e.body = Evaluate(p, States(p), e.body.request)
    /\ e.type = "Release"             => MayRelease(p, States(p), e.body)
    /\ e.type = "RuntimeObservation"  => MayObserve(p, e.body)
    /\ e.type = "FeedbackCase"        => MayOpenCase(p, e.body)

RelationFits(p, e) == ~HasRelation(p, e.id) /\ HasRecord(p, e.source) /\ HasRecord(p, e.target)

InvalidationFits(p, e) ==
    LET case == ManagedCase(p, e.relation)
    IN  case # "" => SourcesUsable(p, States(p), case)

Fits(p, e) ==
    /\ e.ev \in {"record", "relation", "raw", "bound", "invalidated", "superseded"}
    /\ e.ev = "record"   => RecordFits(p, e)
    /\ e.ev = "relation" => RelationFits(p, e)
    /\ e.ev \in {"bound", "invalidated", "superseded"} => MayActivate(p, e.ev, e.relation)
    /\ e.ev = "invalidated" => InvalidationFits(p, e)

Written(h) == IsLog(h) /\ \A i \in DOMAIN h : Fits(Prefix(h, i - 1), h[i])

(***************************************************************************)
(* A written history grows by an event that fits.                          *)
(***************************************************************************)
LEMMA WrittenGrows ==
    ASSUME NEW h, Written(h), NEW e, Fits(h, e)
    PROVE  Written(Append(h, e))
<1> DEFINE a == Append(h, e)
<1>1. IsLog(h) /\ \A i \in DOMAIN h : Fits(Prefix(h, i - 1), h[i])
  BY DEF Written
<1>2. /\ IsLog(a) /\ Len(a) = Len(h) + 1
      /\ \A i \in 1 .. Len(h) : a[i] = h[i]
      /\ a[Len(h) + 1] = e
  BY <1>1, AppendFacts
<1>3. Len(h) \in Nat /\ DOMAIN h = 1 .. Len(h) /\ DOMAIN a = 1 .. Len(h) + 1
  BY <1>1, <1>2, LogFacts
<1>4. \A n \in 0 .. Len(h) : Prefix(a, n) = Prefix(h, n)
  BY <1>1, AppendGrows, PrefixOfGrown
<1>5. Prefix(h, Len(h)) = h
  BY <1>1, PrefixFull
<1> HIDE DEF a
<1>6. ASSUME NEW i \in DOMAIN a
      PROVE  Fits(Prefix(a, i - 1), a[i])
  <2>1. CASE i \in 1 .. Len(h)
    <3>1. i - 1 \in 0 .. Len(h)
      BY <1>3, <2>1
    <3> QED  BY <1>1, <1>2, <1>3, <1>4, <2>1, <3>1
  <2>2. CASE i = Len(h) + 1
    <3>1. i - 1 = Len(h) /\ Len(h) \in 0 .. Len(h)
      BY <1>3, <2>2
    <3>2. Prefix(a, i - 1) = h
      BY <1>4, <1>5, <3>1
    <3> QED  BY <1>2, <2>2, <3>2
  <2> QED  BY <1>3, <2>1, <2>2
<1> QED  BY <1>2, <1>6 DEF Written, a

(***************************************************************************)
(* So are its prefixes.                                                    *)
(***************************************************************************)
LEMMA WrittenPrefix ==
    ASSUME NEW h, Written(h), NEW n \in 0 .. Len(h)
    PROVE  Written(Prefix(h, n))
<1> DEFINE p == Prefix(h, n)
<1>1. IsLog(h) /\ \A i \in DOMAIN h : Fits(Prefix(h, i - 1), h[i])
  BY DEF Written
<1>2. IsLog(p) /\ Len(p) = n /\ (\A i \in 1 .. n : p[i] = h[i]) /\ Grows(p, h)
  BY <1>1, PrefixFacts, PrefixGrows
<1>3. Len(h) \in Nat /\ DOMAIN h = 1 .. Len(h) /\ DOMAIN p = 1 .. n
  BY <1>1, <1>2, LogFacts
<1>4. \A k \in 0 .. n : Prefix(h, k) = Prefix(p, k)
  BY <1>2, PrefixOfGrown
<1> HIDE DEF p
<1>5. \A i \in DOMAIN p : i \in DOMAIN h /\ i - 1 \in 0 .. n
  BY <1>3
<1> QED  BY <1>1, <1>2, <1>3, <1>4, <1>5 DEF Written, p

(***************************************************************************)
(* A written history has no id twice: each was new at its place.           *)
(***************************************************************************)
LEMMA WrittenUnique ==
    ASSUME NEW h, Written(h)
    PROVE  Unique(h)
<1>1. IsLog(h) /\ \A i \in DOMAIN h : Fits(Prefix(h, i - 1), h[i])
  BY DEF Written
<1>2. Len(h) \in Nat /\ DOMAIN h = 1 .. Len(h)
  BY <1>1, LogFacts
<1>3. ASSUME NEW ev \in Kinds, NEW i \in Created(h, ev), NEW j \in Created(h, ev),
             h[i].id = h[j].id, i < j
      PROVE  FALSE
  <2>1. i \in 1 .. Len(h) /\ j \in 1 .. Len(h) /\ h[i].ev = ev /\ h[j].ev = ev
    BY <1>2 DEF Created
  <2> DEFINE p == Prefix(h, j - 1)
  <2>2. j - 1 \in 0 .. Len(h) /\ i \in 1 .. j - 1
    BY <1>2, <1>3, <2>1
  <2>3. IsLog(p) /\ Len(p) = j - 1 /\ p[i] = h[i]
    BY <1>1, <2>2, PrefixFacts
  <2>4. Fits(p, h[j])
    BY <1>1, <1>2, <2>1
  <2> HIDE DEF p
  <2>5. i \in DOMAIN p
    BY <2>2, <2>3, LogFacts
  <2>6. PlaceOf(p, ev, h[j].id) # 0
    BY <1>3, <2>1, <2>3, <2>5, PlaceUnknown
  <2>7. CASE ev = "record"
    BY <2>1, <2>4, <2>6, <2>7 DEF Fits, RecordFits, NewId, HasRecord, RecordAt
  <2>8. CASE ev = "relation"
    BY <2>1, <2>4, <2>6, <2>8 DEF Fits, RelationFits, HasRelation, RelationAt
  <2> QED  BY <2>7, <2>8 DEF Kinds
<1>4. \A ev : \A i \in Created(h, ev) : i \in Int
  BY <1>2 DEF Created
<1>5. ASSUME NEW ev \in Kinds, NEW i \in Created(h, ev), NEW j \in Created(h, ev),
             h[i].id = h[j].id
      PROVE  i = j
  <2>1. i \in Int /\ j \in Int
    BY <1>4
  <2>2. ~(i < j)
    BY <1>3, <1>5
  <2>3. ~(j < i)
    BY <1>3, <1>5
  <2> QED  BY <2>1, <2>2, <2>3
<1> QED  BY <1>5 DEF Unique

(***************************************************************************)
(* What is known of the event at a place and of the history before it.     *)
(***************************************************************************)
LEMMA AtPlace ==
    ASSUME NEW h, Written(h), NEW i \in DOMAIN h
    PROVE  /\ IsLog(h) /\ Unique(h) /\ i \in 1 .. Len(h) /\ Len(h) \in Nat
           /\ Fits(Prefix(h, i - 1), h[i])
           /\ Written(Prefix(h, i - 1)) /\ IsLog(Prefix(h, i - 1)) /\ Unique(Prefix(h, i - 1))
           /\ DOMAIN Prefix(h, i - 1) = 1 .. i - 1 /\ Len(Prefix(h, i - 1)) = i - 1
           /\ \A j \in 1 .. i - 1 : Prefix(h, i - 1)[j] = h[j]
           /\ Grows(Prefix(h, i - 1), h)
<1> DEFINE p == Prefix(h, i - 1)
<1>1. IsLog(h) /\ Fits(p, h[i])
  BY DEF Written
<1>2. Len(h) \in Nat /\ DOMAIN h = 1 .. Len(h) /\ i \in 1 .. Len(h)
  BY <1>1, LogFacts
<1>3. i - 1 \in 0 .. Len(h)
  BY <1>2
<1>4. IsLog(p) /\ Len(p) = i - 1 /\ \A j \in 1 .. i - 1 : p[j] = h[j]
  BY <1>1, <1>3, PrefixFacts
<1>5. Grows(p, h) /\ Written(p)
  BY <1>1, <1>3, PrefixGrows, WrittenPrefix
<1>6. Unique(h) /\ Unique(p)
  BY <1>5, WrittenUnique
<1>7. DOMAIN p = 1 .. i - 1
  BY <1>4, LogFacts
<1> QED  BY <1>1, <1>2, <1>4, <1>5, <1>6, <1>7

(***************************************************************************)
(* The graph: every relation connects records that exist before it.        *)
(***************************************************************************)
LEMMA RelationEnds ==
    ASSUME NEW h, Written(h), NEW i \in Created(h, "relation")
    PROVE  /\ HasRecord(h, h[i].source) /\ RecordAt(h, h[i].source) \in 1 .. i - 1
           /\ HasRecord(h, h[i].target) /\ RecordAt(h, h[i].target) \in 1 .. i - 1
<1> DEFINE p == Prefix(h, i - 1)
<1>1. i \in DOMAIN h /\ h[i].ev = "relation"
  BY DEF Created
<1>2. /\ Grows(p, h) /\ Unique(h) /\ Fits(p, h[i]) /\ Len(p) = i - 1
  BY <1>1, AtPlace
<1> HIDE DEF p
<1>3. HasRecord(p, h[i].source) /\ HasRecord(p, h[i].target)
  BY <1>1, <1>2 DEF Fits, RelationFits
<1> QED  BY <1>2, <1>3, RecordStays

LEMMA EndsOf ==
    ASSUME NEW h, Written(h), NEW rel, HasRelation(h, rel)
    PROVE  HasRecord(h, Relation(h, rel).source) /\ HasRecord(h, Relation(h, rel).target)
<1>1. IsLog(h)
  BY DEF Written
<1>2. RelationAt(h, rel) \in Created(h, "relation")
  BY <1>1, RelationFacts
<1> QED  BY <1>2, RelationEnds DEF Relation

LEMMA GraphOfWritten ==
    ASSUME NEW h, Written(h)
    PROVE  GraphReplays(h)
<1>1. Created(h, "malformed") = {}
  BY DEF Written, Fits, Created
<1>2. \A i \in Created(h, "record") : PayloadContract(h[i].type, h[i].body)
  BY DEF Written, Fits, RecordFits, Created
<1>3. \A ev \in {"record", "relation"} : \A i, j \in Created(h, ev) :
           h[i].id = h[j].id => i = j
  BY WrittenUnique DEF Unique, Kinds
<1> QED  BY <1>1, <1>2, <1>3, RelationEnds DEF GraphReplays

-----------------------------------------------------------------------------
(***************************************************************************)
(* An activation's relation, and its ends, exist before it.                *)
(***************************************************************************)
LEMMA RelOfStays ==
    ASSUME NEW h, Written(h), NEW H, Grows(h, H), Unique(H), NEW k \in Activations(h)
    PROVE  /\ HasRelation(h, h[k].relation)
           /\ RelationAt(h, h[k].relation) \in 1 .. k - 1
           /\ RelOf(h, k).id = h[k].relation
           /\ RelOf(H, k) = RelOf(h, k)
           /\ HasRecord(h, RelOf(h, k).source) /\ HasRecord(h, RelOf(h, k).target)
           /\ RelOf(h, k).type = RelationTypeFor[h[k].ev]
           /\ RelOf(h, k).source # RelOf(h, k).target
<1> DEFINE p == Prefix(h, k - 1)
           rel == h[k].relation
<1>1. k \in DOMAIN h /\ h[k].ev \in {"bound", "invalidated", "superseded"}
  BY DEF Activations, RelationTypeFor
<1>2. /\ Grows(p, h) /\ Unique(h) /\ IsLog(h) /\ IsLog(p) /\ Fits(p, h[k]) /\ Len(p) = k - 1
      /\ k \in 1 .. Len(h)
  BY <1>1, AtPlace
<1> HIDE DEF p
<1>3. HasRelation(p, rel) /\ MayActivate(p, h[k].ev, rel)
  BY <1>1, <1>2 DEF Fits, MayActivate
<1>4. /\ HasRelation(h, rel) /\ RelationAt(h, rel) \in 1 .. k - 1
      /\ Relation(h, rel) = Relation(p, rel)
  BY <1>2, <1>3, RelationStays
<1>5. Relation(h, rel).id = rel
  BY <1>2, <1>4, RelationFacts
<1>6. HasRecord(h, Relation(h, rel).source) /\ HasRecord(h, Relation(h, rel).target)
  BY <1>4, EndsOf
<1>7. H[k] = h[k]
  BY <1>2 DEF Grows
<1>8. Relation(H, rel) = Relation(h, rel)
  BY <1>4, RelationStays
<1>9. /\ Relation(h, rel).type = RelationTypeFor[h[k].ev]
      /\ Relation(h, rel).source # Relation(h, rel).target
  BY <1>3, <1>4 DEF MayActivate
<1> QED  BY <1>4, <1>5, <1>6, <1>7, <1>8, <1>9 DEF RelOf

LEMMA ActivationOfWritten ==
    ASSUME NEW h, Written(h), NEW i \in Activations(h)
    PROVE  ActivationReplays(h, i)
<1> DEFINE p == Prefix(h, i - 1)
           rel == RelOf(h, i)
<1>1. i \in DOMAIN h /\ h[i].ev \in {"bound", "invalidated", "superseded"}
  BY DEF Activations, RelationTypeFor
<1>2. /\ IsLog(h) /\ Unique(h) /\ i \in 1 .. Len(h) /\ Len(h) \in Nat
      /\ Fits(p, h[i]) /\ Written(p) /\ DOMAIN p = 1 .. i - 1 /\ Len(p) = i - 1
      /\ Grows(p, h) /\ DOMAIN h = 1 .. Len(h)
      /\ \A j \in 1 .. i - 1 : p[j] = h[j]
  BY <1>1, AtPlace, LogFacts
<1>3. Grows(h, h)
  BY <1>2 DEF Grows
<1>4. /\ RelationAt(h, h[i].relation) \in 1 .. i - 1
      /\ rel.id = h[i].relation
      /\ rel.type = RelationTypeFor[h[i].ev] /\ rel.source # rel.target
  BY <1>2, <1>3, RelOfStays
<1> HIDE DEF p
<1>5. MayActivate(p, h[i].ev, h[i].relation)
  BY <1>1, <1>2 DEF Fits
<1>6. ASSUME NEW j \in Activations(h), j < i
      PROVE  h[j].relation # rel.id
  <2>1. j \in 1 .. i - 1 /\ p[j] = h[j]
    BY <1>2, <1>6 DEF Activations
  <2>2. j \in Activations(p)
    BY <1>2, <2>1 DEF Activations
  <2>3. ~Activated(p, h[i].relation)
    BY <1>5 DEF MayActivate
  <2> QED  BY <1>4, <2>1, <2>2, <2>3 DEF Activated
<1>7. ASSUME h[i].ev = "superseded"
      PROVE  SupersessionAllowed(h, rel, Created(p, "superseded"))
  <2>1. HasRelation(p, h[i].relation)
    BY <1>5 DEF MayActivate
  <2>2. Relation(p, h[i].relation) = rel
    BY <1>2, <2>1, RelationStays DEF RelOf
  <2>3. HasRecord(p, rel.source) /\ HasRecord(p, rel.target)
    BY <1>2, <2>1, <2>2, EndsOf
  <2>4. SupersessionAllowed(p, rel, Created(p, "superseded"))
    BY <1>5, <1>7, <2>2 DEF MayActivate
  <2>5. /\ Record(h, rel.source) = Record(p, rel.source)
        /\ Record(h, rel.target) = Record(p, rel.target)
        /\ RecordAt(h, rel.source) = RecordAt(p, rel.source)
        /\ RecordAt(h, rel.target) = RecordAt(p, rel.target)
    BY <1>2, <2>3, RecordStays
  <2>6. \A k \in Created(p, "superseded") : RelOf(h, k) = RelOf(p, k)
    <3>1. \A k \in Created(p, "superseded") : k \in Activations(p)
      BY DEF Created, Activations, RelationTypeFor
    <3> QED  BY <1>2, <3>1, RelOfStays
  <2> HIDE DEF rel
  <2> QED  BY <2>4, <2>5, <2>6 DEF SupersessionAllowed
<1> QED  BY <1>4, <1>6, <1>7 DEF ActivationReplays, p

-----------------------------------------------------------------------------
(***************************************************************************)
(* What a builder asked of the history before a record, the replay finds   *)
(* in the whole history.                                                   *)
(***************************************************************************)
LEMMA BoundStays ==
    ASSUME NEW h, NEW H, Grows(h, H), Unique(H), NEW i, i = Len(h) + 1, NEW id
    PROVE  /\ HasRecord(h, id) => BoundBefore(H, i, id)
           /\ \A type : IsOfType(h, id, type) => BoundAs(H, i, id, type)
<1>1. Len(h) \in Nat
  BY LogFacts DEF Grows
<1>2. HasRecord(h, id) => /\ BoundBefore(H, i, id)
                          /\ Record(H, id) = Record(h, id)
  BY <1>1, RecordStays DEF BoundBefore
<1> QED  BY <1>2 DEF BoundAs, IsOfType

LEMMA RecordOfWritten ==
    ASSUME NEW h, Written(h), NEW i \in Created(h, "record")
    PROVE  /\ h[i].type = "VerificationReceipt" => ReceiptReplays(h, i)
           /\ h[i].type = "GateRequest"         => RequestReplays(h, i)
           /\ h[i].type = "GateDecision"        => DecisionReplays(h, i)
           /\ h[i].type = "Release"             => ReleaseReplays(h, i)
           /\ h[i].type = "RuntimeObservation"  => ObservationReplays(h, i)
           /\ h[i].type = "FeedbackCase"        => CaseReplays(h, i)
<1> DEFINE p == Prefix(h, i - 1)
           b == h[i].body
<1>1. i \in DOMAIN h /\ h[i].ev = "record"
  BY DEF Created
<1>2. /\ IsLog(h) /\ Unique(h) /\ i \in 1 .. Len(h) /\ Len(h) \in Nat
      /\ Fits(p, h[i]) /\ DOMAIN p = 1 .. i - 1 /\ Len(p) = i - 1
      /\ Grows(p, h) /\ DOMAIN h = 1 .. Len(h)
      /\ \A j \in 1 .. i - 1 : p[j] = h[j]
  BY <1>1, AtPlace, LogFacts
<1>3. i = Len(p) + 1
  BY <1>2
<1> HIDE DEF p
<1>4. RecordFits(p, h[i])
  BY <1>1, <1>2 DEF Fits
<1>5. \A id : /\ HasRecord(p, id) => BoundBefore(h, i, id)
              /\ \A type : IsOfType(p, id, type) => BoundAs(h, i, id, type)
              /\ HasRecord(p, id) => Body(h, id) = Body(p, id)
  BY <1>2, <1>3, BoundStays, RecordStays
<1>6. \A id, type : IsOfType(p, id, type) => HasRecord(p, id)
  BY DEF IsOfType
<1>7. h[i].type = "VerificationReceipt" => ReceiptReplays(h, i)
  BY <1>4, <1>5 DEF RecordFits, MayRecordReceipt, ReceiptReplays
<1>8. h[i].type = "GateRequest" => RequestReplays(h, i)
  BY <1>4, <1>5, <1>6 DEF RecordFits, MayRequest, RequestReplays
<1>9. ASSUME h[i].type = "GateDecision"
      PROVE  DecisionReplays(h, i)
  <2>1. MayEvaluate(p, b.request) /\ b = Evaluate(p, States(p), b.request)
    BY <1>4, <1>9 DEF RecordFits
  <2>2. ASSUME NEW j \in DecisionsOn(h, b.request), ~(j >= i)
        PROVE  FALSE
    <3>1. j \in DOMAIN h /\ h[j].ev = "record" /\ h[j].type = "GateDecision"
          /\ h[j].body.request = b.request
      BY DEF DecisionsOn, Created
    <3>2. j \in 1 .. i - 1 /\ p[j] = h[j]
      BY <1>2, <2>2, <3>1
    <3>3. j \in DecisionsOn(p, b.request)
      BY <1>2, <3>1, <3>2 DEF DecisionsOn, Created
    <3> QED  BY <2>1, <3>3 DEF MayEvaluate
  <2> QED  BY <2>1, <2>2 DEF DecisionReplays, MayEvaluate, p
<1>10. h[i].type = "Release" => ReleaseReplays(h, i)
  BY <1>4 DEF RecordFits, MayRelease, ReleaseReplays, p
<1>11. h[i].type = "RuntimeObservation" => ObservationReplays(h, i)
  BY <1>4, <1>5 DEF RecordFits, MayObserve, ObservationReplays
<1>12. h[i].type = "FeedbackCase" => CaseReplays(h, i)
  BY <1>4, <1>5 DEF RecordFits, MayOpenCase, CaseReplays
<1> QED  BY <1>7, <1>8, <1>9, <1>10, <1>11, <1>12

(***************************************************************************)
(* The case that manages a relation was its case when it was qualified.    *)
(***************************************************************************)
LEMMA ManagedStays ==
    ASSUME NEW h, Written(h), NEW H, Grows(h, H), Unique(H), NEW rel, HasRelation(h, rel)
    PROVE  ManagedCase(H, rel) = ManagedCase(h, rel)
<1>1. Relation(H, rel) = Relation(h, rel)
  BY RelationStays
<1>2. HasRecord(h, Relation(h, rel).source)
  BY EndsOf
<1>3. Record(H, Relation(h, rel).source) = Record(h, Relation(h, rel).source)
  BY <1>2, RecordStays
<1> QED  BY <1>1, <1>3 DEF ManagedCase

LEMMA QualificationsOfWritten ==
    ASSUME NEW h, Written(h), CasesCompatible(h)
    PROVE  QualificationsReplay(h)
<1>1. ASSUME NEW i \in Created(h, "invalidated")
      PROVE  InvalidationFits(Prefix(h, i - 1), h[i])
             /\ ManagedCase(h, h[i].relation) = ManagedCase(Prefix(h, i - 1), h[i].relation)
  <2> DEFINE p == Prefix(h, i - 1)
  <2>1. i \in DOMAIN h /\ h[i].ev = "invalidated"
    BY DEF Created
  <2>2. Fits(p, h[i]) /\ Written(p) /\ Grows(p, h) /\ Unique(h)
    BY <2>1, AtPlace
  <2> HIDE DEF p
  <2>3. InvalidationFits(p, h[i]) /\ HasRelation(p, h[i].relation)
    BY <2>1, <2>2 DEF Fits, MayActivate
  <2>4. ManagedCase(h, h[i].relation) = ManagedCase(p, h[i].relation)
    BY <2>2, <2>3, ManagedStays
  <2> QED  BY <2>3, <2>4 DEF p
<1> QED  BY <1>1 DEF QualificationsReplay, InvalidationFits

(***************************************************************************)
(* The projections replay what was written, unless an incompatible         *)
(* relation has the id of a case's.                                        *)
(***************************************************************************)
THEOREM WrittenReplays ==
    ASSUME NEW h, Written(h), CasesCompatible(h)
    PROVE  M05Replays(h)
<1>1. StateReplays(h)
  BY GraphOfWritten, ActivationOfWritten DEF StateReplays
<1>2. GatesReplay(h)
  BY <1>1, RecordOfWritten DEF GatesReplay
<1> QED  BY <1>2, RecordOfWritten, QualificationsOfWritten DEF M05Replays

-----------------------------------------------------------------------------
(***************************************************************************)
(* What a typed call accepts and builds on a history fits it.              *)
(***************************************************************************)
THEOREM AcceptedFits ==
    ASSUME NEW h, NEW k, k.op \in TypedOperations, Accepts(h, States(h), k)
    PROVE  Fits(h, EventOf(h, States(h), k))
<1> DEFINE st == States(h)
           e  == EventOf(h, st, k)
<1>1. Allowed(h, st, k)
  BY DEF Accepts
<1>2. k.op \in {"create_record", "create_relation"} \/ k.op \in DOMAIN TypeWritten
      \/ k.op \in DOMAIN ActivationOf
  BY DEF TypedOperations
<1>a. /\ DOMAIN TypeWritten = {"record_verification", "register_policy_snapshot", "request_gate",
                              "evaluate_gate", "register_release", "record_runtime_observation",
                              "open_feedback_case"}
      /\ DOMAIN ActivationOf = {"bind_dependency", "invalidate", "supersede"}
  BY DEF TypeWritten, ActivationOf
<1> HIDE DEF st
<1>3. CASE k.op = "create_record"
  <2>1. e = [ev |-> "record", id |-> k.id, type |-> k.type, body |-> <<>>]
    <3>1. k.op \notin DOMAIN TypeWritten /\ k.op \notin DOMAIN ActivationOf
          /\ k.op # "create_relation"
      BY <1>3, <1>a
    <3> QED  BY <1>3, <3>1 DEF EventOf, RecordEvent
  <2>2. k.type \notin ReservedTypes /\ NewId(h, k.id)
    BY <1>3 DEF Accepts
  <2>3. PayloadContract(k.type, <<>>)
    BY <2>2 DEF ReservedTypes, SemanticTypes, PayloadContract
  <2>4. /\ e.ev = "record" /\ e.id = k.id /\ e.type = k.type /\ e.body = <<>>
    BY <2>1
  <2> HIDE DEF e
  <2>5. RecordFits(h, e)
    BY <2>2, <2>3, <2>4 DEF RecordFits, ReservedTypes, SemanticTypes
  <2>6. Fits(h, e)
    BY <2>4, <2>5 DEF Fits
  <2> QED  BY <2>6 DEF e, st
<1>4. CASE k.op = "create_relation"
  <2>1. e = [ev |-> "relation", id |-> k.id, type |-> k.type,
             source |-> k.source, target |-> k.target, case |-> ""]
    <3>1. k.op \notin DOMAIN TypeWritten /\ k.op \notin DOMAIN ActivationOf
          /\ k.op # "create_record"
      BY <1>4, <1>a
    <3> QED  BY <1>4, <3>1 DEF EventOf
  <2>2. HasRecord(h, k.source) /\ HasRecord(h, k.target) /\ ~HasRelation(h, k.id)
    BY <1>1, <1>4 DEF Allowed
  <2> HIDE DEF e
  <2>3. e.ev = "relation" /\ e.id = k.id /\ e.source = k.source /\ e.target = k.target
    BY <2>1
  <2>4. Fits(h, e)
    BY <2>2, <2>3 DEF Fits, RelationFits
  <2> QED  BY <2>4 DEF e, st
<1>5. CASE k.op \in DOMAIN ActivationOf
  <2>1. k.op \in {"bind_dependency", "invalidate", "supersede"}
    BY <1>5 DEF ActivationOf
  <2>2. e = [ev |-> ActivationOf[k.op], relation |-> k.relation]
    <3>1. k.op \notin DOMAIN TypeWritten /\ k.op \notin {"create_record", "create_relation"}
      BY <2>1, <1>a
    <3> QED  BY <1>5, <3>1 DEF EventOf
  <2>3. e.ev = ActivationOf[k.op] /\ e.relation = k.relation
    BY <2>2
  <2>4. MayActivate(h, ActivationOf[k.op], k.relation)
    BY <1>1, <2>1 DEF Allowed, ActivationOf
  <2>5. ActivationOf[k.op] = "invalidated" => ManagedCase(h, k.relation) = ""
    <3>1. ActivationOf[k.op] = "invalidated" => k.op = "invalidate"
      BY <2>1 DEF ActivationOf
    <3>2. k.op = "invalidate" => NotManaged(h, k.relation)
      BY <1>1 DEF Allowed
    <3> QED  BY <3>1, <3>2 DEF NotManaged
  <2>6. ActivationOf[k.op] \in {"bound", "invalidated", "superseded"}
    BY <2>1 DEF ActivationOf
  <2> HIDE DEF e
  <2>7. Fits(h, e)
    BY <2>3, <2>4, <2>5, <2>6 DEF Fits, InvalidationFits
  <2> QED  BY <2>7 DEF e, st
<1>6. CASE k.op \in DOMAIN TypeWritten
  <2> DEFINE type == TypeWritten[k.op]
             body == BodyOf(h, st, k)
  <2>1. k.op \in {"record_verification", "register_policy_snapshot", "request_gate",
                  "evaluate_gate", "register_release", "record_runtime_observation",
                  "open_feedback_case"}
    BY <1>6 DEF TypeWritten
  <2>2. e = [ev |-> "record", id |-> k.id, type |-> type, body |-> body]
    <3>1. k.op \notin DOMAIN ActivationOf /\ k.op \notin {"create_record", "create_relation"}
      BY <2>1, <1>a
    <3> QED  BY <1>6, <3>1 DEF EventOf, RecordEvent
  <2>3. e.ev = "record" /\ e.id = k.id /\ e.type = type /\ e.body = body
    BY <2>2
  <2>4. PayloadContract(type, body) /\ NewId(h, k.id)
    BY <1>6 DEF Accepts, st
  <2>5. /\ type = "VerificationReceipt" <=> k.op = "record_verification"
        /\ type = "GateRequest"         <=> k.op = "request_gate"
        /\ type = "GateDecision"        <=> k.op = "evaluate_gate"
        /\ type = "Release"             <=> k.op = "register_release"
        /\ type = "RuntimeObservation"  <=> k.op = "record_runtime_observation"
        /\ type = "FeedbackCase"        <=> k.op = "open_feedback_case"
    BY <2>1 DEF TypeWritten
  <2>6. k.op # "evaluate_gate" => body = k.body
    BY DEF BodyOf
  <2>7. k.op = "evaluate_gate" => body = Evaluate(h, st, k.request)
                                  /\ body.request = k.request
    BY DEF BodyOf, Evaluate
  <2> HIDE DEF e, type, body
  <2>8. e.type = "VerificationReceipt" => MayRecordReceipt(h, e.body)
    BY <1>1, <2>3, <2>5, <2>6 DEF Allowed
  <2>9. e.type = "GateRequest" => MayRequest(h, e.body)
    BY <1>1, <2>3, <2>5, <2>6 DEF Allowed
  <2>10. e.type = "GateDecision" => /\ MayEvaluate(h, e.body.request)
                                    /\ e.body = Evaluate(h, st, e.body.request)
    <3>1. k.op = "evaluate_gate" => MayEvaluate(h, k.request)
      BY <1>1 DEF Allowed
    <3> QED  BY <2>3, <2>5, <2>7, <3>1
  <2>11. e.type = "Release" => MayRelease(h, st, e.body)
    BY <1>1, <2>3, <2>5, <2>6 DEF Allowed
  <2>12. e.type = "RuntimeObservation" => MayObserve(h, e.body)
    BY <1>1, <2>3, <2>5, <2>6 DEF Allowed
  <2>13. e.type = "FeedbackCase" => MayOpenCase(h, e.body)
    BY <1>1, <2>3, <2>5, <2>6 DEF Allowed
  <2>14. RecordFits(h, e)
    BY <2>3, <2>4, <2>8, <2>9, <2>10, <2>11, <2>12, <2>13 DEF RecordFits, st
  <2>15. Fits(h, e)
    BY <2>3, <2>14 DEF Fits
  <2> QED  BY <2>15 DEF e, st
<1> QED  BY <1>2, <1>3, <1>4, <1>5, <1>6

(***************************************************************************)
(* The two events of apply_feedback fit.  The relation: the case's target  *)
(* was there when the case was opened.                                     *)
(***************************************************************************)
LEMMA CaseTarget ==
    ASSUME NEW h, Written(h), NEW case, IsOfType(h, case, "FeedbackCase")
    PROVE  /\ HasRecord(h, case) /\ RecordAt(h, case) \in Records(h, "FeedbackCase")
           /\ Record(h, case).id = case
           /\ HasRecord(h, Body(h, case).target)
           /\ IsOfType(h, Body(h, case).observation, "RuntimeObservation")
<1> DEFINE i == RecordAt(h, case)
<1>1. IsLog(h) /\ HasRecord(h, case) /\ h[i].type = "FeedbackCase"
  BY DEF Written, IsOfType, Record
<1>2. i \in Created(h, "record") /\ Record(h, case).id = case
  BY <1>1, RecordFacts
<1>3. CaseReplays(h, i)
  BY <1>1, <1>2, RecordOfWritten
<1>4. Body(h, case) = h[i].body
  BY DEF Body, Record
<1>5. \A id : BoundBefore(h, i, id) => HasRecord(h, id)
  <2>1. i \in Nat
    BY <1>1, <1>2, LogFacts DEF Created
  <2> QED  BY <2>1 DEF BoundBefore, HasRecord
<1> HIDE DEF i
<1> QED  BY <1>1, <1>2, <1>3, <1>4, <1>5 DEF Records, CaseReplays, BoundAs, IsOfType, i

LEMMA ProposalFits ==
    ASSUME NEW h, Written(h), NEW case, IsOfType(h, case, "FeedbackCase"),
           ~HasRelation(h, FeedbackRelationId[case])
    PROVE  Fits(h, FeedbackRelation(h, case))
BY CaseTarget DEF Fits, RelationFits, FeedbackRelation

(***************************************************************************)
(* The invalidation: on a readable history a relation under the case's id  *)
(* leads from the case, so no other case manages it.                       *)
(***************************************************************************)
LEMMA QualificationFits ==
    ASSUME NEW h, Written(h), CasesCompatible(h), NEW case,
           IsOfType(h, case, "FeedbackCase"),
           SourcesUsable(h, States(h), case),
           MayActivate(h, "invalidated", FeedbackRelationId[case])
    PROVE  Fits(h, [ev |-> "invalidated", relation |-> FeedbackRelationId[case]])
<1> DEFINE e == [ev |-> "invalidated", relation |-> FeedbackRelationId[case]]
<1>1. HasRelation(h, FeedbackRelationId[case])
  BY DEF MayActivate
<1>2. RecordAt(h, case) \in Records(h, "FeedbackCase") /\ Record(h, case).id = case
  BY CaseTarget
<1>3. Compatible(h, case)
  BY <1>1, <1>2 DEF CasesCompatible, Record
<1>4. Relation(h, FeedbackRelationId[case]).source = case
  BY <1>3 DEF Compatible, FeedbackRelation
<1>5. ManagedCase(h, FeedbackRelationId[case]) \in {case, ""}
  BY <1>4 DEF ManagedCase
<1>6. e.ev = "invalidated" /\ e.relation = FeedbackRelationId[case]
  OBVIOUS
<1> HIDE DEF e
<1>7. Fits(h, e)
  BY <1>5, <1>6 DEF Fits, InvalidationFits
<1> QED  BY <1>7 DEF e

(***************************************************************************)
(* An occupied id stays occupied.                                          *)
(***************************************************************************)
LEMMA OccupiedStays ==
    ASSUME NEW h, NEW H, Grows(h, H), Unique(h), Unique(H), ~CasesCompatible(h)
    PROVE  ~CasesCompatible(H)
<1>1. PICK i \in Records(h, "FeedbackCase") :
          HasRelation(h, FeedbackRelationId[h[i].id]) /\ ~Compatible(h, h[i].id)
  BY DEF CasesCompatible
<1>2. /\ IsLog(h) /\ i \in Created(h, "record") /\ i \in 1 .. Len(h) /\ i \in DOMAIN H
      /\ H[i] = h[i]
  BY LogFacts DEF Grows, Records, Created
<1>3. HasRecord(h, h[i].id)
  BY <1>2, RecordAtPlace
<1>4. Body(H, h[i].id) = Body(h, h[i].id)
  BY <1>3, RecordStays
<1>5. /\ HasRelation(H, FeedbackRelationId[h[i].id])
      /\ Relation(H, FeedbackRelationId[h[i].id]) = Relation(h, FeedbackRelationId[h[i].id])
  BY <1>1, RelationStays
<1>6. ~Compatible(H, H[i].id)
  BY <1>1, <1>2, <1>4, <1>5 DEF Compatible, FeedbackRelation
<1>7. i \in Records(H, "FeedbackCase")
  BY <1>2 DEF Records, Created
<1> QED  BY <1>2, <1>5, <1>6, <1>7 DEF CasesCompatible

(***************************************************************************)
(* An applied case stays applied.                                          *)
(***************************************************************************)
LEMMA AppliedStays ==
    ASSUME NEW h, NEW H, Grows(h, H), Unique(H), NEW case,
           ApplicationState(h, case) = "applied"
    PROVE  ApplicationState(H, case) = "applied"
<1>1. /\ HasRelation(h, FeedbackRelationId[case])
      /\ \E i \in Created(h, "invalidated") : h[i].relation = FeedbackRelationId[case]
  BY DEF ApplicationState
<1>2. PICK i \in Created(h, "invalidated") : h[i].relation = FeedbackRelationId[case]
  BY <1>1
<1>3. i \in Created(H, "invalidated") /\ H[i] = h[i]
  BY LogFacts DEF Grows, Created
<1> QED  BY <1>1, <1>2, <1>3, RelationStays DEF ApplicationState

-----------------------------------------------------------------------------
(***************************************************************************)
(* A decision is an evaluation of its request over the history before it.  *)
(* If none of its inputs moved since, evaluating the request again, over   *)
(* any later history, gives the same reasons: every record an evaluation   *)
(* looks at is an input.                                                   *)
(***************************************************************************)
LEMMA EvaluatedBefore ==
    ASSUME NEW h, Written(h), NEW d, IsOfType(h, d, "GateDecision")
    PROVE  \E p : /\ Written(p) /\ Grows(p, h)
                  /\ MayEvaluate(p, Body(h, d).request)
                  /\ Body(h, d) = Evaluate(p, States(p), Body(h, d).request)
<1> DEFINE i == RecordAt(h, d)
           p == Prefix(h, i - 1)
<1>1. IsLog(h) /\ HasRecord(h, d) /\ h[i].type = "GateDecision" /\ Body(h, d) = h[i].body
  BY DEF Written, IsOfType, Record, Body
<1>2. i \in DOMAIN h /\ h[i].ev = "record"
  BY <1>1, RecordFacts DEF Created
<1> HIDE DEF i
<1>3. Written(p) /\ Grows(p, h) /\ Fits(p, h[i])
  BY <1>2, AtPlace
<1> HIDE DEF p
<1>4. RecordFits(p, h[i])
  BY <1>2, <1>3 DEF Fits
<1> QED  BY <1>1, <1>3, <1>4 DEF RecordFits

LEMMA RequestStays ==
    ASSUME NEW h, NEW H, Grows(h, H), Unique(H), NEW q, MayEvaluate(h, q)
    PROVE  /\ Body(H, q) = Body(h, q)
           /\ Body(H, Body(h, q).policy) = Body(h, Body(h, q).policy)
           /\ \A r \in Body(h, q).receipts : Body(H, r) = Body(h, r)
           /\ Inputs(H, q) = Inputs(h, q)
<1>1. IsLog(h) /\ HasRecord(h, q) /\ RequestReplays(h, RecordAt(h, q))
  BY DEF MayEvaluate, IsOfType, Grows
<1>2. h[RecordAt(h, q)].body = Body(h, q)
  BY DEF Body, Record
<1>3. RecordAt(h, q) \in Nat
  BY <1>1, RecordFacts, LogFacts
<1>4. \A id : BoundBefore(h, RecordAt(h, q), id) => HasRecord(h, id)
  BY <1>3 DEF BoundBefore, HasRecord
<1>5. HasRecord(h, Body(h, q).policy) /\ \A r \in Body(h, q).receipts : HasRecord(h, r)
  BY <1>1, <1>2, <1>4 DEF RequestReplays, BoundAs
<1>6. /\ Body(H, q) = Body(h, q)
      /\ Body(H, Body(h, q).policy) = Body(h, Body(h, q).policy)
      /\ \A r \in Body(h, q).receipts : Body(H, r) = Body(h, r)
  BY <1>1, <1>5, RecordStays
<1>7. Inputs(H, q) = Inputs(h, q)
  <2>1. {Body(H, r).evidence : r \in Body(h, q).receipts}
            = {Body(h, r).evidence : r \in Body(h, q).receipts}
    BY <1>6
  <2> QED  BY <1>6, <2>1 DEF Inputs
<1> QED  BY <1>6, <1>7

LEMMA SameReasons ==
    ASSUME NEW h, NEW H, Grows(h, H), Unique(H), NEW q, MayEvaluate(h, q),
           NEW st, NEW later, \A x \in Inputs(h, q) : later[x] = st[x]
    PROVE  Reasons(H, later, q) = Reasons(h, st, q)
<1> DEFINE b    == Body(h, q)
           need == Body(h, b.policy).requirements
<1>1. /\ Body(H, q) = b
      /\ Body(H, b.policy) = Body(h, b.policy)
      /\ \A r \in b.receipts : Body(H, r) = Body(h, r)
      /\ Inputs(H, q) = Inputs(h, q)
  BY RequestStays
<1>2. /\ \A r \in b.receipts : r \in Inputs(h, q)
      /\ \A r \in b.receipts : \A e \in Body(h, r).evidence : e \in Inputs(h, q)
  BY DEF Inputs
<1>3. \A c : Eligible(H, later, q, c) = Eligible(h, st, q, c)
  BY <1>1, <1>2 DEF Eligible
<1>4. {<<"input_not_usable", i>> : i \in {j \in Inputs(H, q) : ~Usable(later[j])}}
          = {<<"input_not_usable", i>> : i \in {j \in Inputs(h, q) : ~Usable(st[j])}}
  BY <1>1
<1>5. {<<"receipt_not_pass", r>> : r \in {x \in b.receipts : Body(H, x).result # "pass"}}
          = {<<"receipt_not_pass", r>> : r \in {x \in b.receipts : Body(h, x).result # "pass"}}
  BY <1>1
<1>6. {<<"requirement_unsatisfied", c>> :
          c \in {d \in DOMAIN need : Cardinality(Eligible(H, later, q, d)) < need[d]}}
          = {<<"requirement_unsatisfied", c>> :
                c \in {d \in DOMAIN need : Cardinality(Eligible(h, st, q, d)) < need[d]}}
  BY <1>3
<1> QED  BY <1>1, <1>4, <1>5, <1>6 DEF Reasons

LEMMA PermitEarned ==
    ASSUME NEW h, Written(h), NEW d, IsOfType(h, d, "GateDecision"), NEW st,
           DecisionFresh(h, st, d), Body(h, d).outcome = "permit"
    PROVE  /\ Reasons(h, st, Body(h, d).request) = {}
           /\ Body(h, d).subject = Body(h, Body(h, d).request).subject
<1> DEFINE q == Body(h, d).request
<1>1. PICK p : /\ Written(p) /\ Grows(p, h) /\ MayEvaluate(p, q)
               /\ Body(h, d) = Evaluate(p, States(p), q)
  BY EvaluatedBefore
<1> DEFINE sp == States(p)
<1>2. Unique(h)
  BY WrittenUnique
<1> HIDE DEF q, sp
<1>3. /\ Body(h, d).inputs = [x \in Inputs(p, q) |-> sp[x]]
      /\ Body(h, d).subject = Body(p, q).subject
      /\ Body(h, d).outcome = IF Reasons(p, sp, q) = {} THEN "permit" ELSE "block"
  BY <1>1 DEF Evaluate, sp
<1>4. \A x \in Inputs(p, q) : st[x] = sp[x]
  BY <1>3 DEF DecisionFresh
<1>5. Reasons(h, st, q) = Reasons(p, sp, q)
  BY <1>1, <1>2, <1>4, SameReasons
<1>6. Body(h, q) = Body(p, q)
  BY <1>1, <1>2, RequestStays
<1> QED  BY <1>3, <1>5, <1>6 DEF q

LEMMA ReleaseEarned ==
    ASSUME NEW h, Written(h), NEW r, IsOfType(h, r, "Release"), NEW st,
           ReleaseFresh(h, st, r)
    PROVE  /\ Usable(st[Body(h, r).subject])
           /\ Reasons(h, st, Body(h, Body(h, r).decision).request) = {}
<1> DEFINE i == RecordAt(h, r)
           p == Prefix(h, i - 1)
           d == Body(h, r).decision
<1>1. IsLog(h) /\ HasRecord(h, r) /\ h[i].type = "Release" /\ Body(h, r) = h[i].body
  BY DEF Written, IsOfType, Record, Body
<1>2. i \in DOMAIN h /\ h[i].ev = "record"
  BY <1>1, RecordFacts DEF Created
<1>3. Written(p) /\ Grows(p, h) /\ Unique(h) /\ Fits(p, h[i])
  BY <1>2, AtPlace
<1> HIDE DEF i, p
<1>4. ReleaseAuthorized(p, States(p), Body(h, r))
  BY <1>1, <1>2, <1>3 DEF Fits, RecordFits, MayRelease
<1>5. IsOfType(p, d, "GateDecision") /\ Body(p, d).subject = Body(h, r).subject
  BY <1>4 DEF ReleaseAuthorized
<1>6. IsOfType(h, d, "GateDecision") /\ Body(h, d).subject = Body(h, r).subject
  BY <1>3, <1>5, RecordStays DEF IsOfType
<1>7. DecisionFresh(h, st, d) /\ Body(h, d).outcome = "permit"
  BY DEF ReleaseFresh
<1> DEFINE q == Body(h, d).request
<1> HIDE DEF d
<1>8. Reasons(h, st, q) = {} /\ Body(h, d).subject = Body(h, q).subject
  BY <1>6, <1>7, PermitEarned
<1> HIDE DEF q
<1>9. Body(h, q).subject \in Inputs(h, q)
  BY DEF Inputs
<1>10. \A x \in Inputs(h, q) : Usable(st[x])
  <2>1. {<<"input_not_usable", y>> : y \in {x \in Inputs(h, q) : ~Usable(st[x])}} = {}
    BY <1>8 DEF Reasons
  <2>2. {x \in Inputs(h, q) : ~Usable(st[x])} = {}
    BY <2>1
  <2> QED  BY <2>2
<1> QED  BY <1>6, <1>8, <1>9, <1>10 DEF d, q

-----------------------------------------------------------------------------
(***************************************************************************)
(* What a case rests on.  The qualification of a case needs it usable; an  *)
(* invalidation before it took one of the sources away for good.           *)
(***************************************************************************)
SourcesIn(h, case) == LET o == Body(h, case).observation
                      IN  {case, o} \cup Body(h, o).evidence

LEMMA RelationOfCase ==
    ASSUME NEW h, Written(h), CasesCompatible(h), NEW case,
           IsOfType(h, case, "FeedbackCase"), HasRelation(h, FeedbackRelationId[case])
    PROVE  /\ Relation(h, FeedbackRelationId[case]).source = case
           /\ Relation(h, FeedbackRelationId[case]).target = Body(h, case).target
<1>1. RecordAt(h, case) \in Records(h, "FeedbackCase") /\ h[RecordAt(h, case)].id = case
  BY CaseTarget DEF Record
<1>2. Compatible(h, case)
  BY <1>1 DEF CasesCompatible
<1> QED  BY <1>2 DEF Compatible, FeedbackRelation

LEMMA LaterLoses ==
    ASSUME NEW h, Written(h), CasesCompatible(h), NEW f, NEW g, g # "",
           IsOfType(h, f, "FeedbackCase"), IsOfType(h, g, "FeedbackCase"),
           NEW i \in Created(h, "invalidated"), h[i].relation = FeedbackRelationId[f],
           NEW j \in Created(h, "invalidated"), h[j].relation = FeedbackRelationId[g],
           HasRelation(h, FeedbackRelationId[f]), HasRelation(h, FeedbackRelationId[g]),
           Body(h, f).target \in SourcesIn(h, g)
    PROVE  ~(i < j)
<1>0. SUFFICES ASSUME i < j PROVE FALSE
  OBVIOUS
<1> DEFINE p == Prefix(h, j - 1)
           t == Body(h, f).target
           F == FeedbackRelationId[f]
           G == FeedbackRelationId[g]
<1>1. i \in DOMAIN h /\ j \in DOMAIN h /\ h[i].ev = "invalidated" /\ h[j].ev = "invalidated"
  BY DEF Created
<1>2. /\ Written(p) /\ Grows(p, h) /\ Unique(h) /\ Fits(p, h[j]) /\ IsLog(h) /\ IsLog(p)
      /\ DOMAIN p = 1 .. j - 1 /\ \A k \in 1 .. j - 1 : p[k] = h[k]
      /\ j \in 1 .. Len(h)
  BY <1>1, AtPlace
<1>3. i \in 1 .. j - 1
  <2>1. Len(h) \in Nat /\ DOMAIN h = 1 .. Len(h)
    BY <1>2, LogFacts
  <2>2. i \in 1 .. Len(h) /\ j \in 1 .. Len(h) /\ i < j
    BY <1>0, <1>1, <2>1
  <2> QED  BY ONLY <2>1, <2>2
<1> HIDE DEF p
<1>4. /\ Relation(h, F).source = f /\ Relation(h, F).target = t
      /\ Relation(h, G).source = g
  BY RelationOfCase
<1>5. HasRelation(p, G) /\ InvalidationFits(p, h[j])
  BY <1>1, <1>2 DEF Fits, MayActivate
<1>6. Relation(p, G).source = g
  <2> HIDE DEF G
  <2>1. Relation(h, G) = Relation(p, G)
    BY ONLY <1>2, <1>5, RelationStays
  <2> QED  BY <1>4, <2>1
<1>7. HasRecord(p, g)
  BY <1>2, <1>5, <1>6, EndsOf
<1>8. IsOfType(p, g, "FeedbackCase") /\ Body(h, g) = Body(p, g)
  <2>1. IsOfType(h, g, "FeedbackCase")
    OBVIOUS
  <2> QED  BY ONLY <1>2, <1>7, <2>1, RecordStays
<1>9. ManagedCase(p, G) = g
  BY <1>6, <1>8 DEF ManagedCase, IsOfType
<1>10. SourcesUsable(p, States(p), g)
  BY <1>5, <1>9 DEF InvalidationFits
<1>11. IsOfType(p, Body(p, g).observation, "RuntimeObservation")
  BY <1>2, <1>8, CaseTarget
<1>12. Body(h, Body(p, g).observation) = Body(p, Body(p, g).observation)
  <2> DEFINE o == Body(p, g).observation
  <2>1. HasRecord(p, o)
    BY <1>11 DEF IsOfType
  <2> HIDE DEF o
  <2>2. Body(h, o) = Body(p, o)
    BY ONLY <1>2, <2>1, RecordStays
  <2> QED  BY <2>2 DEF o
<1>13. Usable(States(p)[t])
  BY <1>8, <1>10, <1>12 DEF SourcesUsable, SourcesIn
<1>14. i \in Created(p, "invalidated") /\ p[i] = h[i]
  BY <1>1, <1>2, <1>3 DEF Created
<1>15. i \in Activations(p)
  BY <1>14 DEF Created, Activations, RelationTypeFor
<1>16. RelOf(p, i) = RelOf(h, i) /\ HasRecord(p, RelOf(p, i).target)
  BY <1>2, <1>15, RelOfStays
<1>17. RelOf(p, i).target = t
  BY <1>4, <1>16 DEF RelOf
<1>18. t \in RecordIds(p)
  <2>1. HasRecord(p, t)
    BY <1>16, <1>17
  <2> HIDE DEF t
  <2>2. RecordAt(p, t) \in Created(p, "record") /\ p[RecordAt(p, t)].id = t
    BY ONLY <1>2, <2>1, RecordFacts DEF Record
  <2> QED  BY <2>2 DEF RecordIds
<1>19. States(p)[t].invalidations = {k \in Created(p, "invalidated") : RelOf(p, k).target = t}
  BY <1>18 DEF States
<1>20. i \in States(p)[t].invalidations
  BY <1>14, <1>17, <1>19
<1> QED  BY <1>13, <1>20 DEF Usable

LEMMA RivalsOfWritten ==
    ASSUME NEW h, Written(h), CasesCompatible(h), NEW f, NEW g, f # "", g # "", f # g,
           IsOfType(h, f, "FeedbackCase"), IsOfType(h, g, "FeedbackCase"),
           Body(h, f).target \in SourcesIn(h, g), Body(h, g).target \in SourcesIn(h, f)
    PROVE  ~(ApplicationState(h, f) = "applied" /\ ApplicationState(h, g) = "applied")
<1> SUFFICES ASSUME ApplicationState(h, f) = "applied", ApplicationState(h, g) = "applied"
             PROVE  FALSE
  OBVIOUS
<1>1. HasRelation(h, FeedbackRelationId[f]) /\ HasRelation(h, FeedbackRelationId[g])
  BY DEF ApplicationState
<1>2. PICK i \in Created(h, "invalidated") : h[i].relation = FeedbackRelationId[f]
  BY DEF ApplicationState
<1>3. PICK j \in Created(h, "invalidated") : h[j].relation = FeedbackRelationId[g]
  BY DEF ApplicationState
<1>4. ~(i < j)
  BY <1>1, <1>2, <1>3, LaterLoses
<1>5. ~(j < i)
  BY <1>1, <1>2, <1>3, LaterLoses
<1>6. i \in Int /\ j \in Int
  <2>1. Len(h) \in Nat /\ DOMAIN h = 1 .. Len(h)
    BY LogFacts DEF Written
  <2>2. i \in DOMAIN h /\ j \in DOMAIN h
    BY DEF Created
  <2> QED  BY ONLY <2>1, <2>2
<1>7. FeedbackRelationId[f] # FeedbackRelationId[g]
  <2>1. /\ Relation(h, FeedbackRelationId[f]).source = f
        /\ Relation(h, FeedbackRelationId[g]).source = g
    BY <1>1, RelationOfCase
  <2> QED  BY <2>1
<1>8. i = j
  BY ONLY <1>4, <1>5, <1>6
<1> QED  BY <1>2, <1>3, <1>7, <1>8

-----------------------------------------------------------------------------
(***************************************************************************)
(* Induction: a set of numbers has a least one; a set of numbers that has  *)
(* zero and every successor has all of them.                               *)
(***************************************************************************)
LEMMA LeastNumber ==
    ASSUME NEW T \in SUBSET Nat, T # {}
    PROVE  \E m \in T : \A k \in T : m <= k
<1> DEFINE R == OpToRel(<, Nat)
<1>1. IsWellFoundedOn(R, Nat)
    BY NatLessThanWellFounded
<1>2. \A x, y \in Nat : x < y => <<x, y>> \in R
    BY DEF OpToRel
<1> HIDE DEF R
<1>3. PICK m \in T : \A y \in T : ~ (<<y, m>> \in R)
    BY <1>1, WFMin
<1>4. ASSUME NEW k \in T PROVE m <= k
  <2>1. ~ (k < m)
    BY <1>2, <1>3
  <2>2. QED
    BY <2>1
<1>5. QED
    BY <1>4

LEMMA AllNumbers ==
    ASSUME NEW T \in SUBSET Nat, 0 \in T, \A n \in T : n + 1 \in T
    PROVE  T = Nat
<1>1. SUFFICES ASSUME Nat \ T # {} PROVE FALSE
  OBVIOUS
<1>2. PICK m \in Nat \ T : \A k \in Nat \ T : m <= k
  BY <1>1, LeastNumber
<1>3. m - 1 \in Nat /\ ~ (m <= m - 1) /\ (m - 1) + 1 = m
  BY <1>2
<1>4. m - 1 \in T
  BY <1>2, <1>3
<1>5. QED
  BY <1>2, <1>3, <1>4

(***************************************************************************)
(* A function can be applied over and over.                                *)
(***************************************************************************)
IsIteration(f, F, a, S) == /\ f \in [Nat -> S]
                           /\ f[0] = a
                           /\ \A n \in Nat : f[n + 1] = F[f[n]]

IsIterationTo(g, F, a, S, n) == /\ g \in [0 .. n -> S]
                                /\ g[0] = a
                                /\ \A k \in 0 .. n - 1 : g[k + 1] = F[g[k]]

LEMMA IterationTo ==
    ASSUME NEW S, NEW F \in [S -> S], NEW a \in S, NEW n \in Nat
    PROVE  \E g : IsIterationTo(g, F, a, S, n)
<1> DEFINE T == {m \in Nat : \E g : IsIterationTo(g, F, a, S, m)}
<1>1. 0 \in T
  <2>1. IsIterationTo([k \in 0 .. 0 |-> a], F, a, S, 0)
    BY DEF IsIterationTo
  <2>2. QED
    BY <2>1
<1>2. ASSUME NEW m \in T PROVE m + 1 \in T
  <2>1. PICK g : IsIterationTo(g, F, a, S, m)
    OBVIOUS
  <2> DEFINE h == [k \in 0 .. m + 1 |-> IF k = m + 1 THEN F[g[m]] ELSE g[k]]
  <2>2. m \in Nat /\ m \in 0 .. m /\ 0 \in 0 .. m + 1 /\ 0 # m + 1
    OBVIOUS
  <2>3. g \in [0 .. m -> S] /\ g[0] = a /\ \A k \in 0 .. m - 1 : g[k + 1] = F[g[k]]
    BY <2>1 DEF IsIterationTo
  <2>4. F[g[m]] \in S
    BY <2>2, <2>3
  <2>5. h \in [0 .. m + 1 -> S]
    BY <2>2, <2>3, <2>4
  <2>6. h[0] = a
    BY <2>2, <2>3
  <2>7. ASSUME NEW k \in 0 .. (m + 1) - 1 PROVE h[k + 1] = F[h[k]]
    <3>1. k \in 0 .. m /\ k \in 0 .. m + 1 /\ k + 1 \in 0 .. m + 1 /\ k # m + 1
      BY <2>2
    <3>2. CASE k = m
      BY <2>2, <3>1, <3>2
    <3>3. CASE k # m
      <4>1. k \in 0 .. m - 1 /\ k + 1 # m + 1
        BY <2>2, <3>1, <3>3
      <4>2. QED
        BY <2>3, <3>1, <4>1
    <3>4. QED
      BY <3>2, <3>3
  <2> HIDE DEF h
  <2>8. IsIterationTo(h, F, a, S, m + 1)
    BY <2>5, <2>6, <2>7 DEF IsIterationTo
  <2>9. QED
    BY <2>2, <2>8
<1>3. T \in SUBSET Nat
  OBVIOUS
<1>4. T = Nat
  <2> HIDE DEF T
  <2>1. QED
    BY <1>1, <1>2, <1>3, AllNumbers
<1>5. QED
  BY <1>4

LEMMA IterationUnique ==
    ASSUME NEW S, NEW F \in [S -> S], NEW a \in S, NEW n \in Nat, NEW m \in Nat,
           NEW g, IsIterationTo(g, F, a, S, n), NEW h, IsIterationTo(h, F, a, S, m),
           NEW k \in 0 .. n, k <= m
    PROVE  g[k] = h[k]
<1> DEFINE T == {i \in Nat : i <= n /\ i <= m => g[i] = h[i]}
<1>1. 0 \in T
  BY DEF IsIterationTo
<1>2. ASSUME NEW i \in T PROVE i + 1 \in T
  <2>1. i \in Nat
    OBVIOUS
  <2>2. SUFFICES ASSUME i + 1 <= n, i + 1 <= m PROVE g[i + 1] = h[i + 1]
    BY <2>1
  <2>3. i <= n /\ i <= m /\ i \in 0 .. n - 1 /\ i \in 0 .. m - 1
    BY <2>1, <2>2
  <2>4. QED
    BY <2>1, <2>3 DEF IsIterationTo
<1>3. T \in SUBSET Nat
  OBVIOUS
<1>4. T = Nat
  <2> HIDE DEF T
  <2>1. QED
    BY <1>1, <1>2, <1>3, AllNumbers
<1>5. k \in T /\ k <= n
  BY <1>4
<1>6. QED
  BY <1>5

LEMMA IterationExists ==
    ASSUME NEW S, NEW F \in [S -> S], NEW a \in S
    PROVE  \E f : IsIteration(f, F, a, S)
<1> DEFINE upto(n) == CHOOSE g : IsIterationTo(g, F, a, S, n)
           f == [n \in Nat |-> upto(n)[n]]
<1>1. ASSUME NEW n \in Nat PROVE IsIterationTo(upto(n), F, a, S, n)
  BY IterationTo
<1> HIDE DEF upto
<1>2. ASSUME NEW n \in Nat PROVE upto(n)[n] \in S
  BY <1>1 DEF IsIterationTo
<1>3. f \in [Nat -> S]
  BY <1>2
<1>4. f[0] = a
  <2>1. 0 \in Nat
    OBVIOUS
  <2>2. QED
    BY <1>1, <2>1 DEF IsIterationTo
<1>5. ASSUME NEW n \in Nat PROVE f[n + 1] = F[f[n]]
  <2>1. n + 1 \in Nat /\ n \in 0 .. n /\ n <= n + 1 /\ n \in 0 .. (n + 1) - 1
    OBVIOUS
  <2>2. upto(n)[n] = upto(n + 1)[n]
    BY <1>1, <2>1, IterationUnique
  <2>3. upto(n + 1)[n + 1] = F[upto(n + 1)[n]]
    BY <1>1, <2>1 DEF IsIterationTo
  <2>4. QED
    BY <2>1, <2>2, <2>3
<1> HIDE DEF f
<1>6. QED
  BY <1>3, <1>4, <1>5 DEF IsIteration

(***************************************************************************)
(* Sets that grow within a finite one, and stop growing once they do not   *)
(* grow, have stopped when they could no longer grow.                      *)
(***************************************************************************)
LEMMA Saturates ==
    ASSUME NEW U, IsFiniteSet(U), NEW N \in Nat, Cardinality(U) <= N + 1,
           NEW D \in [Nat -> SUBSET U], D[0] # {},
           \A n \in Nat : D[n] \subseteq D[n + 1],
           \A n \in Nat : D[n + 1] = D[n] => D[n + 2] = D[n + 1]
    PROVE  D[N + 1] = D[N]
<1> DEFINE T == {n \in Nat : D[n + 1] = D[n] \/ Cardinality(D[n]) >= n + 1}
<1>0. ASSUME NEW n \in Nat PROVE /\ D[n] \subseteq U /\ IsFiniteSet(D[n])
                                 /\ Cardinality(D[n]) \in Nat
                                 /\ Cardinality(D[n]) <= Cardinality(U)
  <2>1. D[n] \subseteq U
    OBVIOUS
  <2>2. QED
    BY <2>1, FS_Subset, FS_CardinalityType
<1>1. 0 \in T
  <2>1. Cardinality(D[0]) # 0
    BY <1>0, FS_EmptySet
  <2>2. QED
    BY <1>0, <2>1
<1>2. ASSUME NEW n \in T PROVE n + 1 \in T
  <2>0. n \in Nat /\ n + 1 \in Nat /\ (n + 1) + 1 = n + 2
    OBVIOUS
  <2>1. CASE D[n + 1] = D[n]
    BY <2>0, <2>1
  <2>2. CASE D[n + 1] # D[n]
    <3>1. Cardinality(D[n]) >= n + 1
      BY <2>2
    <3>2. D[n] \subseteq D[n + 1] /\ D[n] # D[n + 1]
      BY <2>0, <2>2
    <3>3. Cardinality(D[n]) <= Cardinality(D[n + 1])
          /\ Cardinality(D[n]) # Cardinality(D[n + 1])
      BY <1>0, <2>0, <3>2, FS_Subset
    <3>4. Cardinality(D[n]) \in Nat /\ Cardinality(D[n + 1]) \in Nat
      BY <1>0, <2>0
    <3>5. Cardinality(D[n + 1]) >= (n + 1) + 1
      BY ONLY <2>0, <3>1, <3>3, <3>4
    <3>6. QED
      BY <2>0, <3>5
  <2>3. QED
    BY <2>1, <2>2
<1>3. T \in SUBSET Nat
  OBVIOUS
<1>4. T = Nat
  <2> HIDE DEF T
  <2>1. QED
    BY <1>1, <1>2, <1>3, AllNumbers
<1>5. SUFFICES ASSUME D[N + 1] # D[N] PROVE FALSE
  OBVIOUS
<1>6. Cardinality(D[N]) >= N + 1
  BY <1>4, <1>5
<1>7. Cardinality(D[N]) = Cardinality(U)
  BY <1>0, <1>6, FS_CardinalityType
<1>8. D[N] = U
  BY <1>0, <1>7, FS_Subset
<1>9. D[N + 1] \subseteq U /\ D[N] \subseteq D[N + 1]
  BY <1>0
<1>10. QED
  BY <1>5, <1>8, <1>9

-----------------------------------------------------------------------------
(***************************************************************************)
(* Leads to r over the pairs of R: the least set with r in it that is      *)
(* ClosedUnder under R.                                                         *)
(***************************************************************************)
ClosedUnder(R, C) == \A e \in R : e[2] \in C => e[1] \in C

Within(R, r) == {r} \cup {e[1] : e \in R}

LEMMA WithinFinite ==
    ASSUME NEW R, IsFiniteSet(R), NEW r
    PROVE  /\ IsFiniteSet(Within(R, r))
           /\ Cardinality(R) \in Nat
           /\ Cardinality(Within(R, r)) <= Cardinality(R) + 1
<1> DEFINE f == [e \in R |-> e[1]]
           I == {f[e] : e \in R}
<1>1. IsFiniteSet(I) /\ Cardinality(I) <= Cardinality(R)
  <2>1. f \in Surjection(R, I)
    BY DEF Surjection
  <2> HIDE DEF f
  <2>2. QED
    BY <2>1, FS_Surjection
<1>2. Within(R, r) = I \cup {r}
  BY DEF Within
<1>3. Cardinality(I) \in Nat /\ Cardinality(R) \in Nat
  BY <1>1, FS_CardinalityType
<1> HIDE DEF I
<1>4. /\ IsFiniteSet(I \cup {r})
      /\ Cardinality(I \cup {r}) = IF r \in I THEN Cardinality(I) ELSE Cardinality(I) + 1
  BY <1>1, FS_AddElement
<1>5. QED
  BY <1>1, <1>2, <1>3, <1>4

LEMMA ReachingIsLeastClosed ==
    ASSUME NEW R, IsFiniteSet(R), NEW r
    PROVE  /\ r \in Reaching(R, r)
           /\ ClosedUnder(R, Reaching(R, r))
           /\ \A C : r \in C /\ ClosedUnder(R, C) => Reaching(R, r) \subseteq C
<1> DEFINE U == Within(R, r)
           step(s) == s \cup {e[1] : e \in {d \in R : d[2] \in s}}
           F == [s \in SUBSET U |-> step(s)]
           N == Cardinality(R)
           Def(f) == [n \in Nat |-> IF n = 0 THEN {r} ELSE step(f[n - 1])]
           reach == CHOOSE f : f = Def(f)
<1>1. /\ IsFiniteSet(U) /\ N \in Nat /\ Cardinality(U) <= N + 1
      /\ r \in U /\ \A e \in R : e[1] \in U
  BY WithinFinite DEF Within
<1>2. Reaching(R, r) = reach[N]
  BY DEF Reaching
<1> HIDE DEF U, N
<1>3. ASSUME NEW s \in SUBSET U PROVE step(s) \in SUBSET U
  BY <1>1
<1>4. F \in [SUBSET U -> SUBSET U] /\ {r} \in SUBSET U
  BY <1>1, <1>3
<1>5. PICK g : IsIteration(g, F, {r}, SUBSET U)
  <2> HIDE DEF F
  <2>1. QED
    BY <1>4, IterationExists
<1>6. g \in [Nat -> SUBSET U] /\ g[0] = {r} /\ \A n \in Nat : g[n + 1] = step(g[n])
  BY <1>5 DEF IsIteration
<1> HIDE DEF F
<1>7. g = Def(g)
  <2> HIDE DEF step
  <2>1. ASSUME NEW n \in Nat, n # 0 PROVE g[n] = step(g[n - 1])
    <3>1. n - 1 \in Nat /\ (n - 1) + 1 = n
      BY <2>1
    <3>2. QED
      BY <1>6, <3>1
  <2>2. QED
    BY <1>6, <2>1
<1>8. reach = Def(reach)
  <2> HIDE DEF Def
  <2>1. QED
    BY <1>7
<1> HIDE DEF reach
<1>9. reach[0] = {r} /\ \A n \in Nat : reach[n + 1] = step(reach[n])
  <2> HIDE DEF step
  <2>1. ASSUME NEW n \in Nat PROVE reach[n] = IF n = 0 THEN {r} ELSE step(reach[n - 1])
    BY <1>8
  <2>2. ASSUME NEW n \in Nat PROVE n + 1 \in Nat /\ n + 1 # 0 /\ (n + 1) - 1 = n
    OBVIOUS
  <2>3. QED
    BY <2>1, <2>2
<1> HIDE DEF Def
<1>10. ASSUME NEW C, r \in C, ClosedUnder(R, C) PROVE \A n \in Nat : reach[n] \subseteq C
  <2> DEFINE T == {n \in Nat : reach[n] \subseteq C}
  <2>1. 0 \in T
    BY <1>9, <1>10
  <2>2. ASSUME NEW n \in T PROVE n + 1 \in T
    BY <1>9, <1>10 DEF ClosedUnder
  <2>3. T \in SUBSET Nat
    OBVIOUS
  <2>4. T = Nat
    <3> HIDE DEF T
    <3>1. QED
      BY <2>1, <2>2, <2>3, AllNumbers
  <2>5. QED
    BY <2>4
<1>11. \A n \in Nat : reach[n] \subseteq reach[n + 1]
  BY <1>9
<1>12. \A n \in Nat : r \in reach[n]
  <2> DEFINE T == {n \in Nat : r \in reach[n]}
  <2>1. 0 \in T /\ T \in SUBSET Nat
    BY <1>9
  <2>2. ASSUME NEW n \in T PROVE n + 1 \in T
    BY <1>11
  <2>3. T = Nat
    <3> HIDE DEF T
    <3>1. QED
      BY <2>1, <2>2, AllNumbers
  <2>4. QED
    BY <2>3
<1>13. reach[N + 1] = reach[N]
  <2> DEFINE D == [n \in Nat |-> reach[n]]
  <2>1. r \in U /\ ClosedUnder(R, U)
    BY <1>1 DEF ClosedUnder
  <2>2. D \in [Nat -> SUBSET U]
    BY <1>10, <2>1
  <2>3. D[0] # {}
    BY <1>9
  <2>4. \A n \in Nat : D[n] \subseteq D[n + 1]
    BY <1>11
  <2>5. \A n \in Nat : D[n + 1] = D[n] => D[n + 2] = D[n + 1]
    <3>1. \A n \in Nat : n + 1 \in Nat /\ n + 2 = (n + 1) + 1 /\ n + 2 \in Nat
      OBVIOUS
    <3> HIDE DEF step
    <3>2. QED
      BY <1>9, <3>1
  <2>6. D[N + 1] = D[N]
    <3> HIDE DEF D
    <3>1. QED
      BY <1>1, <2>2, <2>3, <2>4, <2>5, Saturates
  <2>7. N + 1 \in Nat
    BY <1>1
  <2>8. QED
    BY <1>1, <2>6, <2>7
<1>14. ClosedUnder(R, reach[N])
  BY <1>1, <1>9, <1>13 DEF ClosedUnder
<1>15. QED
  BY <1>1, <1>2, <1>10, <1>12, <1>14

-----------------------------------------------------------------------------
(***************************************************************************)
(* The states of a search from one root: paths and numbers of the records  *)
(* found so far.                                                           *)
(***************************************************************************)
Findable(h, root) == {root} \cup {RelOf(h, i).source : i \in Created(h, "bound")}

PartialOn(U, V) == UNION {[D -> V] : D \in SUBSET U}

SearchStates(h, root) ==
    {s \in [path  : PartialOn(Findable(h, root), Seq(Created(h, "bound"))),
            found : PartialOn(Findable(h, root), Nat)] :
        DOMAIN s.found = DOMAIN s.path /\ root \in DOMAIN s.path}

LEMMA Extended ==
    ASSUME NEW U, NEW V, NEW f \in PartialOn(U, V), NEW x \in U, NEW y \in V
    PROVE  With(f, x, y) \in PartialOn(U, V)
<1>1. PICK D \in SUBSET U : f \in [D -> V]
  BY DEF PartialOn
<1>2. With(f, x, y) \in [D \cup {x} -> V]
  BY <1>1 DEF With
<1>3. D \cup {x} \in SUBSET U
  OBVIOUS
<1>4. QED
  BY <1>2, <1>3 DEF PartialOn

LEMMA PartialFacts ==
    ASSUME NEW U, NEW V, NEW f \in PartialOn(U, V)
    PROVE  DOMAIN f \subseteq U /\ f \in [DOMAIN f -> V]
BY DEF PartialOn

LEMMA StateFacts ==
    ASSUME NEW h, NEW root, NEW s \in SearchStates(h, root)
    PROVE  /\ s = [path |-> s.path, found |-> s.found]
           /\ s.path \in PartialOn(Findable(h, root), Seq(Created(h, "bound")))
           /\ s.found \in PartialOn(Findable(h, root), Nat)
           /\ DOMAIN s.path \subseteq Findable(h, root)
           /\ DOMAIN s.found = DOMAIN s.path
           /\ root \in DOMAIN s.path
           /\ \A r \in DOMAIN s.path : s.path[r] \in Seq(Created(h, "bound")) /\ s.found[r] \in Nat
<1>1. /\ s = [path |-> s.path, found |-> s.found]
      /\ s.path \in PartialOn(Findable(h, root), Seq(Created(h, "bound")))
      /\ s.found \in PartialOn(Findable(h, root), Nat)
      /\ DOMAIN s.found = DOMAIN s.path
      /\ root \in DOMAIN s.path
  BY DEF SearchStates
<1>2. QED
  BY <1>1, PartialFacts

LEMMA BoundFinite ==
    ASSUME NEW h, IsLog(h)
    PROVE  /\ Created(h, "bound") \in SUBSET Nat
           /\ IsFiniteSet(Created(h, "bound"))
           /\ Cardinality(Created(h, "bound")) \in Nat
<1>1. Len(h) \in Nat /\ DOMAIN h = 1 .. Len(h)
  BY LogFacts
<1>2. Created(h, "bound") \in SUBSET (1 .. Len(h))
  BY <1>1 DEF Created
<1>3. IsFiniteSet(1 .. Len(h))
  BY <1>1, FS_Interval
<1>4. QED
  BY <1>1, <1>2, <1>3, FS_Subset, FS_CardinalityType

LEMMA FindableFinite ==
    ASSUME NEW h, IsLog(h), NEW root
    PROVE  /\ IsFiniteSet(Findable(h, root))
           /\ Cardinality(Findable(h, root)) <= Cardinality(Created(h, "bound")) + 1
<1> DEFINE B == Created(h, "bound")
           f == [i \in B |-> RelOf(h, i).source]
           I == {f[i] : i \in B}
<1>1. IsFiniteSet(B) /\ Cardinality(B) \in Nat
  BY BoundFinite
<1> HIDE DEF B
<1>2. IsFiniteSet(I) /\ Cardinality(I) <= Cardinality(B)
  <2>1. f \in Surjection(B, I)
    BY DEF Surjection
  <2> HIDE DEF f
  <2>2. QED
    BY <1>1, <2>1, FS_Surjection
<1>3. Findable(h, root) = I \cup {root}
  BY DEF Findable, B
<1>4. Cardinality(I) \in Nat
  BY <1>2, FS_CardinalityType
<1> HIDE DEF I
<1>5. /\ IsFiniteSet(I \cup {root})
      /\ Cardinality(I \cup {root}) = IF root \in I THEN Cardinality(I) ELSE Cardinality(I) + 1
  BY <1>2, FS_AddElement
<1>6. QED
  BY <1>1, <1>2, <1>3, <1>4, <1>5 DEF B

(***************************************************************************)
(* Of the bindings that can be followed there is an earliest one.          *)
(***************************************************************************)
LEMMA EarliestExists ==
    ASSUME NEW h, IsLog(h), NEW root, NEW s \in SearchStates(h, root), Unfollowed(h, s) # {}
    PROVE  /\ Earliest(h, s) \in Unfollowed(h, s)
           /\ \A j \in Unfollowed(h, s) : NoLater(h, s, Earliest(h, s), j)
<1> DEFINE W == Unfollowed(h, s)
           at(k) == s.found[RelOf(h, k).target]
           A == {at(i) : i \in W}
<1>1. \A i \in W : i \in Nat /\ at(i) \in Nat
  BY StateFacts, BoundFinite DEF Unfollowed
<1>2. A \in SUBSET Nat /\ A # {}
  BY <1>1
<1>3. PICK a \in A : \A b \in A : a <= b
  BY <1>2, LeastNumber
<1> DEFINE I == {i \in W : at(i) = a}
<1>4. I \in SUBSET Nat /\ I # {}
  BY <1>1
<1>5. PICK i \in I : \A j \in I : i <= j
  BY <1>4, LeastNumber
<1>6. ASSUME NEW j \in W PROVE at(i) < at(j) \/ (at(i) = at(j) /\ i <= j)
  <2>1. a <= at(j) /\ at(i) = a /\ a \in Nat /\ at(j) \in Nat
    BY <1>1, <1>2, <1>3
  <2>2. QED
    BY <1>5, <2>1
<1>7. i \in W /\ \A j \in W : NoLater(h, s, i, j)
  BY <1>6 DEF NoLater
<1> HIDE DEF at, I
<1>8. QED
  BY <1>7 DEF Earliest

LEMMA VisitFacts ==
    ASSUME NEW h, IsLog(h), NEW root, NEW s \in SearchStates(h, root), NEW i \in Unfollowed(h, s),
           NEW n, n = Visit(h, s, i), NEW v, v = RelOf(h, i).source, NEW t, t = RelOf(h, i).target
    PROVE  /\ n \in SearchStates(h, root)
           /\ v \notin DOMAIN s.path /\ t \in DOMAIN s.path
           /\ DOMAIN n.path = DOMAIN s.path \cup {v}
           /\ n.found[v] = Cardinality(DOMAIN s.path)
           /\ \A r \in DOMAIN s.path : n.path[r] = s.path[r] /\ n.found[r] = s.found[r]
<1> DEFINE B == Created(h, "bound")
           U == Findable(h, root)
           p == <<i>> \o s.path[t]
           k == Cardinality(DOMAIN s.path)
<1>1. i \in B /\ v \notin DOMAIN s.path /\ t \in DOMAIN s.path
  BY DEF Unfollowed
<1>2. v \in U
  BY <1>1 DEF Findable
<1>3. /\ s.path \in PartialOn(U, Seq(B)) /\ s.found \in PartialOn(U, Nat)
      /\ DOMAIN s.path \subseteq U /\ DOMAIN s.found = DOMAIN s.path /\ root \in DOMAIN s.path
      /\ s.path[t] \in Seq(B)
  BY <1>1, StateFacts
<1>4. k \in Nat
  BY <1>3, FindableFinite, FS_Subset, FS_CardinalityType
<1>5. p \in Seq(B)
  <2> HIDE DEF B
  <2>1. <<i>> \in Seq(B)
    BY <1>1
  <2>2. QED
    BY <1>3, <2>1, ConcatProperties
<1>6. n = [path |-> With(s.path, v, p), found |-> With(s.found, v, k)]
  BY DEF Visit
<1> HIDE DEF B, U, p, k
<1>7. n.path \in PartialOn(U, Seq(B)) /\ n.found \in PartialOn(U, Nat)
  BY <1>2, <1>3, <1>4, <1>5, <1>6, Extended
<1>8. /\ DOMAIN n.path = DOMAIN s.path \cup {v} /\ DOMAIN n.found = DOMAIN s.path \cup {v}
      /\ n.path[v] = p /\ n.found[v] = k
      /\ \A r \in DOMAIN s.path : r # v => n.path[r] = s.path[r] /\ n.found[r] = s.found[r]
  BY <1>3, <1>6 DEF With
<1>9. n \in SearchStates(h, root)
  BY <1>3, <1>6, <1>7, <1>8 DEF SearchStates, U, B
<1>10. QED
  BY <1>1, <1>3, <1>7, <1>8, <1>9 DEF k

LEMMA VisitState ==
    ASSUME NEW h, IsLog(h), NEW root, NEW s \in SearchStates(h, root), NEW i \in Unfollowed(h, s)
    PROVE  Visit(h, s, i) \in SearchStates(h, root)
BY VisitFacts

LEMMA ExpandState ==
    ASSUME NEW h, IsLog(h), NEW root, NEW s \in SearchStates(h, root)
    PROVE  Expand(h, s) \in SearchStates(h, root)
<1>1. CASE Unfollowed(h, s) = {}
  BY <1>1 DEF Expand
<1>2. CASE Unfollowed(h, s) # {}
  <2>1. PICK i \in Unfollowed(h, s) : Expand(h, s) = Visit(h, s, i)
    BY <1>2, EarliestExists DEF Expand
  <2>2. QED
    BY <2>1, VisitState
<1>3. QED
  BY <1>1, <1>2

LEMMA RootOnlyState ==
    ASSUME NEW h, NEW root
    PROVE  RootOnly(root) \in SearchStates(h, root)
<1> DEFINE D == {root}
           U == Findable(h, root)
           f == [r \in D |-> <<>>]
           g == [r \in D |-> 0]
<1>1. D \in SUBSET U
  BY DEF Findable
<1>2. f \in [D -> Seq(Created(h, "bound"))] /\ g \in [D -> Nat]
  OBVIOUS
<1>3. DOMAIN f = D /\ DOMAIN g = D /\ root \in D
  OBVIOUS
<1>4. RootOnly(root) = [path |-> f, found |-> g]
  BY DEF RootOnly
<1> HIDE DEF D, U, f, g
<1>5. f \in PartialOn(U, Seq(Created(h, "bound"))) /\ g \in PartialOn(U, Nat)
  BY <1>1, <1>2 DEF PartialOn
<1>6. QED
  BY <1>3, <1>4, <1>5 DEF SearchStates, U

(***************************************************************************)
(* The search is what its recursion says, and what it starts with and each *)
(* step keeps holds all along.                                             *)
(***************************************************************************)
LEMMA SearchSteps ==
    ASSUME NEW h, IsLog(h), NEW root
    PROVE  /\ SearchFrom(h, root)[0] = RootOnly(root)
           /\ \A n \in Nat : /\ SearchFrom(h, root)[n] \in SearchStates(h, root)
                             /\ SearchFrom(h, root)[n + 1] = Expand(h, SearchFrom(h, root)[n])
<1> DEFINE S == SearchStates(h, root)
           F == [s \in S |-> Expand(h, s)]
           a == RootOnly(root)
           Def(f) == [n \in Nat |-> IF n = 0 THEN a ELSE Expand(h, f[n - 1])]
           search == CHOOSE f : f = Def(f)
<1>1. SearchFrom(h, root) = search
  BY DEF SearchFrom
<1>2. F \in [S -> S] /\ a \in S
  BY ExpandState, RootOnlyState
<1> HIDE DEF S, a
<1>3. PICK g : IsIteration(g, F, a, S)
  <2> HIDE DEF F
  <2>1. QED
    BY <1>2, IterationExists
<1>4. g \in [Nat -> S] /\ g[0] = a /\ \A n \in Nat : g[n + 1] = Expand(h, g[n])
  BY <1>3 DEF IsIteration
<1> HIDE DEF F
<1>5. g = Def(g)
  <2>1. ASSUME NEW n \in Nat, n # 0 PROVE g[n] = Expand(h, g[n - 1])
    <3>1. n - 1 \in Nat /\ (n - 1) + 1 = n
      BY <2>1
    <3>2. QED
      BY <1>4, <3>1
  <2>2. QED
    BY <1>4, <2>1
<1>6. search = Def(search)
  <2> HIDE DEF Def
  <2>1. QED
    BY <1>5
<1> HIDE DEF search
<1>7. ASSUME NEW n \in Nat PROVE search[n] = IF n = 0 THEN a ELSE Expand(h, search[n - 1])
  BY <1>6
<1> HIDE DEF Def
<1>8. search[0] = a
  BY <1>7
<1>9. ASSUME NEW n \in Nat PROVE search[n + 1] = Expand(h, search[n])
  <2>1. n + 1 \in Nat /\ n + 1 # 0 /\ (n + 1) - 1 = n
    OBVIOUS
  <2>2. QED
    BY <1>7, <2>1
<1>10. ASSUME NEW n \in Nat PROVE search[n] \in S
  <2> DEFINE T == {m \in Nat : search[m] \in S}
  <2>1. 0 \in T /\ T \in SUBSET Nat
    BY <1>2, <1>8
  <2>2. ASSUME NEW m \in T PROVE m + 1 \in T
    BY <1>9, ExpandState DEF S
  <2>3. T = Nat
    <3> HIDE DEF T
    <3>1. QED
      BY <2>1, <2>2, AllNumbers
  <2>4. QED
    BY <2>3
<1>11. QED
  BY <1>1, <1>8, <1>9, <1>10 DEF S, a

LEMMA SearchKeeps ==
    ASSUME NEW h, IsLog(h), NEW root, NEW G \in SUBSET SearchStates(h, root),
           RootOnly(root) \in G, \A s \in G : Expand(h, s) \in G,
           NEW n \in Nat
    PROVE  SearchFrom(h, root)[n] \in G
<1> DEFINE T == {m \in Nat : SearchFrom(h, root)[m] \in G}
<1>1. 0 \in T /\ T \in SUBSET Nat
  BY SearchSteps
<1>2. ASSUME NEW m \in T PROVE m + 1 \in T
  BY SearchSteps
<1>3. T = Nat
  <2> HIDE DEF T
  <2>1. QED
    BY <1>1, <1>2, AllNumbers
<1>4. QED
  BY <1>3

(***************************************************************************)
(* When it ends there is no binding left to follow.                        *)
(***************************************************************************)
Found(h, root) == SearchFrom(h, root)[Cardinality(Created(h, "bound"))]

LEMMA SearchEnds ==
    ASSUME NEW h, IsLog(h), NEW root
    PROVE  /\ Found(h, root) \in SearchStates(h, root)
           /\ Unfollowed(h, Found(h, root)) = {}
           /\ Paths(h, root) = Found(h, root).path
<1> DEFINE search == SearchFrom(h, root)
           N == Cardinality(Created(h, "bound"))
           U == Findable(h, root)
           D == [n \in Nat |-> DOMAIN search[n].path]
<1>1. N \in Nat /\ IsFiniteSet(U) /\ Cardinality(U) <= N + 1
  BY BoundFinite, FindableFinite
<1>2. /\ search[0] = RootOnly(root)
      /\ \A n \in Nat : /\ search[n] \in SearchStates(h, root)
                        /\ search[n + 1] = Expand(h, search[n])
  BY SearchSteps
<1>3. Found(h, root) = search[N] /\ Paths(h, root) = search[N].path
  BY DEF Found, Paths
<1> HIDE DEF search, N
<1>4. ASSUME NEW n \in Nat
      PROVE  /\ D[n] \subseteq U
             /\ root \in D[n]
             /\ D[n] \subseteq D[n + 1]
             /\ D[n + 1] = D[n] => Unfollowed(h, search[n]) = {}
  <2>1. n + 1 \in Nat /\ search[n] \in SearchStates(h, root)
    BY <1>2
  <2>2. D[n] = DOMAIN search[n].path /\ D[n + 1] = DOMAIN search[n + 1].path
    BY <2>1
  <2> HIDE DEF D, U
  <2>3. D[n] \subseteq U /\ root \in D[n]
    BY <2>1, <2>2, StateFacts DEF U
  <2>4. CASE Unfollowed(h, search[n]) = {}
    <3>1. search[n + 1] = search[n]
      BY <1>2, <2>4 DEF Expand
    <3>2. QED
      BY <2>2, <2>3, <2>4, <3>1
  <2>5. CASE Unfollowed(h, search[n]) # {}
    <3>1. PICK s : s = search[n]
      OBVIOUS
    <3>2. PICK t : t = search[n + 1]
      OBVIOUS
    <3>3. PICK i \in Unfollowed(h, s) : t = Visit(h, s, i)
      BY <1>2, <2>1, <2>5, <3>1, <3>2, EarliestExists DEF Expand
    <3>4. PICK v : v = RelOf(h, i).source
      OBVIOUS
    <3>5. v \notin DOMAIN s.path /\ DOMAIN t.path = DOMAIN s.path \cup {v}
      BY <2>1, <3>1, <3>3, <3>4, VisitFacts
    <3>6. QED
      BY <2>2, <2>3, <3>1, <3>2, <3>5
  <2>6. QED
    BY <2>4, <2>5
<1>5. D[N + 1] = D[N]
  <2>1. D \in [Nat -> SUBSET U]
    BY <1>4
  <2>2. D[0] # {} /\ \A n \in Nat : D[n] \subseteq D[n + 1]
    BY <1>4
  <2>3. ASSUME NEW n \in Nat, D[n + 1] = D[n] PROVE D[n + 2] = D[n + 1]
    <3>1. search[n + 1] = search[n]
      BY <1>2, <1>4, <2>3 DEF Expand
    <3>2. n + 1 \in Nat /\ n + 2 = (n + 1) + 1
      OBVIOUS
    <3>3. search[n + 2] = search[n + 1]
      BY <1>2, <3>1, <3>2
    <3>4. QED
      BY <3>2, <3>3
  <2> HIDE DEF D, U
  <2>4. QED
    BY <1>1, <2>1, <2>2, <2>3, Saturates
<1>6. QED
  BY <1>1, <1>2, <1>3, <1>4, <1>5

(***************************************************************************)
(* The search finds what reaches its root over the bindings.               *)
(***************************************************************************)
LEMMA DependsFinite ==
    ASSUME NEW h, IsLog(h)
    PROVE  IsFiniteSet(DependsOn(h))
<1> DEFINE B == Created(h, "bound")
           f == [i \in B |-> <<RelOf(h, i).source, RelOf(h, i).target>>]
<1>1. IsFiniteSet(B)
  BY BoundFinite
<1> HIDE DEF B
<1>2. f \in Surjection(B, DependsOn(h))
  BY DEF Surjection, DependsOn, B
<1> HIDE DEF f
<1>3. QED
  BY <1>1, <1>2, FS_Surjection

LEMMA PathsAreReaching ==
    ASSUME NEW h, IsLog(h), NEW root
    PROVE  DOMAIN Paths(h, root) = Reaching(DependsOn(h), root)
<1> DEFINE R == DependsOn(h)
           X == Reaching(R, root)
<1>1. PICK s : s = Found(h, root)
  OBVIOUS
<1>2. /\ s \in SearchStates(h, root) /\ Unfollowed(h, s) = {}
      /\ DOMAIN Paths(h, root) = DOMAIN s.path /\ root \in DOMAIN s.path
  BY <1>1, SearchEnds, StateFacts
<1>3. root \in X /\ ClosedUnder(R, X)
      /\ \A C : root \in C /\ ClosedUnder(R, C) => X \subseteq C
  BY DependsFinite, ReachingIsLeastClosed
<1>4. ClosedUnder(R, DOMAIN s.path)
  BY <1>2 DEF Unfollowed, ClosedUnder, DependsOn
<1>5. DOMAIN s.path \subseteq X
  <2> DEFINE G == {t \in SearchStates(h, root) : DOMAIN t.path \subseteq X}
  <2>1. RootOnly(root) \in G
    <3>1. DOMAIN RootOnly(root).path = {root}
      BY DEF RootOnly
    <3>2. QED
      BY <1>3, <3>1, RootOnlyState
  <2>2. ASSUME NEW t \in G PROVE Expand(h, t) \in G
    <3>1. CASE Unfollowed(h, t) = {}
      BY <3>1 DEF Expand
    <3>2. CASE Unfollowed(h, t) # {}
      <4>1. PICK i \in Unfollowed(h, t) : Expand(h, t) = Visit(h, t, i)
        BY <3>2, EarliestExists DEF Expand
      <4>2. PICK n : n = Expand(h, t)
        OBVIOUS
      <4>3. PICK v : v = RelOf(h, i).source
        OBVIOUS
      <4>4. n \in SearchStates(h, root) /\ DOMAIN n.path = DOMAIN t.path \cup {v}
        BY <4>1, <4>2, <4>3, VisitFacts
      <4>5. RelOf(h, i).target \in X /\ <<v, RelOf(h, i).target>> \in R
        BY <4>3 DEF Unfollowed, DependsOn
      <4>6. v \in X
        BY <1>3, <4>5 DEF ClosedUnder
      <4>7. QED
        BY <4>2, <4>4, <4>6
    <3>3. QED
      BY <3>1, <3>2
  <2>3. G \in SUBSET SearchStates(h, root)
    OBVIOUS
  <2>4. s \in G
    <3> HIDE DEF G
    <3>1. QED
      BY <1>1, <2>1, <2>2, <2>3, SearchKeeps, BoundFinite DEF Found
  <2>5. QED
    BY <2>4
<1>6. QED
  BY <1>2, <1>3, <1>4, <1>5

(***************************************************************************)
(* A record is stale from the roots that it reaches.                       *)
(***************************************************************************)
LEMMA CausesAreReaching ==
    ASSUME NEW h, IsLog(h), NEW r \in RecordIds(h)
    PROVE  {cause.root : cause \in States(h)[r].causes}
               = {i \in Roots(h) : r \in StaleFrom(h, RelOf(h, i).target)}
<1> DEFINE causes == UNION {CausesFrom(h, i) : i \in Roots(h)}
           own == {c \in causes : c.of = r}
<1>1. States(h)[r].causes = own
  BY DEF States
<1>2. ASSUME NEW i \in Roots(h)
      PROVE  \A c : c \in CausesFrom(h, i) <=>
                 \E q \in StaleFrom(h, RelOf(h, i).target) :
                     c = [root |-> i, of |-> q, path |-> Paths(h, RelOf(h, i).target)[q]]
  BY PathsAreReaching DEF CausesFrom, StaleFrom
<1>3. ASSUME NEW i \in Roots(h), r \in StaleFrom(h, RelOf(h, i).target)
      PROVE  i \in {c.root : c \in own}
  <2> DEFINE c == [root |-> i, of |-> r, path |-> Paths(h, RelOf(h, i).target)[r]]
  <2>1. c \in CausesFrom(h, i)
    BY <1>2, <1>3
  <2>2. c.root = i /\ c.of = r
    OBVIOUS
  <2> HIDE DEF c
  <2>3. QED
    BY <2>1, <2>2
<1>4. ASSUME NEW c \in own
      PROVE  c.root \in Roots(h) /\ r \in StaleFrom(h, RelOf(h, c.root).target)
  <2>1. PICK i \in Roots(h) : c \in CausesFrom(h, i)
    OBVIOUS
  <2>2. PICK q \in StaleFrom(h, RelOf(h, i).target) :
            c = [root |-> i, of |-> q, path |-> Paths(h, RelOf(h, i).target)[q]]
    BY <1>2, <2>1
  <2>3. c.root = i /\ c.of = q /\ c.of = r
    BY <2>2
  <2>4. QED
    BY <2>2, <2>3
<1> HIDE DEF own
<1>5. QED
  BY <1>1, <1>3, <1>4

-----------------------------------------------------------------------------
(***************************************************************************)
(* What a growing history does to an activation, a root and a state.       *)
(***************************************************************************)
LEMMA ActivationStays ==
    ASSUME NEW h, Written(h), NEW H, Grows(h, H), Unique(H),
           NEW ev \in DOMAIN RelationTypeFor, NEW i \in Created(h, ev)
    PROVE  /\ i \in Created(H, ev) /\ i \in Activations(h)
           /\ H[i] = h[i] /\ RelOf(H, i) = RelOf(h, i)
<1>1. i \in Activations(h)
  BY DEF Created, Activations
<1>2. IsLog(h) /\ IsLog(H) /\ Len(h) <= Len(H) /\ \A k \in 1 .. Len(h) : h[k] = H[k]
  BY DEF Grows
<1>3. /\ Len(h) \in Nat /\ DOMAIN h = 1 .. Len(h)
      /\ Len(H) \in Nat /\ DOMAIN H = 1 .. Len(H)
  BY <1>2, LogFacts
<1>4. i \in Created(H, ev) /\ H[i] = h[i]
  BY <1>2, <1>3 DEF Created
<1>5. QED
  BY <1>1, <1>4, RelOfStays

LEMMA ActivationWas ==
    ASSUME NEW h, NEW H, Grows(h, H), NEW ev, NEW i \in Created(H, ev), i <= Len(h)
    PROVE  i \in Created(h, ev)
<1>1. IsLog(h) /\ IsLog(H) /\ \A k \in 1 .. Len(h) : h[k] = H[k]
  BY DEF Grows
<1>2. /\ Len(h) \in Nat /\ DOMAIN h = 1 .. Len(h)
      /\ Len(H) \in Nat /\ DOMAIN H = 1 .. Len(H)
  BY <1>1, LogFacts
<1>3. QED
  BY <1>1, <1>2 DEF Created

LEMMA RootStays ==
    ASSUME NEW h, Written(h), NEW H, Grows(h, H), Unique(H), NEW i \in Roots(h)
    PROVE  i \in Roots(H) /\ RelOf(H, i) = RelOf(h, i)
<1>1. i \in DOMAIN h /\ IsRoot(h, i)
  BY DEF Roots
<1>2. PICK ev \in {"superseded", "invalidated"} : i \in Created(h, ev)
  BY <1>1 DEF IsRoot, Created
<1>3. ev \in DOMAIN RelationTypeFor
  BY DEF RelationTypeFor
<1>4. i \in Created(H, ev) /\ H[i] = h[i] /\ RelOf(H, i) = RelOf(h, i)
  BY <1>2, <1>3, ActivationStays
<1>5. Len(h) \in Nat /\ DOMAIN h = 1 .. Len(h) /\ Len(H) \in Nat /\ DOMAIN H = 1 .. Len(H)
  BY LogFacts DEF Grows
<1>6. ASSUME NEW j \in Created(H, "invalidated"), j < i
      PROVE  j \in Created(h, "invalidated") /\ RelOf(H, j) = RelOf(h, j)
  <2>1. j <= Len(h)
    BY <1>1, <1>5, <1>6 DEF Created
  <2>2. j \in Created(h, "invalidated")
    BY <2>1, ActivationWas
  <2>3. "invalidated" \in DOMAIN RelationTypeFor
    BY DEF RelationTypeFor
  <2>4. QED
    BY <2>2, <2>3, ActivationStays
<1>7. IsRoot(H, i)
  BY <1>1, <1>4, <1>6 DEF IsRoot
<1>8. QED
  BY <1>4, <1>7 DEF Roots, Created

LEMMA ReachingGrows ==
    ASSUME NEW h, Written(h), NEW H, Grows(h, H), Unique(H), NEW root
    PROVE  StaleFrom(h, root) \subseteq StaleFrom(H, root)
<1>1. IsLog(h) /\ IsLog(H)
  BY DEF Grows
<1>2. "bound" \in DOMAIN RelationTypeFor
  BY DEF RelationTypeFor
<1>3. DependsOn(h) \subseteq DependsOn(H)
  BY <1>2, ActivationStays DEF DependsOn
<1> DEFINE X == Reaching(DependsOn(h), root)
           Y == Reaching(DependsOn(H), root)
<1>4. /\ \A C : root \in C /\ ClosedUnder(DependsOn(h), C) => X \subseteq C
      /\ root \in Y /\ ClosedUnder(DependsOn(H), Y)
  BY <1>1, DependsFinite, ReachingIsLeastClosed
<1>5. ClosedUnder(DependsOn(h), Y)
  BY <1>3, <1>4 DEF ClosedUnder
<1>6. X \subseteq Y
  BY <1>4, <1>5
<1>7. QED
  BY <1>6 DEF StaleFrom

LEMMA RecordIdStays ==
    ASSUME NEW h, NEW H, Grows(h, H), NEW r \in RecordIds(h)
    PROVE  r \in RecordIds(H)
<1>1. Len(h) <= Len(H) /\ \A k \in 1 .. Len(h) : h[k] = H[k]
  BY DEF Grows
<1>2. Len(h) \in Nat /\ DOMAIN h = 1 .. Len(h) /\ Len(H) \in Nat /\ DOMAIN H = 1 .. Len(H)
  BY LogFacts DEF Grows
<1>3. QED
  BY <1>1, <1>2 DEF RecordIds, Created

LEMMA UnusableStays ==
    ASSUME NEW h, Written(h), NEW H, Grows(h, H), Unique(H), NEW r \in RecordIds(h),
           ~Usable(States(h)[r])
    PROVE  ~Usable(States(H)[r])
<1>1. IsLog(h) /\ IsLog(H) /\ r \in RecordIds(H)
  BY RecordIdStays DEF Grows
<1>2. \A ev \in {"invalidated", "superseded"} : ev \in DOMAIN RelationTypeFor
  BY DEF RelationTypeFor
<1>3. PICK part \in {"invalidations", "superseded", "causes"} : States(h)[r][part] # {}
  BY DEF Usable
<1>4. CASE part = "invalidations"
  <2>1. PICK i \in Created(h, "invalidated") : RelOf(h, i).target = r
    BY <1>3, <1>4 DEF States
  <2>2. i \in Created(H, "invalidated") /\ RelOf(H, i).target = r
    BY <1>2, <2>1, ActivationStays
  <2>3. i \in States(H)[r].invalidations
    BY <1>1, <2>2 DEF States
  <2>4. QED
    BY <2>3 DEF Usable
<1>5. CASE part = "superseded"
  <2>1. PICK i \in Created(h, "superseded") : RelOf(h, i).target = r
    BY <1>3, <1>5 DEF States
  <2>2. i \in Created(H, "superseded") /\ RelOf(H, i).target = r
    BY <1>2, <2>1, ActivationStays
  <2>3. i \in States(H)[r].superseded
    BY <1>1, <2>2 DEF States
  <2>4. QED
    BY <2>3 DEF Usable
<1>6. CASE part = "causes"
  <2>1. PICK i \in Roots(h) : r \in StaleFrom(h, RelOf(h, i).target)
    BY <1>1, <1>3, <1>6, CausesAreReaching
  <2>2. i \in Roots(H) /\ r \in StaleFrom(H, RelOf(H, i).target)
    BY <2>1, RootStays, ReachingGrows
  <2>3. i \in {cause.root : cause \in States(H)[r].causes}
    BY <1>1, <2>2, CausesAreReaching
  <2>4. States(H)[r].causes # {}
    BY <2>3
  <2>5. QED
    BY <2>4 DEF Usable
<1>7. QED
  BY <1>3, <1>4, <1>5, <1>6

-----------------------------------------------------------------------------
(***************************************************************************)
(* Paths are compared by their length, and those of one length from their  *)
(* end, the root's side, by the places of the bindings.                    *)
(***************************************************************************)
Better(p, q) ==
    \/ Len(p) < Len(q)
    \/ /\ Len(p) = Len(q)
       /\ \E k \in 1 .. Len(p) : /\ p[k] < q[k]
                                 /\ \A j \in k + 1 .. Len(p) : p[j] = q[j]

Prepends(x, i, p) == /\ Len(x) = Len(p) + 1
                     /\ x[1] = i
                     /\ \A k \in 1 .. Len(p) : x[k + 1] = p[k]

LEMMA Numbers ==
    ASSUME NEW p \in Seq(Nat), NEW j \in 1 .. Len(p)
    PROVE  p[j] \in Nat
OBVIOUS

LEMMA BetterTransitive ==
    ASSUME NEW p \in Seq(Nat), NEW q \in Seq(Nat), NEW r \in Seq(Nat),
           Better(p, q), Better(q, r)
    PROVE  Better(p, r)
<1>1. Len(p) \in Nat /\ Len(q) \in Nat /\ Len(r) \in Nat
  OBVIOUS
<1>2. CASE Len(p) < Len(q) \/ Len(q) < Len(r)
  BY <1>1, <1>2 DEF Better
<1>3. CASE Len(p) = Len(q) /\ Len(q) = Len(r)
  <2>1. PICK k \in 1 .. Len(p) : p[k] < q[k] /\ \A j \in k + 1 .. Len(p) : p[j] = q[j]
    BY <1>1, <1>3 DEF Better
  <2>2. PICK m \in 1 .. Len(p) : q[m] < r[m] /\ \A j \in m + 1 .. Len(p) : q[j] = r[j]
    BY <1>1, <1>3 DEF Better
  <2>3. \A j \in 1 .. Len(p) : p[j] \in Nat /\ q[j] \in Nat /\ r[j] \in Nat
    BY <1>3, Numbers
  <2>4. PICK n \in 1 .. Len(p) : n = IF k < m THEN m ELSE k
    OBVIOUS
  <2>5. n >= k /\ n >= m /\ (n = k \/ n = m)
    BY <1>1, <2>4
  <2>6. p[n] < r[n]
    <3>1. n \in k + 1 .. Len(p) \/ n = k
      BY <1>1, <2>5
    <3>2. n \in m + 1 .. Len(p) \/ n = m
      BY <1>1, <2>5
    <3>3. p[n] \in Nat /\ q[n] \in Nat /\ r[n] \in Nat
      BY <2>3
    <3>4. p[n] < q[n] \/ (p[n] = q[n] /\ n = m)
      BY <2>1, <2>5, <3>1
    <3>5. q[n] < r[n] \/ (q[n] = r[n] /\ n = k)
      BY <2>2, <2>5, <3>2
    <3>6. (n = k => p[n] < q[n]) /\ (n = m => q[n] < r[n])
      BY <2>1, <2>2
    <3>7. PICK a \in Nat, b \in Nat, c \in Nat : a = p[n] /\ b = q[n] /\ c = r[n]
      BY <3>3
    <3>8. /\ a < b \/ a = b
          /\ b < c \/ b = c
          /\ a < b \/ b < c
      BY <2>5, <3>4, <3>5, <3>6, <3>7
    <3>9. a < c
      BY ONLY <3>8, a \in Nat, b \in Nat, c \in Nat
    <3>10. QED
      BY <3>7, <3>9
  <2>7. \A j \in n + 1 .. Len(p) : j \in k + 1 .. Len(p) /\ j \in m + 1 .. Len(p)
    BY <1>1, <2>5
  <2>8. \A j \in n + 1 .. Len(p) : p[j] = r[j]
    BY <2>1, <2>2, <2>7
  <2>9. QED
    BY <1>1, <1>3, <2>6, <2>8 DEF Better
<1>4. QED
  BY <1>1, <1>2, <1>3 DEF Better

LEMMA BetterAsymmetric ==
    ASSUME NEW p \in Seq(Nat), NEW q \in Seq(Nat), Better(p, q), Better(q, p)
    PROVE  FALSE
<1>1. Len(p) \in Nat /\ Len(q) \in Nat
  OBVIOUS
<1>2. Len(p) = Len(q)
  BY <1>1 DEF Better
<1>3. PICK k \in 1 .. Len(p) : p[k] < q[k] /\ \A j \in k + 1 .. Len(p) : p[j] = q[j]
  BY <1>1, <1>2 DEF Better
<1>4. PICK m \in 1 .. Len(p) : q[m] < p[m] /\ \A j \in m + 1 .. Len(p) : q[j] = p[j]
  BY <1>1, <1>2 DEF Better
<1>5. \A j \in 1 .. Len(p) : p[j] \in Nat /\ q[j] \in Nat
  BY <1>1, <1>2
<1>6. k = m \/ k \in m + 1 .. Len(p) \/ m \in k + 1 .. Len(p)
  BY <1>1
<1>7. QED
  BY <1>3, <1>4, <1>5, <1>6

(***************************************************************************)
(* A better path stays better with a binding in front of it; of two        *)
(* bindings in front of one path the older is better.                      *)
(***************************************************************************)
LEMMA BetterBehind ==
    ASSUME NEW p \in Seq(Nat), NEW q \in Seq(Nat), Better(p, q),
           NEW x, NEW i, Prepends(x, i, p), NEW y, NEW j, Prepends(y, j, q)
    PROVE  Better(x, y)
<1>1. Len(p) \in Nat /\ Len(q) \in Nat
  OBVIOUS
<1>2. Len(x) = Len(p) + 1 /\ Len(y) = Len(q) + 1
  BY DEF Prepends
<1>3. CASE Len(p) < Len(q)
  BY <1>1, <1>2, <1>3 DEF Better
<1>4. CASE Len(p) = Len(q)
  <2>1. PICK k \in 1 .. Len(p) : p[k] < q[k] /\ \A n \in k + 1 .. Len(p) : p[n] = q[n]
    BY <1>1, <1>4 DEF Better
  <2>2. x[k + 1] < y[k + 1]
    BY <1>4, <2>1 DEF Prepends
  <2>3. ASSUME NEW n \in (k + 1) + 1 .. Len(x) PROVE x[n] = y[n]
    <3>1. n - 1 \in k + 1 .. Len(p) /\ n - 1 \in 1 .. Len(p) /\ (n - 1) + 1 = n
      BY <1>1, <1>2
    <3>2. x[(n - 1) + 1] = p[n - 1] /\ y[(n - 1) + 1] = q[n - 1]
      BY <1>4, <3>1 DEF Prepends
    <3>3. QED
      BY <2>1, <3>1, <3>2
  <2>4. k + 1 \in 1 .. Len(x)
    BY <1>1, <1>2
  <2>5. QED
    BY <1>2, <1>4, <2>2, <2>3, <2>4 DEF Better
<1>5. QED
  BY <1>1, <1>3, <1>4 DEF Better

LEMMA BetterInFront ==
    ASSUME NEW p \in Seq(Nat), NEW i, NEW j, i < j,
           NEW x, Prepends(x, i, p), NEW y, Prepends(y, j, p)
    PROVE  Better(x, y)
<1>1. Len(p) \in Nat /\ Len(x) = Len(p) + 1 /\ Len(y) = Len(p) + 1
  BY DEF Prepends
<1>2. ASSUME NEW n \in 1 + 1 .. Len(x) PROVE x[n] = y[n]
  <2>1. n - 1 \in 1 .. Len(p) /\ (n - 1) + 1 = n
    BY <1>1
  <2>2. x[(n - 1) + 1] = p[n - 1] /\ y[(n - 1) + 1] = p[n - 1]
    BY <2>1 DEF Prepends
  <2>3. QED
    BY <2>1, <2>2
<1>3. 1 \in 1 .. Len(x) /\ x[1] < y[1]
  BY <1>1 DEF Prepends
<1>4. QED
  BY <1>1, <1>2, <1>3 DEF Better

LEMMA PrependsSame ==
    ASSUME NEW S, NEW x \in Seq(S), NEW y \in Seq(S), NEW i, NEW p,
           Prepends(x, i, p), Prepends(y, i, p), Len(p) \in Nat
    PROVE  x = y
<1>1. Len(x) = Len(p) + 1 /\ Len(y) = Len(p) + 1 /\ x[1] = y[1]
  BY DEF Prepends
<1>2. ASSUME NEW n \in 1 .. Len(x) PROVE x[n] = y[n]
  <2>1. CASE n = 1
    BY <1>1, <2>1
  <2>2. CASE n # 1
    <3>1. n - 1 \in 1 .. Len(p) /\ (n - 1) + 1 = n
      BY <1>1, <2>2
    <3>2. x[(n - 1) + 1] = p[n - 1] /\ y[(n - 1) + 1] = p[n - 1]
      BY <3>1 DEF Prepends
    <3>3. QED
      BY <3>1, <3>2
  <2>3. QED
    BY <2>1, <2>2
<1>3. QED
  BY <1>1, <1>2

-----------------------------------------------------------------------------
(***************************************************************************)
(* What a search from root keeps.  Every record found but the root has a   *)
(* binding that was followed to it, the earliest of all that could have    *)
(* been; its path is that binding and the path of what it depends on.  The *)
(* earlier a record was found the better its path.                         *)
(***************************************************************************)
Leads(h, r, p, root) ==
    /\ p \in Seq(Created(h, "bound")) /\ p # <<>>
    /\ RelOf(h, p[1]).source = r
    /\ RelOf(h, p[Len(p)]).target = root
    /\ \A k \in 1 .. Len(p) - 1 : RelOf(h, p[k]).target = RelOf(h, p[k + 1]).source

FoundOver(h, root, s, r, f) ==
    /\ f \in Created(h, "bound")
    /\ RelOf(h, f).source = r
    /\ RelOf(h, f).target \in DOMAIN s.path
    /\ s.found[RelOf(h, f).target] < s.found[r]
    /\ Prepends(s.path[r], f, s.path[RelOf(h, f).target])
    /\ Leads(h, r, s.path[r], root)

InTurn(h, s, r, f) ==
    \A j \in Created(h, "bound") :
        /\ RelOf(h, j).target \in DOMAIN s.path
        /\ RelOf(h, j).source = r \/ RelOf(h, j).source \notin DOMAIN s.path
        => NoLater(h, s, f, j)

Numbered(s) ==
    /\ \A r \in DOMAIN s.path : s.found[r] < Cardinality(DOMAIN s.path)
    /\ \A r, q \in DOMAIN s.path : s.found[r] = s.found[q] => r = q

Ordered(h, root, s) ==
    /\ s.path[root] = <<>>
    /\ Numbered(s)
    /\ \A r \in DOMAIN s.path \ {root} :
           \E f \in Created(h, "bound") : FoundOver(h, root, s, r, f) /\ InTurn(h, s, r, f)
    /\ \A r, q \in DOMAIN s.path : s.found[r] < s.found[q] => Better(s.path[r], s.path[q])

LEMMA VisitPath ==
    ASSUME NEW h, IsLog(h), NEW root, NEW s \in SearchStates(h, root), NEW i \in Unfollowed(h, s),
           NEW n, n = Visit(h, s, i), NEW v, v = RelOf(h, i).source, NEW t, t = RelOf(h, i).target
    PROVE  Prepends(n.path[v], i, s.path[t])
<1>1. /\ n.path[v] = <<i>> \o s.path[t]
      /\ s.path[t] \in Seq(Created(h, "bound"))
      /\ i \in Created(h, "bound")
  BY StateFacts DEF Unfollowed, Visit, With
<1>2. PICK p \in Seq(Created(h, "bound")) : p = s.path[t]
  BY <1>1
<1>3. PICK x : x = <<i>> \o p
  OBVIOUS
<1>4. Len(x) = Len(p) + 1 /\ x[1] = i /\ \A k \in 1 .. Len(p) : x[k + 1] = p[k]
  <2>1. <<i>> \in Seq(Created(h, "bound")) /\ Len(<<i>>) = 1 /\ <<i>>[1] = i
    BY <1>1
  <2>2. /\ Len(x) = Len(<<i>>) + Len(p)
        /\ \A k \in 1 .. Len(<<i>>) + Len(p) : 
               x[k] = IF k <= Len(<<i>>) THEN <<i>>[k] ELSE p[k - Len(<<i>>)]
    BY <1>2, <1>3, <2>1, ConcatProperties
  <2>3. Len(p) \in Nat
    OBVIOUS
  <2>4. 1 \in 1 .. 1 + Len(p) /\ \A k \in 1 .. Len(p) : k + 1 \in 1 .. 1 + Len(p) /\ ~(k + 1 <= 1)
                                                        /\ (k + 1) - 1 = k
    BY <2>3
  <2>5. QED
    BY <2>1, <2>2, <2>3, <2>4
<1>5. QED
  BY <1>1, <1>2, <1>3, <1>4 DEF Prepends

LEMMA PathNumbers ==
    ASSUME NEW h, IsLog(h), NEW p \in Seq(Created(h, "bound"))
    PROVE  p \in Seq(Nat)
BY BoundFinite

LEMMA LeadsOn ==
    ASSUME NEW h, NEW root, NEW i \in Created(h, "bound"), NEW p, NEW x,
           Prepends(x, i, p), x \in Seq(Created(h, "bound")), p \in Seq(Created(h, "bound")),
           p # <<>> => Leads(h, RelOf(h, i).target, p, root),
           p = <<>> => RelOf(h, i).target = root
    PROVE  Leads(h, RelOf(h, i).source, x, root)
<1>1. Len(p) \in Nat /\ Len(x) = Len(p) + 1 /\ x[1] = i
      /\ \A k \in 1 .. Len(p) : x[k + 1] = p[k]
  BY DEF Prepends
<1>2. x # <<>>
  BY <1>1
<1>3. CASE p = <<>>
  <2>1. Len(p) = 0 /\ Len(x) = 1
    BY <1>1, <1>3
  <2>2. QED
    BY <1>1, <1>2, <1>3, <2>1 DEF Leads
<1>4. CASE p # <<>>
  <2>1. Len(p) # 0 /\ 1 \in 1 .. Len(p) /\ Len(p) \in 1 .. Len(p)
    BY <1>1, <1>4
  <2>2. x[Len(x)] = p[Len(p)]
    BY <1>1, <2>1
  <2>3. ASSUME NEW k \in 1 .. Len(x) - 1
        PROVE  RelOf(h, x[k]).target = RelOf(h, x[k + 1]).source
    <3>1. CASE k = 1
      BY <1>1, <1>4, <2>1, <3>1 DEF Leads
    <3>2. CASE k # 1
      <4>1. k - 1 \in 1 .. Len(p) - 1 /\ k - 1 \in 1 .. Len(p) /\ k \in 1 .. Len(p)
            /\ (k - 1) + 1 = k
        BY <1>1, <3>2
      <4>2. x[k] = p[k - 1] /\ x[k + 1] = p[k]
        BY <1>1, <4>1
      <4>3. RelOf(h, p[k - 1]).target = RelOf(h, p[(k - 1) + 1]).source
        BY <1>4, <4>1 DEF Leads
      <4>4. QED
        BY <4>1, <4>2, <4>3
    <3>3. QED
      BY <3>1, <3>2
  <2>4. QED
    BY <1>1, <1>2, <1>4, <2>2, <2>3 DEF Leads
<1>5. QED
  BY <1>3, <1>4

LEMMA OrderKept ==
    ASSUME NEW h, IsLog(h), NEW root, NEW s \in SearchStates(h, root), Ordered(h, root, s),
           NEW i \in Unfollowed(h, s), \A j \in Unfollowed(h, s) : NoLater(h, s, i, j),
           NEW n, n = Visit(h, s, i)
    PROVE  Ordered(h, root, n)
<1> DEFINE D == DOMAIN s.path
           N == DOMAIN n.path
           src(j) == RelOf(h, j).source
           tgt(j) == RelOf(h, j).target
<1>1. PICK v : v = src(i)
  OBVIOUS
<1>2. PICK t : t = tgt(i)
  OBVIOUS
<1>3. PICK k : k = Cardinality(D)
  OBVIOUS
<1>4. /\ v \notin D /\ t \in D /\ N = D \cup {v} /\ n.found[v] = k
      /\ \A r \in D : n.path[r] = s.path[r] /\ n.found[r] = s.found[r]
      /\ n \in SearchStates(h, root)
  BY <1>1, <1>2, <1>3, VisitFacts
<1>5. Prepends(n.path[v], i, s.path[t])
  BY <1>1, <1>2, VisitPath
<1>6. /\ root \in D
      /\ \A r \in D : s.found[r] \in Nat /\ s.path[r] \in Seq(Created(h, "bound"))
      /\ n.path[v] \in Seq(Created(h, "bound"))
  BY <1>4, StateFacts
<1>7. k \in Nat /\ Cardinality(N) = k + 1
  <2>1. IsFiniteSet(D)
    BY StateFacts, FindableFinite, FS_Subset
  <2>2. QED
    BY <1>3, <1>4, <2>1, FS_AddElement, FS_CardinalityType
<1>8. /\ s.path[root] = <<>>
      /\ \A r \in D : s.found[r] < k
      /\ \A r, q \in D : s.found[r] = s.found[q] => r = q
      /\ \A r, q \in D : s.found[r] < s.found[q] => Better(s.path[r], s.path[q])
      /\ \A r \in D \ {root} :
             \E f \in Created(h, "bound") : FoundOver(h, root, s, r, f) /\ InTurn(h, s, r, f)
  BY <1>3 DEF Ordered, Numbered
<1>9. i \in Created(h, "bound")
  BY DEF Unfollowed
<1>10. ASSUME NEW f \in Created(h, "bound"), tgt(f) \in D, NEW j \in Created(h, "bound"),
              tgt(j) \in N, tgt(j) \in D => NoLater(h, s, f, j)
       PROVE  NoLater(h, n, f, j)
  <2>1. CASE tgt(j) \in D
    BY <1>4, <1>10, <2>1 DEF NoLater
  <2>2. CASE tgt(j) = v
    <3>1. n.found[tgt(f)] < n.found[tgt(j)]
      BY <1>4, <1>8, <1>10, <2>2
    <3>2. QED
      BY <3>1 DEF NoLater
  <2>3. QED
    BY <1>4, <1>10, <2>1, <2>2
<1>11. FoundOver(h, root, n, v, i) /\ InTurn(h, n, v, i)
  <2>1. s.path[t] # <<>> => Leads(h, t, s.path[t], root)
    BY <1>4, <1>8 DEF FoundOver
  <2>2. s.path[t] = <<>> => t = root
    BY <1>4, <1>8 DEF FoundOver, Leads
  <2>3. Leads(h, v, n.path[v], root)
    BY <1>1, <1>2, <1>4, <1>5, <1>6, <1>9, <2>1, <2>2, LeadsOn
  <2>4. FoundOver(h, root, n, v, i)
    BY <1>1, <1>2, <1>4, <1>5, <1>8, <1>9, <2>3 DEF FoundOver
  <2>5. ASSUME NEW j \in Created(h, "bound"), tgt(j) \in D, src(j) = v \/ src(j) \notin N
        PROVE  NoLater(h, s, i, j)
    BY <1>4, <2>5 DEF Unfollowed
  <2>6. InTurn(h, n, v, i)
    BY <1>2, <1>4, <1>9, <1>10, <2>5 DEF InTurn
  <2>7. QED
    BY <2>4, <2>6
<1>12. ASSUME NEW r \in D \ {root}
       PROVE  \E f \in Created(h, "bound") : FoundOver(h, root, n, r, f) /\ InTurn(h, n, r, f)
  <2>1. PICK f \in Created(h, "bound") : FoundOver(h, root, s, r, f) /\ InTurn(h, s, r, f)
    BY <1>8
  <2>2. tgt(f) \in D
    BY <2>1 DEF FoundOver
  <2>3. FoundOver(h, root, n, r, f)
    BY <1>4, <2>1, <2>2 DEF FoundOver
  <2>4. InTurn(h, n, r, f)
    BY <1>4, <1>10, <2>1, <2>2 DEF InTurn
  <2>5. QED
    BY <2>3, <2>4
<1>13. ASSUME NEW r \in D PROVE Better(n.path[r], n.path[v])
  <2>1. s.path[t] \in Seq(Nat) /\ n.path[v] \in Seq(Nat) /\ s.path[r] \in Seq(Nat)
    BY <1>4, <1>6, PathNumbers
  <2>2. CASE r = root
    <3>1. Len(n.path[v]) = Len(s.path[t]) + 1 /\ Len(s.path[t]) \in Nat /\ Len(n.path[r]) = 0
      BY <1>4, <1>5, <1>8, <2>1, <2>2 DEF Prepends
    <3>2. QED
      BY <3>1 DEF Better
  <2>3. CASE r # root
    <3>1. PICK f \in Created(h, "bound") : FoundOver(h, root, s, r, f) /\ InTurn(h, s, r, f)
      BY <1>8, <2>3
    <3>2. PICK u : u = tgt(f)
      OBVIOUS
    <3>3. u \in D /\ Prepends(s.path[r], f, s.path[u]) /\ src(f) = r
      BY <3>1, <3>2 DEF FoundOver
    <3>4. s.path[u] \in Seq(Nat)
      BY <1>6, <3>3, PathNumbers
    <3>5. s.found[u] < s.found[t] \/ (s.found[u] = s.found[t] /\ f <= i)
      BY <1>1, <1>2, <1>4, <1>9, <3>1, <3>2 DEF InTurn, NoLater
    <3>6. CASE s.found[u] < s.found[t]
      <4>1. Better(s.path[u], s.path[t])
        BY <1>4, <1>8, <3>3, <3>6
      <4>2. QED
        BY <1>4, <1>5, <2>1, <3>3, <3>4, <4>1, BetterBehind
    <3>7. CASE s.found[u] = s.found[t] /\ f <= i
      <4>1. u = t
        BY <1>4, <1>8, <3>3, <3>7
      <4>2. f # i
        BY <1>1, <1>4, <3>3
      <4>3. f < i
        BY <1>9, <3>1, <3>7, <4>2, BoundFinite
      <4>4. QED
        BY <1>4, <1>5, <2>1, <3>3, <4>1, <4>3, BetterInFront
    <3>8. QED
      BY <3>5, <3>6, <3>7
  <2>4. QED
    BY <2>2, <2>3
<1>14. n.path[root] = <<>>
  BY <1>4, <1>6, <1>8
<1>15. Numbered(n)
  <2>1. ASSUME NEW r \in N PROVE n.found[r] < Cardinality(N)
    <3>1. CASE r = v
      BY <1>4, <1>7, <3>1
    <3>2. CASE r \in D
      <4>1. n.found[r] \in Nat /\ n.found[r] < k
        BY <1>4, <1>6, <1>8, <3>2
      <4>2. QED
        BY <1>7, <4>1
    <3>3. QED
      BY <1>4, <3>1, <3>2
  <2>2. ASSUME NEW r \in N, NEW q \in N, n.found[r] = n.found[q] PROVE r = q
    BY <1>4, <1>6, <1>7, <1>8, <2>2
  <2>3. QED
    BY <2>1, <2>2 DEF Numbered
<1>16. ASSUME NEW r \in N, NEW q \in N, n.found[r] < n.found[q]
       PROVE  Better(n.path[r], n.path[q])
  <2>1. r \in D
    BY <1>4, <1>6, <1>7, <1>8, <1>16
  <2>2. QED
    BY <1>4, <1>8, <1>13, <1>16, <2>1
<1>17. \A r \in N \ {root} :
           \E f \in Created(h, "bound") : FoundOver(h, root, n, r, f) /\ InTurn(h, n, r, f)
  BY <1>4, <1>9, <1>11, <1>12
<1>18. QED
  BY <1>14, <1>15, <1>16, <1>17 DEF Ordered

LEMMA FoundOrdered ==
    ASSUME NEW h, IsLog(h), NEW root
    PROVE  Ordered(h, root, Found(h, root))
<1> DEFINE G == {s \in SearchStates(h, root) : Ordered(h, root, s)}
<1>1. RootOnly(root) \in G
  <2>1. PICK s \in SearchStates(h, root) : s = RootOnly(root)
    BY RootOnlyState
  <2>2. DOMAIN s.path = {root} /\ s.path[root] = <<>> /\ s.found[root] = 0
    BY <2>1 DEF RootOnly
  <2>3. Cardinality({root}) = 1
    BY FS_Singleton
  <2>4. Ordered(h, root, s)
    BY <2>2, <2>3 DEF Ordered, Numbered
  <2>5. QED
    BY <2>1, <2>4
<1>2. ASSUME NEW s \in G PROVE Expand(h, s) \in G
  <2>1. CASE Unfollowed(h, s) = {}
    BY <2>1 DEF Expand
  <2>2. CASE Unfollowed(h, s) # {}
    <3>1. PICK i : i = Earliest(h, s)
      OBVIOUS
    <3>2. /\ i \in Unfollowed(h, s) /\ \A j \in Unfollowed(h, s) : NoLater(h, s, i, j)
          /\ Expand(h, s) = Visit(h, s, i)
      BY <2>2, <3>1, EarliestExists DEF Expand
    <3>3. QED
      BY <3>2, OrderKept, VisitState
  <2>3. QED
    BY <2>1, <2>2
<1>3. G \in SUBSET SearchStates(h, root)
  OBVIOUS
<1> HIDE DEF G
<1>4. Found(h, root) \in G
  BY <1>1, <1>2, <1>3, SearchKeeps, BoundFinite DEF Found
<1>5. QED
  BY <1>4 DEF G

(***************************************************************************)
(* The path the search gives is better than all other paths from the       *)
(* record to the root, simple or not: by induction on their length.        *)
(***************************************************************************)
Walks(h, q, p, root) == IF p = <<>> THEN q = root ELSE Leads(h, q, p, root)

LEMMA WalkRest ==
    ASSUME NEW h, NEW root, NEW q, NEW p \in Seq(Created(h, "bound")), p # <<>>,
           Walks(h, q, p, root)
    PROVE  /\ p[1] \in Created(h, "bound") /\ RelOf(h, p[1]).source = q
           /\ \E x \in Seq(Created(h, "bound")) :
                  Prepends(p, p[1], x) /\ Walks(h, RelOf(h, p[1]).target, x, root)
<1> DEFINE B == Created(h, "bound")
           x == [k \in 1 .. Len(p) - 1 |-> p[k + 1]]
<1>1. Len(p) \in Nat /\ Len(p) # 0 /\ Leads(h, q, p, root) /\ 1 \in 1 .. Len(p)
  BY DEF Walks
<1>2. p[1] \in B /\ RelOf(h, p[1]).source = q
  BY <1>1 DEF Leads
<1>3. x \in Seq(B) /\ Len(x) = Len(p) - 1
  <2>1. Len(p) - 1 \in Nat /\ \A k \in 1 .. Len(p) - 1 : k + 1 \in 1 .. Len(p)
    BY <1>1
  <2>2. \A k \in 1 .. Len(p) - 1 : p[k + 1] \in B
    BY <2>1
  <2>3. x \in [1 .. Len(p) - 1 -> B]
    BY <2>2
  <2>4. QED
    BY <2>1, <2>3
<1>4. Prepends(p, p[1], x)
  BY <1>1, <1>3 DEF Prepends
<1>5. Walks(h, RelOf(h, p[1]).target, x, root)
  <2>1. CASE x = <<>>
    <3>1. Len(p) = 1
      <4> HIDE DEF x
      <4>1. QED
        BY <1>1, <1>3, <2>1
    <3>2. QED
      BY <1>1, <2>1, <3>1 DEF Walks, Leads
  <2>2. CASE x # <<>>
    <3>1. Len(x) # 0 /\ Len(x) \in Nat /\ 1 \in 1 .. Len(p) - 1 /\ Len(p) - 1 \in 1 .. Len(p) - 1
      BY <1>1, <1>3, <2>2
    <3>2. x[1] = p[1 + 1] /\ x[Len(x)] = p[(Len(p) - 1) + 1] /\ (Len(p) - 1) + 1 = Len(p)
      BY <1>1, <1>3, <3>1
    <3>3. ASSUME NEW k \in 1 .. Len(x) - 1
          PROVE  RelOf(h, x[k]).target = RelOf(h, x[k + 1]).source
      <4>1. k \in 1 .. Len(p) - 1 /\ k + 1 \in 1 .. Len(p) - 1
        BY <1>1, <1>3
      <4>2. x[k] = p[k + 1] /\ x[k + 1] = p[(k + 1) + 1]
        BY <4>1
      <4>3. QED
        BY <1>1, <4>1, <4>2 DEF Leads
    <3> HIDE DEF x
    <3>4. Leads(h, RelOf(h, p[1]).target, x, root)
      BY <1>1, <1>3, <2>2, <3>1, <3>2, <3>3 DEF Leads
    <3>5. QED
      BY <2>2, <3>4 DEF Walks
  <2>3. QED
    BY <2>1, <2>2
<1> HIDE DEF x
<1>6. QED
  BY <1>2, <1>3, <1>4, <1>5

LEMMA BestOfWalks ==
    ASSUME NEW h, IsLog(h), NEW root, NEW s, s = Found(h, root),
           NEW q, NEW p \in Seq(Created(h, "bound")), Walks(h, q, p, root)
    PROVE  q \in DOMAIN s.path /\ (s.path[q] = p \/ Better(s.path[q], p))
<1> DEFINE B == Created(h, "bound")
           D == DOMAIN s.path
           T == {n \in Nat : \A r : \A x \in Seq(B) :
                     Len(x) = n /\ Walks(h, r, x, root)
                     => r \in D /\ (s.path[r] = x \/ Better(s.path[r], x))}
<1>1. /\ s \in SearchStates(h, root) /\ Unfollowed(h, s) = {} /\ Ordered(h, root, s)
  BY SearchEnds, FoundOrdered
<1>2. /\ root \in D /\ s.path[root] = <<>>
      /\ \A r \in D : s.path[r] \in Seq(B) /\ s.path[r] \in Seq(Nat)
      /\ \A r, t \in D : s.found[r] = s.found[t] => r = t
      /\ \A r, t \in D : s.found[r] < s.found[t] => Better(s.path[r], s.path[t])
  <2>1. \A r \in D : s.path[r] \in Seq(B)
    BY <1>1, StateFacts
  <2>2. QED
    BY <1>1, <2>1, StateFacts, PathNumbers DEF Ordered, Numbered
<1>3. 0 \in T
  BY <1>2 DEF Walks
<1>4. ASSUME NEW n \in T PROVE n + 1 \in T
  <2>1. n \in Nat /\ n + 1 \in Nat
    OBVIOUS
  <2>2. SUFFICES ASSUME NEW r, NEW x \in Seq(B), Len(x) = n + 1, Walks(h, r, x, root)
                 PROVE  r \in D /\ (s.path[r] = x \/ Better(s.path[r], x))
    BY <2>1
  <2>3. x # <<>>
    BY <2>1, <2>2
  <2>4. PICK i \in B : i = x[1] /\ RelOf(h, i).source = r
    BY <2>2, <2>3, WalkRest
  <2>5. PICK y \in Seq(B) : Prepends(x, i, y) /\ Walks(h, RelOf(h, i).target, y, root)
    BY <2>2, <2>3, <2>4, WalkRest
  <2>6. PICK t : t = RelOf(h, i).target
    OBVIOUS
  <2>7. Len(y) = n
    BY <2>1, <2>2, <2>5 DEF Prepends
  <2>8. t \in D /\ (s.path[t] = y \/ Better(s.path[t], y))
    BY <2>5, <2>6, <2>7
  <2>9. r \in D
    BY <1>1, <2>4, <2>6, <2>8 DEF Unfollowed
  <2>10. x \in Seq(Nat) /\ y \in Seq(Nat)
    BY PathNumbers
  <2> HIDE DEF T
  <2>11. CASE r = root
    <3>1. Len(s.path[r]) = 0 /\ Len(x) > 0
      BY <1>2, <2>1, <2>2, <2>11
    <3>2. QED
      BY <2>9, <3>1 DEF Better
  <2>12. CASE r # root
    <3>1. PICK f \in B : FoundOver(h, root, s, r, f) /\ InTurn(h, s, r, f)
      BY <1>1, <2>9, <2>12 DEF Ordered
    <3>2. PICK u : u = RelOf(h, f).target
      OBVIOUS
    <3>3. u \in D /\ Prepends(s.path[r], f, s.path[u])
      BY <3>1, <3>2 DEF FoundOver
    <3>4. s.found[u] < s.found[t] \/ (s.found[u] = s.found[t] /\ f <= i)
      BY <2>4, <2>6, <2>8, <3>1, <3>2 DEF InTurn, NoLater
    <3>5. s.path[u] \in Seq(Nat) /\ s.path[t] \in Seq(Nat) /\ s.path[r] \in Seq(B)
      BY <1>2, <2>8, <2>9, <3>3
    <3>6. CASE s.found[u] < s.found[t]
      <4>1. Better(s.path[u], s.path[t])
        BY <1>2, <2>8, <3>3, <3>6
      <4>2. Better(s.path[u], y)
        BY <2>8, <2>10, <3>5, <4>1, BetterTransitive
      <4>3. QED
        BY <2>5, <2>9, <2>10, <3>3, <3>5, <4>2, BetterBehind
    <3>7. CASE s.found[u] = s.found[t] /\ f <= i
      <4>1. u = t
        BY <1>2, <2>8, <3>3, <3>7
      <4>2. CASE Better(s.path[t], y)
        BY <2>5, <2>9, <2>10, <3>3, <3>5, <4>1, <4>2, BetterBehind
      <4>3. CASE s.path[t] = y /\ f = i
        <5>1. Prepends(s.path[r], i, y) /\ Len(y) \in Nat
          BY <3>3, <4>1, <4>3
        <5>2. s.path[r] = x
          BY <2>5, <3>5, <5>1, PrependsSame
        <5>3. QED
          BY <2>9, <5>2
      <4>4. CASE s.path[t] = y /\ f # i
        <5>1. f < i
          BY <3>7, <4>4, BoundFinite
        <5>2. Better(s.path[r], x)
          BY <2>5, <2>10, <3>3, <4>1, <4>4, <5>1, BetterInFront
        <5>3. QED
          BY <2>9, <5>2
      <4>5. QED
        BY <2>8, <4>2, <4>3, <4>4
    <3>8. QED
      BY <3>4, <3>6, <3>7
  <2>13. QED
    BY <2>11, <2>12
<1>5. T \in SUBSET Nat
  OBVIOUS
<1>6. T = Nat
  <2> HIDE DEF T
  <2>1. QED
    BY <1>3, <1>4, <1>5, AllNumbers
<1>7. Len(p) \in T
  BY <1>6
<1>8. QED
  BY <1>7

(***************************************************************************)
(* The path of a stale record: it leads to the root, and is the best.      *)
(***************************************************************************)
LEMMA PathsAreBest ==
    ASSUME NEW h, IsLog(h), NEW root, NEW r \in DOMAIN Paths(h, root) \ {root}
    PROVE  /\ Leads(h, r, Paths(h, root)[r], root)
           /\ \A p : Leads(h, r, p, root) =>
                  Paths(h, root)[r] = p \/ Better(Paths(h, root)[r], p)
<1>1. PICK s : s = Found(h, root)
  OBVIOUS
<1>2. Paths(h, root) = s.path /\ Ordered(h, root, s)
  BY <1>1, SearchEnds, FoundOrdered
<1>3. Leads(h, r, s.path[r], root)
  BY <1>2 DEF Ordered, FoundOver
<1>4. ASSUME NEW p, Leads(h, r, p, root) PROVE s.path[r] = p \/ Better(s.path[r], p)
  <2>1. p \in Seq(Created(h, "bound")) /\ Walks(h, r, p, root)
    BY <1>4 DEF Leads, Walks
  <2>2. QED
    BY <1>1, <2>1, BestOfWalks
<1>5. QED
  BY <1>2, <1>3, <1>4

-----------------------------------------------------------------------------
(***************************************************************************)
(* The causes of a stale record, one for each root it is stale from.       *)
(***************************************************************************)
CauseFrom(h, r, i) == [root |-> i, of |-> r, path |-> Paths(h, RelOf(h, i).target)[r]]

RootsOf(h, r) == {i \in Roots(h) : r \in StaleFrom(h, RelOf(h, i).target)}

LEMMA CausesAre ==
    ASSUME NEW h, IsLog(h), NEW r \in RecordIds(h)
    PROVE  /\ States(h)[r].causes = {CauseFrom(h, r, i) : i \in RootsOf(h, r)}
           /\ \A i \in RootsOf(h, r) :
                  r \in DOMAIN Paths(h, RelOf(h, i).target) \ {RelOf(h, i).target}
<1> DEFINE causes == UNION {CausesFrom(h, i) : i \in Roots(h)}
           own == {c \in causes : c.of = r}
           mine == {CauseFrom(h, r, i) : i \in RootsOf(h, r)}
<1>1. States(h)[r].causes = own
  BY DEF States
<1>2. \A i \in Roots(h) :
          DOMAIN Paths(h, RelOf(h, i).target) \ {RelOf(h, i).target} = StaleFrom(h, RelOf(h, i).target)
  BY PathsAreReaching DEF StaleFrom
<1>3. ASSUME NEW c \in own PROVE c \in mine
  <2>1. PICK i \in Roots(h) : c \in CausesFrom(h, i)
    OBVIOUS
  <2>2. PICK q \in StaleFrom(h, RelOf(h, i).target) : c = CauseFrom(h, q, i)
    BY <1>2, <2>1 DEF CausesFrom, CauseFrom
  <2>3. q = r
    BY <2>2 DEF CauseFrom
  <2>4. QED
    BY <2>2, <2>3 DEF RootsOf
<1>4. ASSUME NEW c \in mine PROVE c \in own
  <2>1. PICK i \in RootsOf(h, r) : c = CauseFrom(h, r, i)
    OBVIOUS
  <2>2. i \in Roots(h) /\ r \in StaleFrom(h, RelOf(h, i).target)
    BY DEF RootsOf
  <2>3. c \in CausesFrom(h, i) /\ c.of = r
    BY <1>2, <2>1, <2>2 DEF CausesFrom, CauseFrom
  <2>4. QED
    BY <2>2, <2>3
<1> HIDE DEF own, mine
<1>5. own = mine
  BY <1>3, <1>4
<1>6. QED
  BY <1>1, <1>2, <1>5 DEF mine, RootsOf

LEMMA RootsOfStay ==
    ASSUME NEW h, Written(h), NEW H, Grows(h, H), Unique(H), NEW r, NEW i \in RootsOf(h, r)
    PROVE  i \in RootsOf(H, r) /\ RelOf(H, i) = RelOf(h, i)
BY RootStays, ReachingGrows DEF RootsOf

LEMMA LeadsStays ==
    ASSUME NEW h, Written(h), NEW H, Grows(h, H), Unique(H), NEW r, NEW p, NEW root,
           Leads(h, r, p, root)
    PROVE  Leads(H, r, p, root)
<1> DEFINE B == Created(h, "bound")
<1>1. "bound" \in DOMAIN RelationTypeFor
  BY DEF RelationTypeFor
<1>2. \A i \in B : i \in Created(H, "bound") /\ RelOf(H, i) = RelOf(h, i)
  BY <1>1, ActivationStays
<1>3. p \in Seq(B) /\ p # <<>> /\ Len(p) \in Nat
  BY DEF Leads
<1>4. \A k \in 1 .. Len(p) : p[k] \in B
  BY <1>3
<1> HIDE DEF B
<1>5. \A k \in 1 .. Len(p) : RelOf(H, p[k]) = RelOf(h, p[k])
  BY <1>2, <1>4
<1>6. p \in Seq(Created(H, "bound"))
  BY <1>2, <1>3
<1>7. 1 \in 1 .. Len(p) /\ Len(p) \in 1 .. Len(p)
      /\ \A k \in 1 .. Len(p) - 1 : k \in 1 .. Len(p) /\ k + 1 \in 1 .. Len(p)
  <2>1. Len(p) # 0
    BY <1>3
  <2>2. QED
    BY <1>3, <2>1
<1>8. QED
  BY <1>3, <1>5, <1>6, <1>7 DEF Leads

(***************************************************************************)
(* As a ledger grows the path of a cause is replaced by a better one only: *)
(* there are more paths to choose from, and the choice is the same.        *)
(***************************************************************************)
LEMMA PathImproves ==
    ASSUME NEW h, Written(h), NEW H, Grows(h, H), Unique(H), NEW r, NEW i \in RootsOf(h, r),
           r \in RecordIds(h)
    PROVE  LET root == RelOf(h, i).target
           IN  /\ Paths(h, root)[r] \in Seq(Nat)
               /\ Paths(H, root)[r] = Paths(h, root)[r]
                  \/ Better(Paths(H, root)[r], Paths(h, root)[r])
<1>1. PICK root : root = RelOf(h, i).target
  OBVIOUS
<1>2. IsLog(h) /\ IsLog(H) /\ r \in RecordIds(H)
  BY RecordIdStays DEF Grows
<1>3. i \in RootsOf(H, r) /\ RelOf(H, i) = RelOf(h, i)
  BY RootsOfStay
<1>4. r \in DOMAIN Paths(h, root) \ {root} /\ r \in DOMAIN Paths(H, root) \ {root}
  BY <1>1, <1>2, <1>3, CausesAre
<1>5. PICK p : p = Paths(h, root)[r]
  OBVIOUS
<1>6. Leads(h, r, p, root)
  BY <1>2, <1>4, <1>5, PathsAreBest
<1>7. p \in Seq(Nat)
  BY <1>2, <1>6, PathNumbers DEF Leads
<1>8. Leads(H, r, p, root)
  BY <1>6, LeadsStays
<1>9. Paths(H, root)[r] = p \/ Better(Paths(H, root)[r], p)
  BY <1>2, <1>4, <1>8, PathsAreBest
<1>10. QED
  BY <1>1, <1>5, <1>7, <1>9

(***************************************************************************)
(* An effective state never returns to what it was.                        *)
(***************************************************************************)
LEMMA ActivatedStays ==
    ASSUME NEW h, Written(h), NEW H, Grows(h, H), Unique(H), NEW r,
           NEW ev \in DOMAIN RelationTypeFor
    PROVE  {i \in Created(h, ev) : RelOf(h, i).target = r}
               \subseteq {i \in Created(H, ev) : RelOf(H, i).target = r}
BY ActivationStays

LEMMA CauseNeverReturns ==
    ASSUME NEW p, Written(p), NEW h, Written(h), Grows(p, h), NEW H, Written(H), Grows(h, H),
           NEW r \in RecordIds(p), NEW i \in RootsOf(p, r),
           CauseFrom(H, r, i) = CauseFrom(p, r, i)
    PROVE  CauseFrom(h, r, i) = CauseFrom(p, r, i)
<1>1. Unique(h) /\ Unique(H) /\ r \in RecordIds(h)
  BY WrittenUnique, RecordIdStays
<1>2. i \in RootsOf(h, r) /\ RelOf(h, i) = RelOf(p, i)
  BY <1>1, RootsOfStay
<1>3. i \in RootsOf(H, r) /\ RelOf(H, i) = RelOf(h, i)
  BY <1>1, <1>2, RootsOfStay
<1>4. PICK root : root = RelOf(p, i).target
  OBVIOUS
<1>5. PICK a, b, c : a = Paths(p, root)[r] /\ b = Paths(h, root)[r] /\ c = Paths(H, root)[r]
  OBVIOUS
<1>6. c = a
  BY <1>2, <1>3, <1>4, <1>5 DEF CauseFrom
<1>7. a \in Seq(Nat) /\ (b = a \/ Better(b, a))
  BY <1>1, <1>4, <1>5, PathImproves
<1>8. b \in Seq(Nat) /\ (c = b \/ Better(c, b))
  BY <1>1, <1>2, <1>4, <1>5, PathImproves
<1>9. b = a
  BY <1>6, <1>7, <1>8, BetterAsymmetric
<1>10. QED
  BY <1>2, <1>4, <1>5, <1>9 DEF CauseFrom

LEMMA StateNeverReturns ==
    ASSUME NEW p, Written(p), NEW h, Written(h), Grows(p, h), NEW H, Written(H), Grows(h, H),
           NEW r \in RecordIds(p), States(H)[r] = States(p)[r]
    PROVE  States(h)[r] = States(p)[r]
<1>1. /\ Unique(h) /\ Unique(H) /\ IsLog(p) /\ IsLog(h) /\ IsLog(H)
      /\ r \in RecordIds(h) /\ r \in RecordIds(H)
  BY WrittenUnique, RecordIdStays DEF Grows
<1> DEFINE by(k, ev) == {i \in Created(k, ev) : RelOf(k, i).target = r}
<1>2. ASSUME NEW k, r \in RecordIds(k)
      PROVE  States(k)[r] = [invalidations |-> by(k, "invalidated"),
                             superseded    |-> by(k, "superseded"),
                             causes        |-> States(k)[r].causes]
  BY <1>2 DEF States
<1>3. \A ev \in {"invalidated", "superseded"} : ev \in DOMAIN RelationTypeFor
  BY DEF RelationTypeFor
<1>4. \A ev \in {"invalidated", "superseded"} :
          by(p, ev) \subseteq by(h, ev) /\ by(h, ev) \subseteq by(H, ev)
  BY <1>1, <1>3, ActivatedStays
<1> HIDE DEF by
<1>5. /\ by(H, "invalidated") = by(p, "invalidated")
      /\ by(H, "superseded") = by(p, "superseded")
      /\ States(H)[r].causes = States(p)[r].causes
  <2>1. PICK c, d : c = States(H)[r].causes /\ d = States(p)[r].causes
    OBVIOUS
  <2>2. States(H)[r] = [invalidations |-> by(H, "invalidated"),
                        superseded |-> by(H, "superseded"), causes |-> c]
    BY <1>1, <1>2, <2>1
  <2>3. States(p)[r] = [invalidations |-> by(p, "invalidated"),
                        superseded |-> by(p, "superseded"), causes |-> d]
    BY <1>1, <1>2, <2>1
  <2>4. [invalidations |-> by(H, "invalidated"), superseded |-> by(H, "superseded"), causes |-> c]
            = [invalidations |-> by(p, "invalidated"), superseded |-> by(p, "superseded"),
               causes |-> d]
    BY <2>2, <2>3
  <2>5. QED
    BY ONLY <2>1, <2>4
<1>6. by(h, "invalidated") = by(p, "invalidated") /\ by(h, "superseded") = by(p, "superseded")
  BY <1>4, <1>5
<1>7. ASSUME NEW i \in RootsOf(h, r)
      PROVE  i \in RootsOf(p, r)
  <2>1. i \in RootsOf(H, r)
    BY <1>1, RootsOfStay
  <2>2. CauseFrom(H, r, i) \in States(p)[r].causes
    BY <1>1, <1>5, <2>1, CausesAre
  <2>3. PICK j \in RootsOf(p, r) : CauseFrom(H, r, i) = CauseFrom(p, r, j)
    BY <1>1, <2>2, CausesAre
  <2>4. j = i
    BY <2>3 DEF CauseFrom
  <2>5. QED
    BY <2>3, <2>4
<1>8. ASSUME NEW i \in RootsOf(p, r)
      PROVE  i \in RootsOf(h, r) /\ CauseFrom(h, r, i) = CauseFrom(p, r, i)
  <2>1. i \in RootsOf(h, r)
    BY <1>1, RootsOfStay
  <2>2. i \in RootsOf(H, r)
    BY <1>1, <2>1, RootsOfStay
  <2>3. PICK j \in RootsOf(p, r) : CauseFrom(H, r, i) = CauseFrom(p, r, j)
    BY <1>1, <1>5, <2>2, CausesAre
  <2>4. j = i
    BY <2>3 DEF CauseFrom
  <2>5. QED
    BY <2>1, <2>3, <2>4, CauseNeverReturns
<1>9. RootsOf(h, r) = RootsOf(p, r)
  BY <1>7, <1>8
<1>10. States(h)[r].causes = States(p)[r].causes
  <2>1. {CauseFrom(h, r, i) : i \in RootsOf(h, r)} = {CauseFrom(p, r, i) : i \in RootsOf(p, r)}
    BY <1>8, <1>9
  <2>2. States(h)[r].causes = {CauseFrom(h, r, i) : i \in RootsOf(h, r)}
    BY <1>1, CausesAre
  <2>3. States(p)[r].causes = {CauseFrom(p, r, i) : i \in RootsOf(p, r)}
    BY <1>1, CausesAre
  <2>4. QED
    BY ONLY <2>1, <2>2, <2>3
<1>11. QED
  BY <1>1, <1>2, <1>6, <1>10

-----------------------------------------------------------------------------
(***************************************************************************)
(* What went stale stays stale.  The states a decision was evaluated on    *)
(* are those of records that exist; once one of them moved it stays moved. *)
(***************************************************************************)
LEMMA KnownRecord ==
    ASSUME NEW h, IsLog(h), NEW id, HasRecord(h, id)
    PROVE  id \in RecordIds(h)
<1>1. RecordAt(h, id) \in Created(h, "record") /\ h[RecordAt(h, id)].id = id
  BY RecordFacts DEF Record
<1>2. QED
  BY <1>1 DEF RecordIds

LEMMA KnownBefore ==
    ASSUME NEW h, IsLog(h), NEW i \in DOMAIN h, NEW id, BoundBefore(h, i, id)
    PROVE  HasRecord(h, id)
<1>1. i \in Nat
  BY LogFacts
<1>2. QED
  BY <1>1 DEF BoundBefore, HasRecord

LEMMA InputsKnown ==
    ASSUME NEW h, Written(h), NEW q, MayEvaluate(h, q), NEW x \in Inputs(h, q)
    PROVE  x \in RecordIds(h)
<1>1. IsLog(h) /\ HasRecord(h, q) /\ RequestReplays(h, RecordAt(h, q))
  BY DEF Written, MayEvaluate, IsOfType
<1>2. RecordAt(h, q) \in DOMAIN h /\ h[RecordAt(h, q)].body = Body(h, q)
  BY <1>1, RecordFacts DEF Created, Body, Record
<1> DEFINE b == Body(h, q)
<1> HIDE DEF b
<1>3. /\ BoundBefore(h, RecordAt(h, q), b.subject)
      /\ BoundBefore(h, RecordAt(h, q), b.policy)
      /\ \A r \in b.receipts : BoundAs(h, RecordAt(h, q), r, "VerificationReceipt")
  BY <1>1, <1>2 DEF RequestReplays, BoundAs, b
<1>4. HasRecord(h, b.subject) /\ HasRecord(h, b.policy)
  BY <1>1, <1>2, <1>3, KnownBefore
<1>5. ASSUME NEW r \in b.receipts
      PROVE  HasRecord(h, r) /\ \A e \in Body(h, r).evidence : HasRecord(h, e)
  <2>1. HasRecord(h, r) /\ Record(h, r).type = "VerificationReceipt"
    BY <1>1, <1>2, <1>3, KnownBefore DEF BoundAs
  <2> DEFINE i == RecordAt(h, r)
  <2>2. i \in Created(h, "record") /\ i \in DOMAIN h
    BY <1>1, <2>1, RecordFacts DEF Created
  <2>3. h[i].type = "VerificationReceipt" /\ h[i].body = Body(h, r)
    BY <2>1 DEF Record, Body
  <2> HIDE DEF i
  <2>4. ReceiptReplays(h, i)
    BY <2>2, <2>3, RecordOfWritten
  <2>5. QED
    BY <1>1, <2>1, <2>2, <2>3, <2>4, KnownBefore DEF ReceiptReplays
<1>6. HasRecord(h, x)
  BY <1>1, <1>4, <1>5 DEF Inputs, b
<1>7. QED
  BY <1>1, <1>6, KnownRecord

LEMMA DecisionStaleForGood ==
    ASSUME NEW h, Written(h), NEW H, Written(H), Grows(h, H),
           NEW d, IsOfType(h, d, "GateDecision"), ~DecisionFresh(h, States(h), d)
    PROVE  ~DecisionFresh(H, States(H), d)
<1>1. /\ IsLog(h) /\ IsLog(H) /\ Unique(h) /\ Unique(H)
      /\ HasRecord(h, d) /\ d \in RecordIds(h)
  BY WrittenUnique, KnownRecord DEF Grows, IsOfType
<1>2. Body(H, d) = Body(h, d)
  BY <1>1, RecordStays
<1>3. SUFFICES ASSUME DecisionFresh(H, States(H), d)
               PROVE  FALSE
  OBVIOUS
<1> DEFINE q == Body(h, d).request
<1>4. PICK p : /\ Written(p) /\ Grows(p, h) /\ MayEvaluate(p, q)
               /\ Body(h, d) = Evaluate(p, States(p), q)
  BY EvaluatedBefore
<1> HIDE DEF q
<1>5. PICK sp : sp = States(p)
  OBVIOUS
<1>6. Body(h, d).inputs = [x \in Inputs(p, q) |-> sp[x]]
  BY <1>4, <1>5 DEF Evaluate
<1>7. PICK now, then : now = States(h) /\ then = States(H)
  OBVIOUS
<1>8. Usable(now[d])
  BY <1>1, <1>3, <1>7, UnusableStays DEF DecisionFresh
<1>9. \A x \in Inputs(p, q) : then[x] = sp[x]
  BY <1>2, <1>3, <1>6, <1>7 DEF DecisionFresh
<1>10. ASSUME NEW x \in Inputs(p, q)
       PROVE  now[x] = sp[x]
  <2>1. x \in RecordIds(p)
    BY <1>4, InputsKnown
  <2>2. States(H)[x] = States(p)[x]
    BY <1>5, <1>7, <1>9
  <2>3. States(h)[x] = States(p)[x]
    BY <1>4, <2>1, <2>2, StateNeverReturns
  <2>4. QED
    BY <1>5, <1>7, <2>3
<1>11. DecisionFresh(h, now, d)
  BY <1>6, <1>8, <1>10 DEF DecisionFresh
<1>12. QED
  BY <1>7, <1>11

LEMMA ReleaseStaleForGood ==
    ASSUME NEW h, Written(h), NEW H, Written(H), Grows(h, H),
           NEW r, IsOfType(h, r, "Release"), ~ReleaseFresh(h, States(h), r)
    PROVE  ~ReleaseFresh(H, States(H), r)
<1> DEFINE i == RecordAt(h, r)
           p == Prefix(h, i - 1)
           d == Body(h, r).decision
<1>1. IsLog(h) /\ HasRecord(h, r) /\ h[i].type = "Release" /\ Body(h, r) = h[i].body
  BY DEF Written, IsOfType, Record, Body
<1>2. i \in DOMAIN h /\ h[i].ev = "record"
  BY <1>1, RecordFacts DEF Created
<1>3. Written(p) /\ Grows(p, h) /\ Unique(h) /\ Unique(H) /\ Fits(p, h[i])
  BY <1>2, AtPlace, WrittenUnique
<1> HIDE DEF i, p
<1>4. ReleaseAuthorized(p, States(p), Body(h, r))
  BY <1>1, <1>2, <1>3 DEF Fits, RecordFits, MayRelease
<1>5. IsOfType(p, d, "GateDecision")
  BY <1>4 DEF ReleaseAuthorized
<1>6. IsOfType(h, d, "GateDecision") /\ HasRecord(h, d)
  BY <1>3, <1>5, RecordStays DEF IsOfType
<1>7. Body(H, r) = Body(h, r) /\ Body(H, d) = Body(h, d) /\ r \in RecordIds(h)
  BY <1>1, <1>3, <1>6, RecordStays, KnownRecord
<1> HIDE DEF d
<1>8. ~Usable(States(h)[r]) => ~Usable(States(H)[r])
  BY <1>3, <1>7, UnusableStays
<1>9. ~DecisionFresh(h, States(h), d) => ~DecisionFresh(H, States(H), d)
  BY <1>6, DecisionStaleForGood
<1>10. QED
  BY <1>7, <1>8, <1>9 DEF ReleaseFresh, d

-----------------------------------------------------------------------------
(***************************************************************************)
(* Revisions.  A supersession leads to a later record, and to one only;    *)
(* what comes before and after a record is its line.                       *)
(***************************************************************************)
Successions(h) == {<<RelOf(h, i).source, RelOf(h, i).target>> : i \in Created(h, "superseded")}

Turned(R) == {<<e[2], e[1]>> : e \in R}

LEMMA SuccessionsFinite ==
    ASSUME NEW h, IsLog(h)
    PROVE  IsFiniteSet(Successions(h)) /\ IsFiniteSet(Turned(Successions(h)))
<1> DEFINE B == Created(h, "superseded")
           f == [i \in B |-> <<RelOf(h, i).source, RelOf(h, i).target>>]
           g == [e \in Successions(h) |-> <<e[2], e[1]>>]
<1>1. IsFiniteSet(B)
  <2>1. Len(h) \in Nat /\ DOMAIN h = 1 .. Len(h)
    BY LogFacts
  <2>2. B \in SUBSET (1 .. Len(h))
    BY <2>1 DEF Created
  <2>3. IsFiniteSet(1 .. Len(h))
    BY <2>1, FS_Interval
  <2>4. QED
    BY <2>2, <2>3, FS_Subset
<1> HIDE DEF B
<1>2. f \in Surjection(B, Successions(h))
  BY DEF Surjection, Successions, B
<1> HIDE DEF f
<1>3. IsFiniteSet(Successions(h))
  BY <1>1, <1>2, FS_Surjection
<1>4. g \in Surjection(Successions(h), Turned(Successions(h)))
  BY DEF Surjection, Turned
<1> HIDE DEF g
<1>5. QED
  BY <1>3, <1>4, FS_Surjection

LEMMA SuccessionFacts ==
    ASSUME NEW h, Written(h)
    PROVE  /\ \A i \in Created(h, "superseded") :
                  /\ RelOf(h, i).source \in RecordIds(h) /\ RelOf(h, i).target \in RecordIds(h)
                  /\ RecordAt(h, RelOf(h, i).source) > RecordAt(h, RelOf(h, i).target)
           /\ \A i, j \in Created(h, "superseded") :
                  RelOf(h, i).target = RelOf(h, j).target => i = j
<1>1. IsLog(h) /\ Unique(h) /\ Len(h) \in Nat /\ DOMAIN h = 1 .. Len(h)
  BY WrittenUnique, LogFacts DEF Written
<1>2. Grows(h, h)
  BY <1>1 DEF Grows
<1>3. \A i \in Created(h, "superseded") : i \in Activations(h) /\ i \in DOMAIN h /\ i \in Nat
  BY <1>1 DEF Created, Activations, RelationTypeFor
<1>4. ASSUME NEW i \in Created(h, "superseded")
      PROVE  /\ RelOf(h, i).source \in RecordIds(h) /\ RelOf(h, i).target \in RecordIds(h)
             /\ RecordAt(h, RelOf(h, i).source) > RecordAt(h, RelOf(h, i).target)
             /\ \A j \in Created(h, "superseded") :
                    j < i => RelOf(h, j).target # RelOf(h, i).target
  <2>1. HasRecord(h, RelOf(h, i).source) /\ HasRecord(h, RelOf(h, i).target)
    BY <1>1, <1>2, <1>3, RelOfStays
  <2>2. RelOf(h, i).source \in RecordIds(h) /\ RelOf(h, i).target \in RecordIds(h)
    BY <1>1, <2>1, RecordFacts DEF RecordIds, Record
  <2>3. SupersessionAllowed(h, RelOf(h, i), Created(Prefix(h, i - 1), "superseded"))
    BY <1>3, ActivationOfWritten DEF ActivationReplays, Created
  <2>4. ASSUME NEW j \in Created(h, "superseded"), j < i
        PROVE  j \in Created(Prefix(h, i - 1), "superseded")
    <3>1. /\ DOMAIN Prefix(h, i - 1) = 1 .. i - 1
          /\ \A k \in 1 .. i - 1 : Prefix(h, i - 1)[k] = h[k]
      BY <1>3, AtPlace
    <3>2. j \in 1 .. i - 1 /\ h[j].ev = "superseded"
      BY <1>1, <1>3, <2>4 DEF Created
    <3>3. QED
      BY <3>1, <3>2 DEF Created
  <2>5. QED
    BY <2>2, <2>3, <2>4 DEF SupersessionAllowed
<1>5. ASSUME NEW i \in Created(h, "superseded"), NEW j \in Created(h, "superseded"),
             RelOf(h, i).target = RelOf(h, j).target
      PROVE  i = j
  <2>1. i \in Nat /\ j \in Nat /\ ~ (i < j) /\ ~ (j < i)
    BY <1>3, <1>4, <1>5
  <2>2. QED
    BY <2>1
<1>6. QED
  BY <1>4, <1>5

LEMMA OneCurrent ==
    ASSUME NEW h, Written(h), NEW r \in RecordIds(h)
    PROVE  \E q : {p \in Reaching(Successions(h) \cup Turned(Successions(h)), r) :
                       States(h)[p].superseded = {}} = {q}
<1> DEFINE R == Successions(h)
           B == R \cup Turned(R)
           L == Reaching(B, r)
           D == RecordIds(h)
           over(p) == \E e \in R : e[2] = p
<1>1. IsLog(h) /\ Len(h) \in Nat /\ DOMAIN h = 1 .. Len(h)
  BY LogFacts DEF Written
<1>2. IsFiniteSet(R) /\ IsFiniteSet(Turned(R)) /\ IsFiniteSet(B)
  BY <1>1, SuccessionsFinite, FS_Union
<1>3. /\ \A e \in R : /\ e = <<e[1], e[2]>> /\ e[1] \in D /\ e[2] \in D
                      /\ RecordAt(h, e[1]) > RecordAt(h, e[2])
      /\ \A d, e \in R : d[2] = e[2] => d = e
  BY SuccessionFacts DEF Successions
<1>4. \A p \in D : RecordAt(h, p) \in 1 .. Len(h)
  <2>1. Unique(h)
    BY WrittenUnique
  <2>2. QED
    BY <1>1, <2>1, RecordAtPlace, RecordFacts DEF RecordIds
<1>5. \A p \in D : States(h)[p].superseded = {} <=> ~over(p)
  <2>1. \A p \in D : States(h)[p].superseded
                         = {i \in Created(h, "superseded") : RelOf(h, i).target = p}
    BY DEF States
  <2>2. \A p : over(p) <=> \E i \in Created(h, "superseded") : RelOf(h, i).target = p
    <3>1. ASSUME NEW i \in Created(h, "superseded") PROVE over(RelOf(h, i).target)
      <4>1. <<RelOf(h, i).source, RelOf(h, i).target>> \in R
        BY DEF Successions
      <4>2. QED
        BY <4>1
    <3>2. ASSUME NEW e \in R
          PROVE  \E i \in Created(h, "superseded") : RelOf(h, i).target = e[2]
      BY DEF Successions
    <3>3. QED
      BY <3>1, <3>2
  <2>3. QED
    BY <2>1, <2>2
<1> HIDE DEF R, D
<1>6. \A C : ClosedUnder(Turned(R), C) <=> \A e \in R : e[1] \in C => e[2] \in C
  <2>1. ASSUME NEW C, ClosedUnder(Turned(R), C), NEW e \in R, e[1] \in C PROVE e[2] \in C
    <3>1. <<e[2], e[1]>> \in Turned(R)
      BY DEF Turned
    <3>2. <<e[2], e[1]>>[2] \in C => <<e[2], e[1]>>[1] \in C
      BY <2>1, <3>1 DEF ClosedUnder
    <3>3. QED
      BY <2>1, <3>2
  <2>2. ASSUME NEW C, \A e \in R : e[1] \in C => e[2] \in C PROVE ClosedUnder(Turned(R), C)
    BY <2>2 DEF ClosedUnder, Turned
  <2>3. QED
    BY <2>1, <2>2
<1>7. /\ r \in L
      /\ \A e \in R : e[1] \in L <=> e[2] \in L
      /\ \A C : r \in C /\ (\A e \in R : e[1] \in C <=> e[2] \in C) => L \subseteq C
  <2>1. \A C : ClosedUnder(B, C) <=> \A e \in R : e[1] \in C <=> e[2] \in C
    <3>1. \A C : ClosedUnder(B, C) <=> ClosedUnder(R, C) /\ ClosedUnder(Turned(R), C)
      BY DEF ClosedUnder
    <3>2. QED
      BY <1>6, <3>1 DEF ClosedUnder
  <2>2. r \in L /\ ClosedUnder(B, L) /\ \A C : r \in C /\ ClosedUnder(B, C) => L \subseteq C
    BY <1>2, ReachingIsLeastClosed
  <2>3. QED
    BY <2>1, <2>2
<1> HIDE DEF L
<1>8. L \subseteq D
  BY <1>3, <1>7 DEF D
<1>9. PICK q \in L : ~over(q)
  <2> DEFINE T == {Len(h) - RecordAt(h, p) : p \in L}
  <2>1. T \in SUBSET Nat /\ T # {}
    BY <1>1, <1>4, <1>7, <1>8
  <2>2. PICK m \in T : \A k \in T : m <= k
    BY <2>1, LeastNumber
  <2>3. PICK q \in L : m = Len(h) - RecordAt(h, q)
    OBVIOUS
  <2>4. ASSUME NEW e \in R, e[2] = q PROVE FALSE
    <3>1. e[1] \in L /\ RecordAt(h, e[1]) > RecordAt(h, q)
      BY <1>3, <1>7, <2>4
    <3>2. m <= Len(h) - RecordAt(h, e[1])
      BY <2>2, <3>1
    <3>3. RecordAt(h, e[1]) \in 1 .. Len(h) /\ RecordAt(h, q) \in 1 .. Len(h)
      BY <1>4, <1>8, <3>1
    <3>4. QED
      BY ONLY <1>1, <2>3, <3>1, <3>2, <3>3
  <2>5. QED
    BY <2>3, <2>4
\* The line of q: q and what leads to it, each record by its one successor.
<1> DEFINE S == Reaching(Turned(R), q)
<1>10. /\ q \in S
       /\ \A e \in R : e[1] \in S => e[2] \in S
       /\ \A C : q \in C /\ (\A e \in R : e[1] \in C => e[2] \in C) => S \subseteq C
  <2>2. q \in S /\ ClosedUnder(Turned(R), S)
        /\ \A C : q \in C /\ ClosedUnder(Turned(R), C) => S \subseteq C
    BY <1>2, ReachingIsLeastClosed
  <2>3. QED
    BY <1>6, <2>2
<1> HIDE DEF S
<1>11. \A e \in R : e[2] \in S => e[1] \in S
  <2> DEFINE C == {p \in S : \A e \in R : e[2] = p => e[1] \in S}
  <2>1. q \in C
    BY <1>9, <1>10
  <2>2. \A e \in R : e[1] \in C => e[2] \in C
    BY <1>3, <1>10
  <2>3. S \subseteq C
    <3> HIDE DEF C
    <3>1. QED
      BY <1>10, <2>1, <2>2
  <2>4. QED
    BY <2>3
<1>12. \A p \in S : p = q \/ over(p)
  <2> DEFINE C == {p \in S : p = q \/ over(p)}
  <2>1. q \in C
    BY <1>10
  <2>2. \A e \in R : e[1] \in C => e[2] \in C
    BY <1>10
  <2>3. S \subseteq C
    <3> HIDE DEF C
    <3>1. QED
      BY <1>10, <2>1, <2>2
  <2>4. QED
    BY <2>3
<1>13. r \in S
  <2> SUFFICES ASSUME r \notin S PROVE FALSE
    OBVIOUS
  <2> DEFINE C == L \ S
  <2>1. r \in C
    BY <1>7
  <2>2. \A e \in R : e[1] \in C <=> e[2] \in C
    BY <1>7, <1>10, <1>11
  <2>3. L \subseteq C
    <3> HIDE DEF C
    <3>1. QED
      BY <1>7, <2>1, <2>2
  <2>4. QED
    BY <1>9, <1>10, <2>3
<1>14. L \subseteq S
  BY <1>7, <1>10, <1>11, <1>13
<1>15. {p \in L : States(h)[p].superseded = {}} = {q}
  BY <1>5, <1>8, <1>9, <1>12, <1>14
<1>16. QED
  BY <1>15 DEF L, R

-----------------------------------------------------------------------------
(***************************************************************************)
(* A relation changes nobody's effective state: only an activation does.   *)
(***************************************************************************)
LEMMA UsableSame ==
    ASSUME NEW h, Written(h), NEW e, e.ev \notin DOMAIN RelationTypeFor,
           Written(Append(h, e)), NEW r \in RecordIds(h)
    PROVE  Usable(States(Append(h, e))[r]) <=> Usable(States(h)[r])
<1> DEFINE H == Append(h, e)
<1>1. IsLog(h) /\ IsLog(H) /\ Len(H) = Len(h) + 1 /\ H[Len(h) + 1] = e /\ Grows(h, H)
      /\ Unique(H) /\ Written(H)
  BY AppendFacts, AppendGrows, WrittenUnique DEF Written
<1>2. /\ Len(h) \in Nat /\ DOMAIN h = 1 .. Len(h) /\ DOMAIN H = 1 .. Len(h) + 1
      /\ \A i \in 1 .. Len(h) : H[i] = h[i]
  BY <1>1, LogFacts DEF Grows
<1> HIDE DEF H
<1>3. ASSUME NEW ev \in DOMAIN RelationTypeFor
      PROVE  /\ Created(H, ev) = Created(h, ev)
             /\ \A i \in Created(h, ev) : H[i] = h[i] /\ RelOf(H, i) = RelOf(h, i)
  <2>1. \A i \in Created(H, ev) : i \in 1 .. Len(h)
    BY <1>1, <1>2 DEF Created
  <2>2. Created(H, ev) = Created(h, ev)
    BY <1>2, <2>1 DEF Created
  <2>3. QED
    BY <1>1, <2>2, ActivationStays
<1>4. \A ev \in {"bound", "invalidated", "superseded"} : ev \in DOMAIN RelationTypeFor
  BY DEF RelationTypeFor
<1>5. Roots(H) = Roots(h)
  <2>1. \A i : i \in Roots(H) => i \in Created(H, "superseded") \cup Created(H, "invalidated")
    BY DEF Roots, IsRoot, Created
  <2>2. \A i : i \in Roots(h) => i \in Created(h, "superseded") \cup Created(h, "invalidated")
    BY DEF Roots, IsRoot, Created
  <2>3. ASSUME NEW i \in Created(h, "superseded") \cup Created(h, "invalidated")
        PROVE  IsRoot(H, i) <=> IsRoot(h, i)
    <3>1. /\ Created(H, "invalidated") = Created(h, "invalidated") /\ H[i].ev = h[i].ev
          /\ RelOf(H, i) = RelOf(h, i)
          /\ \A j \in Created(h, "invalidated") : RelOf(H, j) = RelOf(h, j)
      BY <1>3, <1>4
    <3>2. QED
      BY <3>1 DEF IsRoot
  <2>4. \A i \in Created(h, "superseded") \cup Created(h, "invalidated") :
            i \in DOMAIN h /\ i \in DOMAIN H
    BY <1>2 DEF Created
  <2>5. /\ Created(H, "invalidated") = Created(h, "invalidated")
        /\ Created(H, "superseded") = Created(h, "superseded")
    BY <1>3, <1>4
  <2>6. \A i : i \in Roots(H) <=> i \in Roots(h)
    BY <2>1, <2>2, <2>3, <2>4, <2>5 DEF Roots
  <2>7. QED
    BY <2>6
<1>6. \A i \in Roots(h) : RelOf(H, i) = RelOf(h, i)
  BY <1>1, RootStays
<1>7. DependsOn(H) = DependsOn(h)
  BY <1>3, <1>4 DEF DependsOn
<1>8. \A root : StaleFrom(H, root) = StaleFrom(h, root)
  BY <1>7 DEF StaleFrom
<1>9. r \in RecordIds(H)
  BY <1>1, RecordIdStays
<1>10. {cause.root : cause \in States(H)[r].causes} = {cause.root : cause \in States(h)[r].causes}
  <2>1. /\ {cause.root : cause \in States(h)[r].causes}
               = {i \in Roots(h) : r \in StaleFrom(h, RelOf(h, i).target)}
        /\ {cause.root : cause \in States(H)[r].causes}
               = {i \in Roots(H) : r \in StaleFrom(H, RelOf(H, i).target)}
    BY <1>1, <1>9, CausesAreReaching
  <2>2. {i \in Roots(H) : r \in StaleFrom(H, RelOf(H, i).target)}
            = {i \in Roots(h) : r \in StaleFrom(h, RelOf(h, i).target)}
    BY <1>5, <1>6, <1>8
  <2>3. QED
    BY <2>1, <2>2
<1>11. States(H)[r].causes = {} <=> States(h)[r].causes = {}
  BY <1>10
<1>12. /\ States(H)[r].invalidations = States(h)[r].invalidations
       /\ States(H)[r].superseded = States(h)[r].superseded
  <2>1. ASSUME NEW ev \in {"invalidated", "superseded"}
        PROVE  {i \in Created(H, ev) : RelOf(H, i).target = r}
                   = {i \in Created(h, ev) : RelOf(h, i).target = r}
    BY <1>3, <1>4
  <2>2. QED
    BY <1>9, <2>1 DEF States
<1>13. QED
  BY <1>11, <1>12 DEF Usable, H

(***************************************************************************)
(* What a case rests on is there when it is opened.                        *)
(***************************************************************************)
LEMMA SourcesKnown ==
    ASSUME NEW h, Written(h), NEW case, IsOfType(h, case, "FeedbackCase"),
           NEW id \in SourcesIn(h, case)
    PROVE  HasRecord(h, id) /\ id \in RecordIds(h)
<1> DEFINE o == Body(h, case).observation
           i == RecordAt(h, o)
<1>1. IsLog(h) /\ HasRecord(h, case) /\ IsOfType(h, o, "RuntimeObservation")
  BY CaseTarget DEF Written
<1>2. i \in Created(h, "record") /\ h[i].type = "RuntimeObservation" /\ Body(h, o) = h[i].body
  BY <1>1, RecordFacts DEF IsOfType, Record, Body
<1>3. \A e \in Body(h, o).evidence : BoundBefore(h, i, e)
  BY <1>2, RecordOfWritten DEF ObservationReplays
<1>4. i \in Nat
  BY <1>1, <1>2, LogFacts DEF Created
<1>5. \A e : BoundBefore(h, i, e) => HasRecord(h, e)
  BY <1>4 DEF BoundBefore, HasRecord
<1> HIDE DEF i
<1>6. HasRecord(h, id)
  BY <1>1, <1>3, <1>5 DEF SourcesIn, IsOfType
<1>7. id \in RecordIds(h)
  BY <1>1, <1>6, RecordFacts DEF RecordIds, Record
<1>8. QED
  BY <1>6, <1>7

LEMMA SourcesStay ==
    ASSUME NEW h, Written(h), NEW H, Grows(h, H), Unique(H),
           NEW case, IsOfType(h, case, "FeedbackCase")
    PROVE  SourcesIn(H, case) = SourcesIn(h, case) /\ Body(H, case) = Body(h, case)
<1> DEFINE o == Body(h, case).observation
<1>1. HasRecord(h, case) /\ HasRecord(h, o)
  BY CaseTarget DEF IsOfType
<1>2. Body(H, case) = Body(h, case) /\ Body(H, o) = Body(h, o)
  BY <1>1, RecordStays
<1>3. QED
  BY <1>2 DEF SourcesIn

-----------------------------------------------------------------------------
(***************************************************************************)
(* One case in a history: the abstract view of it.                         *)
(***************************************************************************)
OpenIn(h, case) == IsOfType(h, case, "FeedbackCase")

TakenIn(h, case) == HasRelation(h, FeedbackRelationId[case]) /\ ~Compatible(h, case)

StateOf(h, case) == IF ~OpenIn(h, case) THEN "not_open"
                    ELSE IF TakenIn(h, case) THEN "conflict" ELSE ApplicationState(h, case)

EligibleOf(h, case) == /\ OpenIn(h, case)
                       /\ Body(h, case).effect = "invalidate_target"
                       /\ SourcesUsable(h, States(h), case)

\* The event e applies the case.
Applies(e, case) == e.ev = "invalidated" /\ e.relation = FeedbackRelationId[case]

LEMMA EligibleIs ==
    ASSUME NEW h, NEW case
    PROVE  EligibleOf(h, case) <=> /\ OpenIn(h, case)
                                   /\ Body(h, case).effect = "invalidate_target"
                                   /\ \A id \in SourcesIn(h, case) : Usable(States(h)[id])
BY DEF EligibleOf, SourcesUsable, SourcesIn

(***************************************************************************)
(* A case that is open keeps its content; one that is not is opened by its *)
(* record only.                                                            *)
(***************************************************************************)
LEMMA OpenStays ==
    ASSUME NEW h, Written(h), NEW H, Grows(h, H), Unique(H), NEW case, OpenIn(h, case)
    PROVE  /\ OpenIn(H, case)
           /\ EligibleOf(H, case) => EligibleOf(h, case)
           /\ HasRelation(h, FeedbackRelationId[case]) =>
                  /\ HasRelation(H, FeedbackRelationId[case])
                  /\ TakenIn(H, case) <=> TakenIn(h, case)
<1>1. HasRecord(h, case)
  BY DEF OpenIn, IsOfType
<1>2. OpenIn(H, case)
  BY <1>1, RecordStays DEF OpenIn
<1>3. SourcesIn(H, case) = SourcesIn(h, case) /\ Body(H, case) = Body(h, case)
  BY SourcesStay DEF OpenIn
<1>4. ASSUME EligibleOf(H, case) PROVE EligibleOf(h, case)
  <2>1. \A id \in SourcesIn(h, case) : id \in RecordIds(h)
    BY SourcesKnown DEF OpenIn
  <2>2. \A id \in SourcesIn(h, case) : Usable(States(H)[id]) => Usable(States(h)[id])
    BY <2>1, UnusableStays
  <2>3. QED
    BY <1>3, <1>4, <2>2, EligibleIs
<1>5. ASSUME HasRelation(h, FeedbackRelationId[case])
      PROVE  /\ HasRelation(H, FeedbackRelationId[case])
             /\ TakenIn(H, case) <=> TakenIn(h, case)
  <2>1. /\ HasRelation(H, FeedbackRelationId[case])
        /\ Relation(H, FeedbackRelationId[case]) = Relation(h, FeedbackRelationId[case])
    BY <1>5, RelationStays
  <2>2. QED
    BY <1>3, <1>5, <2>1 DEF TakenIn, Compatible, FeedbackRelation
<1>6. QED
  BY <1>2, <1>4, <1>5
(***************************************************************************)
(* An id that was not taken is taken by the new event.                     *)
(***************************************************************************)
LEMMA NewPlace ==
    ASSUME NEW h, IsLog(h), NEW e, Unique(Append(h, e)), NEW ev \in Kinds, NEW id,
           PlaceOf(h, ev, id) = 0, PlaceOf(Append(h, e), ev, id) # 0
    PROVE  e.ev = ev /\ e.id = id
<1> DEFINE H == Append(h, e)
           n == PlaceOf(H, ev, id)
<1>1. IsLog(H) /\ Len(H) = Len(h) + 1 /\ H[Len(h) + 1] = e /\ Grows(h, H)
  BY AppendFacts, AppendGrows
<1>2. Len(h) \in Nat /\ PlaceOf(H, ev, id) # 0
  BY LogFacts
<1> HIDE DEF H
<1>3. n \in 1 .. Len(h) + 1 /\ H[n].ev = ev /\ H[n].id = id
  BY <1>1, <1>2, PlaceKnown
<1>4. n \notin 1 .. Len(h)
  <2> SUFFICES ASSUME n \in 1 .. Len(h) PROVE FALSE
    OBVIOUS
  <2>1. PlaceOf(h, ev, id) = n
    BY <1>1, PlaceWas DEF H
  <2>2. QED
    BY <1>2, <2>1
<1>5. n = Len(h) + 1
  BY <1>2, <1>3, <1>4
<1>6. QED
  BY <1>1, <1>3, <1>5

(***************************************************************************)
(* The relation a case manages leads from it.                              *)
(***************************************************************************)
LEMMA ManagedByCase ==
    ASSUME NEW h, NEW case, OpenIn(h, case),
           HasRelation(h, FeedbackRelationId[case]), ~TakenIn(h, case)
    PROVE  /\ Relation(h, FeedbackRelationId[case]).source = case
           /\ ManagedCase(h, FeedbackRelationId[case]) = case
           /\ Body(h, case).effect = "invalidate_target"
<1>1. Relation(h, FeedbackRelationId[case]).source = case
  BY DEF TakenIn, Compatible, FeedbackRelation
<1>2. Body(h, case).effect = "invalidate_target"
  BY DEF TakenIn, Compatible
<1>3. QED
  BY <1>1, <1>2 DEF ManagedCase, OpenIn, IsOfType

LEMMA StateIs ==
    ASSUME NEW h, NEW case
    PROVE  /\ StateOf(h, case) = "not_open" <=> ~OpenIn(h, case)
           /\ StateOf(h, case) = "conflict" <=> OpenIn(h, case) /\ TakenIn(h, case)
           /\ StateOf(h, case) = "not_applied"
                  <=> OpenIn(h, case) /\ ~HasRelation(h, FeedbackRelationId[case])
           /\ StateOf(h, case) \in {"pending_qualification", "applied"}
                  <=> /\ OpenIn(h, case)
                      /\ HasRelation(h, FeedbackRelationId[case]) /\ ~TakenIn(h, case)
           /\ StateOf(h, case) = "applied"
                  <=> /\ OpenIn(h, case) /\ ~TakenIn(h, case)
                      /\ ApplicationState(h, case) = "applied"
           /\ StateOf(h, case) \in {"not_open", "not_applied", "pending_qualification", "applied",
                                    "conflict"}
BY DEF StateOf, TakenIn, ApplicationState

(***************************************************************************)
(* What one event does to a case.                                          *)
(***************************************************************************)
LEMMA CaseOpens ==
    ASSUME NEW h, Written(h), NEW e, Written(Append(h, e)),
           NEW case, ~OpenIn(h, case), OpenIn(Append(h, e), case)
    PROVE  StateOf(Append(h, e), case) \in {"not_applied", "conflict"}
<1> DEFINE H == Append(h, e)
           rid == FeedbackRelationId[case]
<1>1. IsLog(h) /\ Grows(h, H) /\ Unique(H)
  BY AppendGrows, WrittenUnique DEF Written
<1>2. ~HasRecord(h, case) /\ HasRecord(H, case)
  BY <1>1, RecordStays DEF OpenIn, IsOfType
<1>3. "record" \in Kinds /\ "relation" \in Kinds
  BY DEF Kinds
<1>4. e.ev = "record"
  BY <1>1, <1>2, <1>3, NewPlace DEF HasRecord, RecordAt
<1>5. ASSUME HasRelation(H, rid) PROVE TakenIn(H, case)
  <2>1. HasRelation(h, rid)
    BY <1>1, <1>3, <1>4, <1>5, NewPlace DEF HasRelation, RelationAt
  <2>2. Relation(H, rid) = Relation(h, rid) /\ HasRecord(h, Relation(h, rid).source)
    BY <1>1, <2>1, RelationStays, EndsOf
  <2>3. Relation(H, rid).source # case
    BY <1>2, <2>2
  <2>4. QED
    BY <1>5, <2>3 DEF TakenIn, Compatible, FeedbackRelation
<1> HIDE DEF H
<1>6. QED
  BY <1>5, StateIs DEF H

LEMMA CaseProposed ==
    ASSUME NEW h, Written(h), NEW e, Written(Append(h, e)),
           NEW case, StateOf(h, case) = "not_applied",
           HasRelation(Append(h, e), FeedbackRelationId[case])
    PROVE  /\ StateOf(Append(h, e), case) \in {"pending_qualification", "conflict"}
           /\ EligibleOf(Append(h, e), case) <=> EligibleOf(h, case)
<1> DEFINE H == Append(h, e)
           rid == FeedbackRelationId[case]
<1>1. IsLog(h) /\ Grows(h, H) /\ Unique(H) /\ IsLog(H) /\ Len(H) = Len(h) + 1
      /\ H[Len(h) + 1] = e
  BY AppendFacts, AppendGrows, WrittenUnique DEF Written
<1>2. OpenIn(h, case) /\ ~HasRelation(h, rid)
  BY StateIs
<1>3. "relation" \in Kinds
  BY DEF Kinds
<1>4. e.ev = "relation"
  BY <1>1, <1>2, <1>3, NewPlace DEF HasRelation, RelationAt
<1>5. OpenIn(H, case)
  BY <1>1, <1>2, OpenStays
<1>6. ~\E i \in Created(H, "invalidated") : H[i].relation = rid
  <2> SUFFICES ASSUME NEW i \in Created(H, "invalidated"), H[i].relation = rid PROVE FALSE
    OBVIOUS
  <2>1. Len(h) \in Nat /\ DOMAIN H = 1 .. Len(h) + 1 /\ DOMAIN h = 1 .. Len(h)
        /\ \A j \in 1 .. Len(h) : H[j] = h[j]
    BY <1>1, LogFacts DEF Grows
  <2>2. i \in 1 .. Len(h) + 1 /\ H[i].ev = "invalidated"
    BY <2>1 DEF Created
  <2>3. i # Len(h) + 1
    BY <1>1, <1>4, <2>2
  <2>4. i \in Created(h, "invalidated") /\ h[i].relation = rid
    BY <2>1, <2>2, <2>3 DEF Created
  <2>5. i \in Activations(h)
    BY <2>4 DEF Created, Activations, RelationTypeFor
  <2>6. HasRelation(h, rid)
    BY <1>1, <2>4, <2>5, RelOfStays
  <2>7. QED
    BY <1>2, <2>6
<1>7. StateOf(H, case) \in {"pending_qualification", "conflict"}
  BY <1>5, <1>6 DEF StateOf, ApplicationState
<1>8. SourcesIn(H, case) = SourcesIn(h, case) /\ Body(H, case) = Body(h, case)
  BY <1>1, <1>2, SourcesStay DEF OpenIn
<1>9. e.ev \notin DOMAIN RelationTypeFor
  BY <1>4 DEF RelationTypeFor
<1>10. \A id \in SourcesIn(h, case) : Usable(States(H)[id]) <=> Usable(States(h)[id])
  <2>1. \A id \in SourcesIn(h, case) : id \in RecordIds(h)
    BY <1>2, SourcesKnown DEF OpenIn
  <2>2. QED
    BY <1>9, <2>1, UsableSame
<1> HIDE DEF H
<1>11. EligibleOf(H, case) <=> EligibleOf(h, case)
  BY <1>2, <1>5, <1>8, <1>10, EligibleIs
<1>12. QED
  BY <1>7, <1>11 DEF H

LEMMA CaseGoesOn ==
    ASSUME NEW h, Written(h), NEW e, Written(Append(h, e)),
           NEW case, StateOf(h, case) # "not_open"
    PROVE  /\ EligibleOf(Append(h, e), case) => EligibleOf(h, case)
           /\ HasRelation(h, FeedbackRelationId[case]) =>
                  \/ StateOf(Append(h, e), case) = StateOf(h, case)
                  \/ /\ StateOf(h, case) = "pending_qualification"
                     /\ StateOf(Append(h, e), case) = "applied"
                     /\ Applies(e, case)
           /\ ~HasRelation(Append(h, e), FeedbackRelationId[case]) =>
                  StateOf(Append(h, e), case) = StateOf(h, case)
<1> DEFINE H == Append(h, e)
           rid == FeedbackRelationId[case]
<1>1. IsLog(h) /\ Grows(h, H) /\ Unique(H) /\ IsLog(H) /\ Len(H) = Len(h) + 1
      /\ H[Len(h) + 1] = e
  BY AppendFacts, AppendGrows, WrittenUnique DEF Written
<1>2. OpenIn(h, case)
  BY StateIs
<1>3. /\ OpenIn(H, case)
      /\ EligibleOf(H, case) => EligibleOf(h, case)
      /\ HasRelation(h, rid) => HasRelation(H, rid) /\ (TakenIn(H, case) <=> TakenIn(h, case))
  BY <1>1, <1>2, OpenStays
<1>4. ASSUME ApplicationState(H, case) = "applied", HasRelation(h, rid), ~Applies(e, case)
      PROVE  ApplicationState(h, case) = "applied"
  <2>1. PICK i \in Created(H, "invalidated") : H[i].relation = rid
    BY <1>4 DEF ApplicationState
  <2>2. Len(h) \in Nat /\ DOMAIN H = 1 .. Len(h) + 1 /\ DOMAIN h = 1 .. Len(h)
        /\ \A j \in 1 .. Len(h) : H[j] = h[j]
    BY <1>1, LogFacts DEF Grows
  <2>3. i \in 1 .. Len(h) + 1 /\ H[i].ev = "invalidated"
    BY <2>1, <2>2 DEF Created
  <2>4. i # Len(h) + 1
    BY <1>1, <1>4, <2>1, <2>3 DEF Applies
  <2>5. i \in Created(h, "invalidated") /\ h[i].relation = rid
    BY <2>1, <2>2, <2>3, <2>4 DEF Created
  <2>6. QED
    BY <1>4, <2>5 DEF ApplicationState
<1>5. ApplicationState(h, case) = "applied" => ApplicationState(H, case) = "applied"
  BY <1>1, AppliedStays
<1>6. \A g \in {h, H} : HasRelation(g, rid) =>
          ApplicationState(g, case) \in {"applied", "pending_qualification"}
  BY DEF ApplicationState
<1> HIDE DEF H
<1>7. CASE HasRelation(h, rid)
  <2>1. HasRelation(H, rid) /\ (TakenIn(H, case) <=> TakenIn(h, case))
    BY <1>3, <1>7
  <2>2. \/ StateOf(H, case) = StateOf(h, case)
        \/ /\ StateOf(h, case) = "pending_qualification" /\ StateOf(H, case) = "applied"
           /\ Applies(e, case)
    BY <1>2, <1>3, <1>4, <1>5, <1>6, <1>7, <2>1 DEF StateOf
  <2>3. QED
    BY <1>3, <2>1, <2>2 DEF H
<1>8. CASE ~HasRelation(h, rid)
  <2>1. ASSUME ~HasRelation(H, rid) PROVE StateOf(H, case) = StateOf(h, case)
    BY <1>2, <1>3, <1>8, <2>1, StateIs
  <2>2. QED
    BY <1>3, <1>8, <2>1 DEF H
<1>9. QED
  BY <1>7, <1>8

(***************************************************************************)
(* A typed call qualifies no relation that a case manages.                 *)
(***************************************************************************)
LEMMA TypedInvalidates ==
    ASSUME NEW h, NEW k, k.op \in TypedOperations, Accepts(h, States(h), k),
           EventOf(h, States(h), k).ev = "invalidated"
    PROVE  ManagedCase(h, EventOf(h, States(h), k).relation) = ""
<1> DEFINE sh == States(h)
           e  == EventOf(h, sh, k)
<1>1. Allowed(h, sh, k)
  BY DEF Accepts
<1>2. /\ DOMAIN TypeWritten = {"record_verification", "register_policy_snapshot", "request_gate",
                              "evaluate_gate", "register_release", "record_runtime_observation",
                              "open_feedback_case"}
      /\ DOMAIN ActivationOf = {"bind_dependency", "invalidate", "supersede"}
  BY DEF TypeWritten, ActivationOf
<1>3. k.op \in {"create_record", "create_relation"} \/ k.op \in DOMAIN TypeWritten
      \/ k.op \in DOMAIN ActivationOf
  BY DEF TypedOperations
<1> HIDE DEF sh
<1>4. CASE k.op \in {"create_record", "create_relation"} \/ k.op \in DOMAIN TypeWritten
  <2>1. e.ev \in {"record", "relation"}
    <3>1. k.op \notin DOMAIN ActivationOf
      BY <1>2, <1>4
    <3>2. CASE k.op = "create_record"
      BY <1>2, <3>1, <3>2 DEF EventOf, RecordEvent
    <3>3. CASE k.op = "create_relation"
      BY <1>2, <3>1, <3>3 DEF EventOf
    <3>4. CASE k.op \in DOMAIN TypeWritten
      <4>1. k.op \notin {"create_record", "create_relation"}
        BY <1>2, <3>4
      <4>2. QED
        BY <3>1, <3>4, <4>1 DEF EventOf, RecordEvent
    <3>5. QED
      BY <1>4, <3>2, <3>3, <3>4
  <2>2. QED
    BY <2>1 DEF sh
<1>5. CASE k.op \in DOMAIN ActivationOf
  <2>1. e = [ev |-> ActivationOf[k.op], relation |-> k.relation]
    <3>1. k.op \notin DOMAIN TypeWritten /\ k.op \notin {"create_record", "create_relation"}
      BY <1>2, <1>5
    <3>2. QED
      BY <1>5, <3>1 DEF EventOf
  <2>2. e.ev = ActivationOf[k.op] /\ e.relation = k.relation
    BY <2>1
  <2>3. k.op = "invalidate"
    BY <1>2, <1>5, <2>2 DEF ActivationOf, sh
  <2>4. NotManaged(h, k.relation)
    BY <1>1, <2>3 DEF Allowed
  <2>5. QED
    BY <2>2, <2>4 DEF NotManaged, sh
<1>6. QED
  BY <1>3, <1>4, <1>5

-----------------------------------------------------------------------------
(***************************************************************************)
(* A sequence lists a set when it has each element of it once.             *)
(***************************************************************************)
Lists(q, X) == /\ q \in Seq(X)
               /\ \A x \in X : \E n \in 1 .. Len(q) : q[n] = x
               /\ \A m, n \in 1 .. Len(q) : q[m] = q[n] => m = n

LEMMA ListsSize ==
    ASSUME NEW X, NEW q, Lists(q, X)
    PROVE  IsFiniteSet(X) /\ Cardinality(X) = Len(q)
<1>1. q \in [1 .. Len(q) -> X] /\ Len(q) \in Nat
  BY DEF Lists
<1>2. q \in Surjection(1 .. Len(q), X) /\ q \in Injection(1 .. Len(q), X)
  <2>1. /\ \A x \in X : \E n \in 1 .. Len(q) : q[n] = x
        /\ \A m, n \in 1 .. Len(q) : q[m] = q[n] => m = n
    BY DEF Lists
  <2>2. QED
    BY <1>1, <2>1 DEF Surjection, Injection, IsInjective
<1>3. IsFiniteSet(1 .. Len(q)) /\ Cardinality(1 .. Len(q)) = Len(q)
  <2>1. PICK n \in Nat : n = Len(q)
    BY <1>1
  <2>2. IsFiniteSet(1 .. n) /\ Cardinality(1 .. n) = IF 1 > n THEN 0 ELSE n - 1 + 1
    BY FS_Interval
  <2>3. Cardinality(1 .. n) = n
    BY <2>2
  <2>4. QED
    BY <2>1, <2>2, <2>3
<1>4. QED
  BY <1>2, <1>3, FS_Surjection

LEMMA ListsBoth ==
    ASSUME NEW X, NEW Y, X \cap Y = {}, NEW q, Lists(q, X), NEW r, Lists(r, Y)
    PROVE  Lists(q \o r, X \cup Y)
<1>1. q \in Seq(X \cup Y) /\ r \in Seq(X \cup Y) /\ Len(q) \in Nat /\ Len(r) \in Nat
  BY DEF Lists
<1>2. PICK z : z = q \o r
  OBVIOUS
<1>3. /\ z \in Seq(X \cup Y) /\ Len(z) = Len(q) + Len(r)
      /\ \A n \in 1 .. Len(q) + Len(r) : z[n] = IF n <= Len(q) THEN q[n] ELSE r[n - Len(q)]
  BY <1>1, <1>2, ConcatProperties
<1>4. \A n \in 1 .. Len(q) : n \in 1 .. Len(z) /\ z[n] = q[n]
  BY <1>1, <1>3
<1>5. ASSUME NEW n \in 1 .. Len(r)
      PROVE  n + Len(q) \in 1 .. Len(z) /\ z[n + Len(q)] = r[n]
  <2>1. PICK m \in Nat : m = n + Len(q)
    BY <1>1
  <2>2. m \in 1 .. Len(q) + Len(r) /\ ~(m <= Len(q)) /\ m - Len(q) = n
    BY <1>1, <2>1
  <2>3. z[m] = r[m - Len(q)]
    BY <1>3, <2>2
  <2>4. QED
    BY <1>3, <2>1, <2>2, <2>3
<1>6. ASSUME NEW n \in 1 .. Len(z)
      PROVE  \/ n \in 1 .. Len(q) /\ z[n] = q[n] /\ z[n] \in X
             \/ n - Len(q) \in 1 .. Len(r) /\ z[n] = r[n - Len(q)] /\ z[n] \in Y
  <2>1. CASE n <= Len(q)
    <3>1. n \in 1 .. Len(q) /\ z[n] = q[n]
      BY <1>1, <1>3, <2>1
    <3>2. q[n] \in X
      BY <3>1 DEF Lists
    <3>3. QED
      BY <3>1, <3>2
  <2>2. CASE ~(n <= Len(q))
    <3>1. n - Len(q) \in 1 .. Len(r) /\ z[n] = r[n - Len(q)]
      BY <1>1, <1>3, <2>2
    <3>2. r[n - Len(q)] \in Y
      BY <3>1 DEF Lists
    <3>3. QED
      BY <3>1, <3>2
  <2>3. QED
    BY <2>1, <2>2
<1>7. ASSUME NEW x \in X \cup Y
      PROVE  \E n \in 1 .. Len(z) : z[n] = x
  <2>1. CASE x \in X
    <3>1. PICK n \in 1 .. Len(q) : q[n] = x
      BY <2>1 DEF Lists
    <3>2. QED
      BY <1>4, <3>1
  <2>2. CASE x \in Y
    <3>1. PICK n \in 1 .. Len(r) : r[n] = x
      BY <2>2 DEF Lists
    <3>2. QED
      BY <1>5, <3>1
  <2>3. QED
    BY <2>1, <2>2
<1>8. ASSUME NEW m \in 1 .. Len(z), NEW n \in 1 .. Len(z), z[m] = z[n]
      PROVE  m = n
  <2>1. CASE z[m] \in X
    <3>1. m \in 1 .. Len(q) /\ n \in 1 .. Len(q) /\ q[m] = q[n]
      BY <1>6, <1>8, <2>1
    <3>2. QED
      BY <3>1 DEF Lists
  <2>2. CASE z[m] \notin X
    <3>1. m - Len(q) \in 1 .. Len(r) /\ n - Len(q) \in 1 .. Len(r)
          /\ r[m - Len(q)] = r[n - Len(q)]
      BY <1>6, <1>8, <2>2
    <3>2. m - Len(q) = n - Len(q)
      BY <3>1 DEF Lists
    <3>3. QED
      BY <1>1, <1>3, <3>2
  <2>3. QED
    BY <2>1, <2>2
<1>9. QED
  BY <1>2, <1>3, <1>7, <1>8 DEF Lists

LEMMA ListsRest ==
    ASSUME NEW X, NEW q, Lists(q, X), q # <<>>
    PROVE  Head(q) \in X /\ Lists(Tail(q), X \ {Head(q)})
<1>1. q \in Seq(X) /\ Len(q) \in Nat /\ Len(q) # 0 /\ Head(q) = q[1] /\ 1 \in 1 .. Len(q)
  BY DEF Lists
<1>2. PICK t : t = Tail(q)
  OBVIOUS
<1>3. /\ t \in Seq(X) /\ Len(t) = Len(q) - 1
      /\ \A n \in 1 .. Len(t) : t[n] = q[n + 1]
  BY <1>1, <1>2
<1>4. \A n \in 1 .. Len(t) : n + 1 \in 1 .. Len(q) /\ n + 1 # 1
  BY <1>1, <1>3
<1>5. ASSUME NEW n \in 1 .. Len(t)
      PROVE  t[n] \in X \ {Head(q)}
  <2>1. t[n] = q[n + 1] /\ n + 1 \in 1 .. Len(q) /\ n + 1 # 1
    BY <1>3, <1>4
  <2>2. PICK m \in 1 .. Len(q) : m = n + 1
    BY <2>1
  <2>3. q[m] \in X /\ q[m] # q[1]
    BY <1>1, <2>1, <2>2 DEF Lists
  <2>4. QED
    BY <1>1, <2>1, <2>2, <2>3
<1>6. t \in Seq(X \ {Head(q)})
  BY <1>3, <1>5
<1>7. ASSUME NEW x \in X \ {Head(q)}
      PROVE  \E n \in 1 .. Len(t) : t[n] = x
  <2>1. PICK n \in 1 .. Len(q) : q[n] = x
    BY DEF Lists
  <2>2. n # 1
    BY <1>1, <2>1
  <2>3. n - 1 \in 1 .. Len(t) /\ (n - 1) + 1 = n
    BY <1>1, <1>3, <2>2
  <2>4. t[n - 1] = x
    BY <1>3, <2>1, <2>3
  <2>5. QED
    BY <2>3, <2>4
<1>8. ASSUME NEW m \in 1 .. Len(t), NEW n \in 1 .. Len(t), t[m] = t[n]
      PROVE  m = n
  <2>1. PICK k \in 1 .. Len(q) : k = m + 1
    BY <1>4
  <2>2. PICK l \in 1 .. Len(q) : l = n + 1
    BY <1>4
  <2>3. q[k] = q[l]
    BY <1>3, <1>8, <2>1, <2>2
  <2>4. k = l
    BY <2>3 DEF Lists
  <2>5. QED
    BY <1>3, <2>1, <2>2, <2>4
<1>9. QED
  BY <1>1, <1>2, <1>6, <1>7, <1>8 DEF Lists

(***************************************************************************)
(* Steps in the order of their events.                                     *)
(***************************************************************************)
Dated(steps) == IsFiniteSet(steps) /\ \A e \in steps : e.at \in Nat

LEMMA OldestExists ==
    ASSUME NEW steps, \A e \in steps : e.at \in Nat, steps # {}
    PROVE  OldestOf(steps) \in steps
<1> DEFINE T == {e.at : e \in steps}
<1>1. T \in SUBSET Nat /\ T # {}
  OBVIOUS
<1>2. PICK m \in T : \A k \in T : m <= k
  BY <1>1, LeastNumber
<1>3. PICK e \in steps : m = e.at
  OBVIOUS
<1>4. \A other \in steps : e.at <= other.at
  BY <1>2, <1>3
<1>5. QED
  BY <1>4 DEF OldestOf

LEMMA InOrderLists ==
    ASSUME NEW steps, Dated(steps)
    PROVE  Lists(InOrder(steps), steps)
<1> DEFINE S == SUBSET steps
           F == [X \in S |-> X \ {OldestOf(X)}]
           Def(f) == [n \in Nat |-> IF n = 0 THEN steps ELSE f[n - 1] \ {OldestOf(f[n - 1])}]
           left == CHOOSE f : f = Def(f)
           C == Cardinality(steps)
           q == InOrder(steps)
<1>1. q = [n \in 1 .. C |-> OldestOf(left[n - 1])]
  BY DEF InOrder
<1>2. F \in [S -> S] /\ steps \in S /\ \A X \in S : F[X] = X \ {OldestOf(X)}
  OBVIOUS
<1>3. PICK g : IsIteration(g, F, steps, S)
  <2> HIDE DEF F, S
  <2>1. QED
    BY <1>2, IterationExists
<1>4. /\ g \in [Nat -> S] /\ g[0] = steps
      /\ \A n \in Nat : g[n] \in S /\ g[n + 1] = g[n] \ {OldestOf(g[n])}
  <2> HIDE DEF F, S
  <2>1. g \in [Nat -> S] /\ g[0] = steps /\ \A n \in Nat : g[n + 1] = F[g[n]]
    BY <1>3 DEF IsIteration
  <2>2. QED
    BY <1>2, <2>1
<1> HIDE DEF F
<1>5. g = Def(g)
  <2>1. ASSUME NEW n \in Nat, n # 0 PROVE g[n] = g[n - 1] \ {OldestOf(g[n - 1])}
    <3>1. n - 1 \in Nat /\ (n - 1) + 1 = n
      BY <2>1
    <3>2. QED
      BY <1>4, <3>1
  <2>2. QED
    BY <1>4, <2>1
<1>6. left = Def(left)
  <2> HIDE DEF Def
  <2>1. QED
    BY <1>5
<1> HIDE DEF left
<1>7. ASSUME NEW n \in Nat
      PROVE  left[n] = IF n = 0 THEN steps ELSE left[n - 1] \ {OldestOf(left[n - 1])}
  BY <1>6
<1> HIDE DEF Def
<1>8. left[0] = steps
  BY <1>7
<1>9. ASSUME NEW n \in Nat PROVE left[n + 1] = left[n] \ {OldestOf(left[n])}
  <2>1. n + 1 \in Nat /\ n + 1 # 0 /\ (n + 1) - 1 = n
    OBVIOUS
  <2>2. QED
    BY <1>7, <2>1
<1>10. C \in Nat /\ IsFiniteSet(steps)
  BY FS_CardinalityType DEF Dated
<1> DEFINE Fine(n) == /\ left[n] \in SUBSET steps /\ IsFiniteSet(left[n])
                      /\ n <= C => Cardinality(left[n]) = C - n
<1>11. ASSUME NEW n \in Nat PROVE Fine(n)
  <2> DEFINE T == {m \in Nat : Fine(m)}
  <2>1. 0 \in T
    BY <1>8, <1>10
  <2>2. ASSUME NEW m \in T PROVE m + 1 \in T
    <3>1. m \in Nat /\ m + 1 \in Nat /\ Fine(m)
      OBVIOUS
    <3>2. PICK X : X = left[m]
      OBVIOUS
    <3>3. X \in SUBSET steps /\ IsFiniteSet(X) /\ left[m + 1] = X \ {OldestOf(X)}
      BY <1>9, <3>1, <3>2
    <3>4. /\ IsFiniteSet(X \ {OldestOf(X)})
          /\ Cardinality(X \ {OldestOf(X)}) =
                 IF OldestOf(X) \in X THEN Cardinality(X) - 1 ELSE Cardinality(X)
      BY <3>3, FS_RemoveElement
    <3>5. ASSUME m + 1 <= C PROVE Cardinality(left[m + 1]) = C - (m + 1)
      <4>1. Cardinality(X) = C - m /\ C - m # 0
        BY <1>10, <3>1, <3>2, <3>5
      <4>2. X # {}
        BY <4>1, FS_EmptySet
      <4>3. OldestOf(X) \in X
        BY <3>3, <4>2, OldestExists DEF Dated
      <4>4. QED
        BY <1>10, <3>1, <3>3, <3>4, <4>1, <4>3
    <3>6. QED
      BY <3>1, <3>3, <3>4, <3>5
  <2>3. T \in SUBSET Nat
    OBVIOUS
  <2>4. T = Nat
    <3> HIDE DEF T
    <3>1. QED
      BY <2>1, <2>2, <2>3, AllNumbers
  <2>5. QED
    BY <2>4
<1>12. ASSUME NEW n \in 1 .. C
       PROVE  q[n] = OldestOf(left[n - 1]) /\ q[n] \in left[n - 1] /\ q[n] \in steps
  <2>1. PICK k \in Nat : k = n - 1
    BY <1>10
  <2>2. Fine(k) /\ k <= C /\ C - k # 0
    BY <1>10, <1>11, <2>1
  <2>3. left[k] # {}
    BY <2>2, FS_EmptySet
  <2>4. OldestOf(left[k]) \in left[k]
    BY <2>2, <2>3, OldestExists DEF Dated
  <2>5. QED
    BY <1>1, <2>1, <2>2, <2>4
<1>13. ASSUME NEW m \in Nat, NEW d \in Nat PROVE left[m + d] \subseteq left[m]
  <2> DEFINE T == {k \in Nat : left[m + k] \subseteq left[m]}
  <2>1. 0 \in T /\ T \in SUBSET Nat
    BY <1>13
  <2>2. ASSUME NEW k \in T PROVE k + 1 \in T
    <3>1. m + k \in Nat /\ m + (k + 1) = (m + k) + 1 /\ k + 1 \in Nat
      BY <1>13
    <3>2. left[m + (k + 1)] \subseteq left[m + k]
      BY <1>9, <3>1
    <3>3. QED
      BY <3>1, <3>2
  <2>3. T = Nat
    <3> HIDE DEF T
    <3>1. QED
      BY <2>1, <2>2, AllNumbers
  <2>4. QED
    BY <2>3
<1>14. ASSUME NEW m \in 1 .. C, NEW n \in 1 .. C, m < n
       PROVE  q[m] # q[n]
  <2>1. PICK k \in Nat : k = m - 1
    BY <1>10
  <2>2. PICK d \in Nat : d = n - 1 - m
    BY <1>10, <1>14
  <2>3. n - 1 = m + d /\ m = k + 1 /\ m \in Nat
    BY <1>10, <2>1, <2>2
  <2>4. q[n] \in left[m]
    BY <1>12, <1>13, <2>3
  <2>5. q[m] \notin left[m]
    BY <1>9, <1>12, <2>1, <2>3
  <2>6. QED
    BY <2>4, <2>5
<1>15. Len(q) = C /\ q \in [1 .. C -> steps] /\ q \in Seq(steps)
  <2>1. \A n \in 1 .. C : OldestOf(left[n - 1]) \in steps
    BY <1>12
  <2>2. q \in [1 .. C -> steps]
    BY <1>1, <2>1
  <2>3. QED
    <3> HIDE DEF q, C
    <3>1. QED
      BY <1>10, <2>2
<1> HIDE DEF q, C
<1>16. \A m, n \in 1 .. C : q[m] = q[n] => m = n
  BY <1>10, <1>14
<1>17. q \in Injection(1 .. C, steps)
  BY <1>15, <1>16 DEF Injection, IsInjective
<1>18. Cardinality(1 .. C) = C
  <2>1. Cardinality(1 .. C) = IF 1 > C THEN 0 ELSE C - 1 + 1
    BY <1>10, FS_Interval
  <2>2. QED
    BY <1>10, <2>1
<1>19. q \in Surjection(1 .. C, steps)
  BY <1>10, <1>17, <1>18, FS_Injection DEF C
<1>20. QED
  BY <1>15, <1>16, <1>19 DEF Lists, Surjection, q

(***************************************************************************)
(* A path and the step behind it.                                          *)
(***************************************************************************)
LEMMA Longer ==
    ASSUME NEW T, NEW p \in Seq(T), NEW e \in T, NEW start
    PROVE  /\ Append(p, e) \in Seq(T) /\ Append(p, e) # <<>>
           /\ Len(Append(p, e)) = Len(p) + 1 /\ Len(p) \in Nat
           /\ EndOf(start, Append(p, e)) = e.to
           /\ On(start, Append(p, e)) = On(start, p) \cup {e.to}
<1>1. PICK z : z = Append(p, e)
  OBVIOUS
<1>2. /\ z \in Seq(T) /\ z # <<>> /\ Len(z) = Len(p) + 1 /\ Len(p) \in Nat
      /\ \A i \in 1 .. Len(p) : z[i] = p[i]
      /\ z[Len(p) + 1] = e
  BY <1>1, AppendProperties
<1>3. DOMAIN z = 1 .. Len(p) + 1 /\ DOMAIN p = 1 .. Len(p)
  BY <1>2
<1>4. EndOf(start, z) = e.to
  BY <1>2 DEF EndOf
<1>5. On(start, z) = On(start, p) \cup {e.to}
  <2>1. {z[n].to : n \in 1 .. Len(p) + 1} = {p[n].to : n \in 1 .. Len(p)} \cup {e.to}
    <3>1. \A n \in 1 .. Len(p) + 1 : n = Len(p) + 1 \/ n \in 1 .. Len(p)
      BY <1>2
    <3>2. \A n \in 1 .. Len(p) : n \in 1 .. Len(p) + 1
      BY <1>2
    <3>3. Len(p) + 1 \in 1 .. Len(p) + 1
      BY <1>2
    <3>4. QED
      BY <1>2, <3>1, <3>2, <3>3
  <2>2. QED
    BY <1>3, <2>1 DEF On
<1>6. QED
  BY <1>1, <1>2, <1>4, <1>5

LEMMA ContinuedLists ==
    ASSUME NEW T, NEW p \in Seq(T), NEW steps \in SUBSET T, Dated(steps)
    PROVE  Lists(Continued(p, steps), {Append(p, e) : e \in steps})
<1> DEFINE next == InOrder(steps)
           q == Continued(p, steps)
           X == {Append(p, e) : e \in steps}
<1>1. Lists(next, steps)
  BY InOrderLists
<1> HIDE DEF next
<1>2. /\ next \in Seq(steps) /\ Len(next) \in Nat /\ DOMAIN next = 1 .. Len(next)
      /\ \A n \in 1 .. Len(next) : next[n] \in steps
      /\ \A x \in steps : \E n \in 1 .. Len(next) : next[n] = x
      /\ \A m, n \in 1 .. Len(next) : next[m] = next[n] => m = n
  BY <1>1 DEF Lists
<1>3. q = [n \in 1 .. Len(next) |-> Append(p, next[n])]
  BY <1>2 DEF Continued, next
<1> HIDE DEF q
<1>4. \A n \in 1 .. Len(next) : q[n] = Append(p, next[n]) /\ q[n] \in X
  BY <1>2, <1>3
<1>5. q \in [1 .. Len(next) -> X]
  BY <1>3, <1>4
<1>6. q \in Seq(X) /\ Len(q) = Len(next)
  BY <1>2, <1>5
<1>7. ASSUME NEW x \in X PROVE \E n \in 1 .. Len(q) : q[n] = x
  <2>1. PICK e \in steps : x = Append(p, e)
    OBVIOUS
  <2>2. PICK n \in 1 .. Len(next) : next[n] = e
    BY <1>2
  <2>3. QED
    BY <1>4, <1>6, <2>1, <2>2
<1>8. ASSUME NEW m \in 1 .. Len(q), NEW n \in 1 .. Len(q), q[m] = q[n]
      PROVE  m = n
  <2>1. next[m] \in T /\ next[n] \in T /\ Append(p, next[m]) = Append(p, next[n])
    BY <1>2, <1>4, <1>6, <1>8
  <2>2. next[m] = next[n]
    BY <2>1, AppendInjective
  <2>3. QED
    BY <1>2, <1>6, <2>2
<1>9. QED
  BY <1>6, <1>7, <1>8 DEF Lists, q

-----------------------------------------------------------------------------
(***************************************************************************)
(* What can be searched: finitely many steps from finitely many records,   *)
(* each to one of them.                                                    *)
(***************************************************************************)
StepsOf(adjacent) == UNION {adjacent[x] : x \in DOMAIN adjacent}

Searchable(adjacent, start, until) ==
    /\ IsFiniteSet(DOMAIN adjacent)
    /\ start \in DOMAIN adjacent \ until
    /\ \A x \in DOMAIN adjacent : /\ Dated(adjacent[x])
                                  /\ \A e \in adjacent[x] : e.to \in DOMAIN adjacent

OneLonger(adjacent, start, until, Q) ==
    UNION {{Append(p, step) : step \in {e \in adjacent[EndOf(start, p)] :
                                           e.to \notin On(start, p)}} :
              p \in {q \in Q : EndOf(start, q) \notin until}}

LEMMA StepsKnown ==
    ASSUME NEW adjacent, NEW start, NEW until, Searchable(adjacent, start, until)
    PROVE  /\ \A e \in StepsOf(adjacent) : e.to \in DOMAIN adjacent
           /\ \A p \in Seq(StepsOf(adjacent)) :
                  /\ EndOf(start, p) \in DOMAIN adjacent
                  /\ adjacent[EndOf(start, p)] \subseteq StepsOf(adjacent)
<1>1. ASSUME NEW e \in StepsOf(adjacent) PROVE e.to \in DOMAIN adjacent
  BY DEF StepsOf, Searchable
<1>2. ASSUME NEW p \in Seq(StepsOf(adjacent))
      PROVE  EndOf(start, p) \in DOMAIN adjacent
  <2>1. CASE p = <<>>
    BY <2>1 DEF EndOf, Searchable
  <2>2. CASE p # <<>>
    <3>1. p[Len(p)] \in StepsOf(adjacent)
      BY <2>2
    <3>2. QED
      BY <1>1, <2>2, <3>1 DEF EndOf
  <2>3. QED
    BY <2>1, <2>2
<1>3. ASSUME NEW x \in DOMAIN adjacent PROVE adjacent[x] \subseteq StepsOf(adjacent)
  BY DEF StepsOf
<1>4. QED
  BY <1>1, <1>2, <1>3

LEMMA OneLongerIs ==
    ASSUME NEW adjacent, NEW start, NEW until, Searchable(adjacent, start, until),
           NEW Q \in SUBSET Seq(StepsOf(adjacent)),
           NEW z
    PROVE  z \in OneLonger(adjacent, start, until, Q) <=>
               \E p \in Q : \E e \in adjacent[EndOf(start, p)] :
                   /\ EndOf(start, p) \notin until
                   /\ e.to \notin On(start, p)
                   /\ z = Append(p, e)
BY DEF OneLonger

LEMMA OneLongerKnown ==
    ASSUME NEW adjacent, NEW start, NEW until, Searchable(adjacent, start, until),
           NEW Q \in SUBSET Seq(StepsOf(adjacent))
    PROVE  /\ OneLonger(adjacent, start, until, Q) \subseteq Seq(StepsOf(adjacent))
           /\ IsFiniteSet(Q) => IsFiniteSet(OneLonger(adjacent, start, until, Q))
<1> DEFINE T == StepsOf(adjacent)
           Fine(p) == {e \in adjacent[EndOf(start, p)] : e.to \notin On(start, p)}
           From(p) == {Append(p, step) : step \in Fine(p)}
           R == {q \in Q : EndOf(start, q) \notin until}
<1>1. ASSUME NEW z \in OneLonger(adjacent, start, until, Q) PROVE z \in Seq(T)
  <2>1. PICK p \in Q : \E e \in adjacent[EndOf(start, p)] : z = Append(p, e)
    BY OneLongerIs
  <2>2. PICK e \in adjacent[EndOf(start, p)] : z = Append(p, e)
    BY <2>1
  <2>3. p \in Seq(T) /\ e \in T
    BY StepsKnown
  <2> HIDE DEF T
  <2>4. QED
    BY <2>2, <2>3, Longer
<1>2. ASSUME IsFiniteSet(Q)
      PROVE  IsFiniteSet(OneLonger(adjacent, start, until, Q))
  <2>1. OneLonger(adjacent, start, until, Q) = UNION {From(p) : p \in R}
    BY DEF OneLonger
  <2>2. ASSUME NEW p \in R PROVE IsFiniteSet(From(p))
    <3>1. EndOf(start, p) \in DOMAIN adjacent
      BY StepsKnown
    <3>2. IsFiniteSet(adjacent[EndOf(start, p)])
      BY <3>1 DEF Searchable, Dated
    <3>3. IsFiniteSet(Fine(p))
      BY <3>2, FS_Subset
    <3> DEFINE f == [e \in Fine(p) |-> Append(p, e)]
    <3>4. f \in Surjection(Fine(p), From(p))
      BY DEF Surjection
    <3>5. QED
      BY <3>3, <3>4, FS_Surjection
  <2>3. IsFiniteSet(R)
    BY <1>2, FS_Subset
  <2> DEFINE F == {From(p) : p \in R}
             g == [p \in R |-> From(p)]
  <2>4. g \in Surjection(R, F)
    <3> HIDE DEF From, R
    <3>1. QED
      BY DEF Surjection
  <2>5. IsFiniteSet(F)
    <3> HIDE DEF F, g, R
    <3>1. QED
      BY <2>3, <2>4, FS_Surjection
  <2>6. \A X \in F : IsFiniteSet(X)
    BY <2>2
  <2>7. QED
    <3> HIDE DEF F
    <3>1. IsFiniteSet(UNION F)
      BY <2>5, <2>6, FS_UNION
    <3>2. QED
      BY <2>1, <3>1 DEF F
<1>3. QED
  BY <1>1, <1>2

LEMMA PathsSteps ==
    ASSUME NEW adjacent, NEW start, NEW until, Searchable(adjacent, start, until)
    PROVE  /\ SimplePaths(adjacent, start, until, 0) = {<<>>}
           /\ \A n \in Nat :
                /\ SimplePaths(adjacent, start, until, n) \in SUBSET Seq(StepsOf(adjacent))
                /\ SimplePaths(adjacent, start, until, n + 1) =
                       SimplePaths(adjacent, start, until, n)
                       \cup OneLonger(adjacent, start, until,
                                      SimplePaths(adjacent, start, until, n))
<1> DEFINE S == SUBSET Seq(StepsOf(adjacent))
           L(Q) == OneLonger(adjacent, start, until, Q)
           F == [Q \in S |-> Q \cup L(Q)]
           Def(f) == [n \in Nat |-> IF n = 0 THEN {<<>>} ELSE f[n - 1] \cup L(f[n - 1])]
           upTo == CHOOSE f : f = Def(f)
<1>1. \A n : SimplePaths(adjacent, start, until, n) = upTo[n]
  BY DEF SimplePaths, OneLonger
<1>2. F \in [S -> S] /\ {<<>>} \in S /\ \A Q \in S : F[Q] = Q \cup L(Q)
  <2>1. \A Q \in S : L(Q) \in S
    BY OneLongerKnown
  <2>2. {<<>>} \in S
    OBVIOUS
  <2> HIDE DEF L
  <2>3. QED
    BY <2>1, <2>2
<1> HIDE DEF L
<1>3. PICK g : IsIteration(g, F, {<<>>}, S)
  <2> HIDE DEF F, S
  <2>1. QED
    BY <1>2, IterationExists
<1>4. /\ g \in [Nat -> S] /\ g[0] = {<<>>}
      /\ \A n \in Nat : g[n] \in S /\ g[n + 1] = g[n] \cup L(g[n])
  <2> HIDE DEF F, S
  <2>1. g \in [Nat -> S] /\ g[0] = {<<>>} /\ \A n \in Nat : g[n + 1] = F[g[n]]
    BY <1>3 DEF IsIteration
  <2>2. QED
    BY <1>2, <2>1
<1> HIDE DEF F, S
<1>5. g = Def(g)
  <2>1. ASSUME NEW n \in Nat, n # 0 PROVE g[n] = g[n - 1] \cup L(g[n - 1])
    <3>1. n - 1 \in Nat /\ (n - 1) + 1 = n
      BY <2>1
    <3>2. QED
      BY <1>4, <3>1
  <2>2. QED
    BY <1>4, <2>1
<1>6. upTo = Def(upTo)
  <2> HIDE DEF Def
  <2>1. QED
    BY <1>5
<1> HIDE DEF upTo
<1>7. ASSUME NEW n \in Nat
      PROVE  upTo[n] = IF n = 0 THEN {<<>>} ELSE upTo[n - 1] \cup L(upTo[n - 1])
  BY <1>6
<1> HIDE DEF Def
<1>8. upTo[0] = {<<>>}
  BY <1>7
<1>9. ASSUME NEW n \in Nat PROVE upTo[n + 1] = upTo[n] \cup L(upTo[n])
  <2>1. n + 1 \in Nat /\ n + 1 # 0 /\ (n + 1) - 1 = n
    OBVIOUS
  <2>2. QED
    BY <1>7, <2>1
<1>10. ASSUME NEW n \in Nat PROVE upTo[n] \in S
  <2> DEFINE T == {m \in Nat : upTo[m] \in S}
  <2>1. 0 \in T /\ T \in SUBSET Nat
    BY <1>2, <1>8
  <2>2. ASSUME NEW m \in T PROVE m + 1 \in T
    <3>1. L(upTo[m]) \in S
      BY OneLongerKnown DEF S, L
    <3>2. QED
      BY <1>9, <3>1 DEF S
  <2>3. T = Nat
    <3> HIDE DEF T
    <3>1. QED
      BY <2>1, <2>2, AllNumbers
  <2>4. QED
    BY <2>3
<1>11. QED
  BY <1>1, <1>8, <1>9, <1>10 DEF S, L

(***************************************************************************)
(* The simple paths up to a depth: a path is one of those of its own       *)
(* length, and a path that may go on, does.                                *)
(***************************************************************************)
LEMMA PathFacts ==
    ASSUME NEW adjacent, NEW start, NEW until, Searchable(adjacent, start, until),
           NEW n \in Nat
    PROVE  /\ <<>> \in SimplePaths(adjacent, start, until, n)
           /\ IsFiniteSet(SimplePaths(adjacent, start, until, n))
           /\ \A p \in SimplePaths(adjacent, start, until, n) :
                  /\ p \in Seq(StepsOf(adjacent))
                  /\ Len(p) \in Nat /\ Len(p) <= n
                  /\ p \in SimplePaths(adjacent, start, until, Len(p))
<1> DEFINE P(m) == SimplePaths(adjacent, start, until, m)
           T == StepsOf(adjacent)
           L(Q) == OneLonger(adjacent, start, until, Q)
           Fine(m) == /\ <<>> \in P(m) /\ IsFiniteSet(P(m))
                      /\ \A p \in P(m) : Len(p) <= m /\ p \in P(Len(p))
           N == {m \in Nat : Fine(m)}
<1>1. P(0) = {<<>>} /\ \A m \in Nat : P(m) \in SUBSET Seq(T) /\ P(m + 1) = P(m) \cup L(P(m))
  BY PathsSteps
<1>2. \A m \in Nat : \A p \in P(m) : p \in Seq(T) /\ Len(p) \in Nat
  <2> HIDE DEF P, T
  <2>1. ASSUME NEW m \in Nat, NEW p \in P(m) PROVE p \in Seq(T) /\ Len(p) \in Nat
    <3>1. p \in Seq(T)
      BY <1>1
    <3>2. QED
      BY <3>1, LenProperties
  <2>2. QED
    BY <2>1
<1>3. 0 \in N
  <2>1. Len(<<>>) = 0 /\ IsFiniteSet({<<>>})
    BY FS_Singleton
  <2> HIDE DEF P
  <2>2. <<>> \in P(0) /\ IsFiniteSet(P(0))
    BY <1>1, <2>1
  <2>3. \A p \in P(0) : p = <<>>
    BY <1>1
  <2>4. \A p \in P(0) : Len(p) <= 0 /\ p \in P(Len(p))
    BY <2>1, <2>2, <2>3
  <2>5. QED
    BY <2>2, <2>4
<1>4. ASSUME NEW m \in N PROVE m + 1 \in N
  <2>1. m \in Nat /\ m + 1 \in Nat /\ Fine(m)
    OBVIOUS
  <2>2. IsFiniteSet(P(m + 1)) /\ <<>> \in P(m + 1)
    <3>1. IsFiniteSet(L(P(m)))
      <4> HIDE DEF P
      <4>1. QED
        BY <1>1, <2>1, OneLongerKnown
    <3> HIDE DEF P, L
    <3>2. IsFiniteSet(P(m) \cup L(P(m)))
      BY <2>1, <3>1, FS_Union
    <3>3. QED
      BY <1>1, <2>1, <3>2
  <2>3. ASSUME NEW z \in P(m + 1)
        PROVE  Len(z) <= m + 1 /\ z \in P(Len(z))
    <3>1. CASE z \in P(m)
      <4> HIDE DEF P
      <4>1. QED
        BY <1>2, <2>1, <3>1
    <3>2. CASE z \in L(P(m))
      <4>1. PICK p \in P(m) : \E e \in adjacent[EndOf(start, p)] :
                   /\ EndOf(start, p) \notin until
                   /\ e.to \notin On(start, p)
                   /\ z = Append(p, e)
        <5> HIDE DEF P
        <5>1. QED
          BY <1>1, <2>1, <3>2, OneLongerIs DEF L
      <4>2. PICK e \in adjacent[EndOf(start, p)] :
                   /\ EndOf(start, p) \notin until
                   /\ e.to \notin On(start, p)
                   /\ z = Append(p, e)
        BY <4>1
      <4>3. p \in Seq(T) /\ Len(p) \in Nat /\ Len(p) <= m /\ p \in P(Len(p))
        BY <1>2, <2>1
      <4>4. e \in T
        BY <4>3, StepsKnown
      <4>5. Len(z) = Len(p) + 1
        BY <4>2, <4>3, <4>4, Longer
      <4>6. z \in L(P(Len(p)))
        <5> HIDE DEF P
        <5>1. QED
          BY <1>1, <4>2, <4>3, OneLongerIs DEF L
      <4>7. z \in P(Len(p) + 1)
        <5> HIDE DEF P, L
        <5>1. QED
          BY <1>1, <4>3, <4>6
      <4>8. QED
        BY <2>1, <4>3, <4>5, <4>7
    <3>3. QED
      <4> HIDE DEF P, L
      <4>1. QED
        BY <1>1, <2>1, <3>1, <3>2
  <2>4. QED
    BY <2>1, <2>2, <2>3
<1>5. N = Nat
  <2>1. N \in SUBSET Nat
    OBVIOUS
  <2> HIDE DEF N
  <2>2. QED
    BY <1>3, <1>4, <2>1, AllNumbers
<1>6. QED
  BY <1>2, <1>5

LEMMA PathsGrow ==
    ASSUME NEW adjacent, NEW start, NEW until, Searchable(adjacent, start, until),
           NEW m \in Nat, NEW n \in Nat, m <= n
    PROVE  SimplePaths(adjacent, start, until, m) \subseteq
               SimplePaths(adjacent, start, until, n)
<1> DEFINE P(k) == SimplePaths(adjacent, start, until, k)
           T == {k \in Nat : P(m) \subseteq P(m + k)}
<1>1. \A k \in Nat : P(k) \subseteq P(k + 1)
  BY PathsSteps
<1> HIDE DEF P
<1>2. 0 \in T /\ T \in SUBSET Nat
  OBVIOUS
<1>3. ASSUME NEW k \in T PROVE k + 1 \in T
  <2>1. m + k \in Nat /\ m + (k + 1) = (m + k) + 1 /\ k + 1 \in Nat
    OBVIOUS
  <2>2. QED
    BY <1>1, <2>1
<1>4. T = Nat
  <2> HIDE DEF T
  <2>1. QED
    BY <1>2, <1>3, AllNumbers
<1>5. n - m \in T /\ m + (n - m) = n
  <2>1. n - m \in Nat /\ m + (n - m) = n
    OBVIOUS
  <2> HIDE DEF T
  <2>2. QED
    BY <1>4, <2>1
<1>6. QED
  BY <1>5 DEF P

LEMMA PathGoesOn ==
    ASSUME NEW adjacent, NEW start, NEW until, Searchable(adjacent, start, until),
           NEW n \in Nat, NEW p \in SimplePaths(adjacent, start, until, n), Len(p) < n,
           EndOf(start, p) \notin until,
           NEW e \in adjacent[EndOf(start, p)], e.to \notin On(start, p)
    PROVE  Append(p, e) \in SimplePaths(adjacent, start, until, n)
<1> DEFINE P(k) == SimplePaths(adjacent, start, until, k)
<1>1. p \in P(Len(p)) /\ Len(p) \in Nat /\ P(Len(p)) \in SUBSET Seq(StepsOf(adjacent))
  BY PathFacts, PathsSteps
<1>2. Append(p, e) \in OneLonger(adjacent, start, until, P(Len(p)))
  <2> HIDE DEF P
  <2>1. QED
    BY <1>1, OneLongerIs
<1>3. Append(p, e) \in P(Len(p) + 1)
  BY <1>1, <1>2, PathsSteps
<1>4. P(Len(p) + 1) \subseteq P(n)
  BY <1>1, PathsGrow
<1>5. QED
  BY <1>3, <1>4

LEMMA PathCameFrom ==
    ASSUME NEW adjacent, NEW start, NEW until, Searchable(adjacent, start, until),
           NEW n \in Nat, NEW z \in SimplePaths(adjacent, start, until, n), z # <<>>
    PROVE  \E p \in SimplePaths(adjacent, start, until, n) :
               \E e \in adjacent[EndOf(start, p)] :
                   /\ EndOf(start, p) \notin until
                   /\ e.to \notin On(start, p)
                   /\ z = Append(p, e)
                   /\ Len(p) < n /\ Len(z) = Len(p) + 1
<1> DEFINE P(k) == SimplePaths(adjacent, start, until, k)
           T == StepsOf(adjacent)
<1>1. z \in Seq(T) /\ z \in P(Len(z)) /\ Len(z) \in Nat /\ Len(z) <= n
  BY PathFacts
<1>2. Len(z) # 0
  BY <1>1
<1>3. PICK k \in Nat : k + 1 = Len(z)
  <2>1. Len(z) - 1 \in Nat /\ (Len(z) - 1) + 1 = Len(z)
    BY <1>1, <1>2
  <2>2. QED
    BY <2>1
<1>4. P(k) \in SUBSET Seq(T) /\ P(k + 1) = P(k) \cup OneLonger(adjacent, start, until, P(k))
  BY PathsSteps
<1>5. z \notin P(k)
  <2>1. \A p \in P(k) : Len(p) <= k /\ Len(p) \in Nat
    BY PathFacts
  <2>2. QED
    BY <1>3, <2>1
<1>6. PICK p \in P(k) : \E e \in adjacent[EndOf(start, p)] :
                   /\ EndOf(start, p) \notin until
                   /\ e.to \notin On(start, p)
                   /\ z = Append(p, e)
  <2> HIDE DEF P
  <2>1. z \in P(k + 1)
    BY <1>1, <1>3 DEF P
  <2>2. QED
    BY <1>4, <1>5, <2>1, OneLongerIs
<1>7. PICK e \in adjacent[EndOf(start, p)] :
                   /\ EndOf(start, p) \notin until
                   /\ e.to \notin On(start, p)
                   /\ z = Append(p, e)
  BY <1>6
<1>8. p \in P(n)
  <2>1. k <= n
    BY <1>1, <1>3
  <2>2. QED
    BY <2>1, PathsGrow
<1>9. Len(z) = Len(p) + 1 /\ Len(p) \in Nat
  <2>1. p \in Seq(T) /\ e \in T
    BY <1>4, StepsKnown
  <2>2. QED
    BY <1>7, <2>1, Longer
<1>10. QED
  BY <1>1, <1>3, <1>7, <1>8, <1>9

-----------------------------------------------------------------------------
(***************************************************************************)
(* A search, after it has followed the paths of V: what they go on to is   *)
(* in the queue unless it is in V itself, every result behind them is      *)
(* found, and every step behind them is counted.                           *)
(***************************************************************************)
Kids(adjacent, start, b, V) ==
    UNION {{Append(p, e) : e \in Fresh(adjacent, start, p, b)} : p \in V}

Open(adjacent, start, until, b, V) ==
    {<<>>} \cup {k \in Kids(adjacent, start, b, V) : EndOf(start, k) \notin until}

Hits(adjacent, start, until, b, V) ==
    {k \in Kids(adjacent, start, b, V) : until = {} \/ EndOf(start, k) \in until}

Seen(adjacent, start, b, V) ==
    UNION {{<<p, e>> : e \in Behind(adjacent, start, p, b)} : p \in V}

Inner(adjacent, start, until, b) ==
    {p \in SimplePaths(adjacent, start, until, b.depth) : EndOf(start, p) \notin until}

Followed(adjacent, start, until, b, s, V) ==
    /\ V \subseteq Inner(adjacent, start, until, b)
    /\ V \subseteq Open(adjacent, start, until, b, V)
    /\ Lists(s.queue, Open(adjacent, start, until, b, V) \ V)
    /\ Lists(s.paths, Hits(adjacent, start, until, b, V))
    /\ s.expansions = Cardinality(Seen(adjacent, start, b, V))
    /\ s.refused = (s.expansions > b.expansions \/ Len(s.paths) > b.results)

LEMMA StepsFinite ==
    ASSUME NEW adjacent, NEW start, NEW until, Searchable(adjacent, start, until)
    PROVE  IsFiniteSet(StepsOf(adjacent))
<1> DEFINE X == DOMAIN adjacent
           F == {adjacent[x] : x \in X}
           g == [x \in X |-> adjacent[x]]
<1>1. IsFiniteSet(X)
  BY DEF Searchable
<1>2. g \in Surjection(X, F)
  <2> HIDE DEF X
  <2>1. QED
    BY DEF Surjection
<1>3. IsFiniteSet(F)
  <2> HIDE DEF X, F, g
  <2>1. QED
    BY <1>1, <1>2, FS_Surjection
<1>4. \A Y \in F : IsFiniteSet(Y)
  BY DEF Searchable, Dated
<1>5. IsFiniteSet(UNION F)
  <2> HIDE DEF F
  <2>1. QED
    BY <1>3, <1>4, FS_UNION
<1>6. QED
  BY <1>5 DEF StepsOf

LEMMA BehindKnown ==
    ASSUME NEW adjacent, NEW start, NEW until, Searchable(adjacent, start, until),
           NEW b \in QueryBounds, NEW p \in Seq(StepsOf(adjacent))
    PROVE  /\ Behind(adjacent, start, p, b) \subseteq StepsOf(adjacent)
           /\ Dated(Behind(adjacent, start, p, b))
           /\ Behind(adjacent, start, p, b) =
                  IF Len(p) < b.depth THEN adjacent[EndOf(start, p)] ELSE {}
<1>1. Len(p) \in Nat /\ b.depth \in Nat
  BY DEF QueryBounds
<1>2. EndOf(start, p) \in DOMAIN adjacent /\ adjacent[EndOf(start, p)] \subseteq StepsOf(adjacent)
  BY StepsKnown
<1>3. Dated(adjacent[EndOf(start, p)]) /\ Dated({})
  BY <1>2, FS_EmptySet DEF Searchable, Dated
<1>4. QED
  BY <1>1, <1>2, <1>3 DEF Behind

LEMMA KidsKnown ==
    ASSUME NEW adjacent, NEW start, NEW until, Searchable(adjacent, start, until),
           NEW b \in QueryBounds, NEW V \in SUBSET Inner(adjacent, start, until, b),
           NEW k \in Kids(adjacent, start, b, V)
    PROVE  /\ k \in SimplePaths(adjacent, start, until, b.depth) /\ k # <<>>
           /\ \E p \in V : \E e \in Fresh(adjacent, start, p, b) :
                  k = Append(p, e) /\ Len(p) < b.depth /\ EndOf(start, k) = e.to
<1>1. PICK p \in V : \E e \in Fresh(adjacent, start, p, b) : k = Append(p, e)
  BY DEF Kids
<1>2. PICK e \in Fresh(adjacent, start, p, b) : k = Append(p, e)
  BY <1>1
<1>3. p \in SimplePaths(adjacent, start, until, b.depth) /\ EndOf(start, p) \notin until
  BY DEF Inner
<1>4. b.depth \in Nat
  BY DEF QueryBounds
<1>5. p \in Seq(StepsOf(adjacent)) /\ Len(p) \in Nat
  BY <1>3, <1>4, PathFacts
<1>6. /\ e \in Behind(adjacent, start, p, b) /\ e.to \notin On(start, p)
      /\ e \in StepsOf(adjacent)
  BY <1>5, BehindKnown DEF Fresh
<1>7. Len(p) < b.depth /\ e \in adjacent[EndOf(start, p)]
  BY <1>5, <1>6, BehindKnown
<1>8. k # <<>> /\ EndOf(start, k) = e.to
  BY <1>2, <1>5, <1>6, Longer
<1>9. k \in SimplePaths(adjacent, start, until, b.depth)
  BY <1>2, <1>3, <1>4, <1>6, <1>7, PathGoesOn
<1>10. QED
  BY <1>2, <1>7, <1>8, <1>9

LEMMA SeenFinite ==
    ASSUME NEW adjacent, NEW start, NEW until, Searchable(adjacent, start, until),
           NEW b \in QueryBounds, NEW V \in SUBSET Inner(adjacent, start, until, b)
    PROVE  /\ IsFiniteSet(V) /\ V \in SUBSET Seq(StepsOf(adjacent))
           /\ IsFiniteSet(Seen(adjacent, start, b, V))
<1>1. b.depth \in Nat
  BY DEF QueryBounds
<1>2. IsFiniteSet(SimplePaths(adjacent, start, until, b.depth))
      /\ V \in SUBSET SimplePaths(adjacent, start, until, b.depth)
  BY <1>1, PathFacts DEF Inner
<1>3. IsFiniteSet(V)
  BY <1>2, FS_Subset
<1>4. V \in SUBSET Seq(StepsOf(adjacent))
  BY <1>1, <1>2, PathFacts
<1>5. IsFiniteSet(V \X StepsOf(adjacent))
  BY <1>3, StepsFinite, FS_Product
<1>6. Seen(adjacent, start, b, V) \in SUBSET (V \X StepsOf(adjacent))
  BY <1>4, BehindKnown DEF Seen
<1>7. QED
  BY <1>3, <1>4, <1>5, <1>6, FS_Subset

LEMMA FollowKeeps ==
    ASSUME NEW adjacent, NEW start, NEW until, Searchable(adjacent, start, until),
           NEW b \in QueryBounds, NEW s, NEW V,
           Followed(adjacent, start, until, b, s, V), s.queue # <<>>
    PROVE  /\ Head(s.queue) \notin V
           /\ Followed(adjacent, start, until, b, Follow(adjacent, start, until, b, s),
                       V \cup {Head(s.queue)})
<1> DEFINE T == StepsOf(adjacent)
           K(W) == Kids(adjacent, start, b, W)
           O(W) == Open(adjacent, start, until, b, W)
           H(W) == Hits(adjacent, start, until, b, W)
           In == Inner(adjacent, start, until, b)
           p == Head(s.queue)
           fresh == Fresh(adjacent, start, p, b)
           behind == Behind(adjacent, start, p, b)
           on == {e \in fresh : e.to \notin until}
           hit == {e \in fresh : until = {} \/ e.to \in until}
           New(E) == {Append(p, e) : e \in E}
           W == V \cup {p}
           found == s.paths \o Continued(p, hit)
           queue == Tail(s.queue) \o Continued(p, on)
           expanded == s.expansions + Cardinality(behind)
           z == [refused    |-> expanded > b.expansions \/ Len(found) > b.results,
                 expansions |-> expanded,
                 paths      |-> found,
                 queue      |-> queue]
<1>1. /\ V \in SUBSET In /\ V \subseteq O(V)
      /\ Lists(s.queue, O(V) \ V) /\ Lists(s.paths, H(V))
      /\ s.expansions = Cardinality(Seen(adjacent, start, b, V))
  BY DEF Followed
<1>2. p \in O(V) \ V /\ Lists(Tail(s.queue), (O(V) \ V) \ {p})
  <2> HIDE DEF O
  <2>1. QED
    BY <1>1, ListsRest
<1>3. b.depth \in Nat
  BY DEF QueryBounds
<1>4. p \in In
  <2>1. CASE p = <<>>
    <3>1. <<>> \in SimplePaths(adjacent, start, until, b.depth)
      BY <1>3, PathFacts
    <3>2. EndOf(start, <<>>) = start /\ start \notin until
      BY DEF EndOf, Searchable
    <3>3. QED
      BY <2>1, <3>1, <3>2 DEF Inner
  <2>2. CASE p \in K(V) /\ EndOf(start, p) \notin until
    BY <1>1, <2>2, KidsKnown DEF Inner
  <2>3. QED
    BY <1>2, <2>1, <2>2 DEF Open
<1>5. p \in Seq(T) /\ V \in SUBSET Seq(T) /\ W \in SUBSET In
  <2>1. W \in SUBSET In
    BY <1>1, <1>4
  <2>2. QED
    <3> HIDE DEF p, T, In
    <3>1. W \in SUBSET Seq(T)
      BY <2>1, SeenFinite DEF T, In
    <3>2. QED
      BY <2>1, <3>1
<1>6. behind \subseteq T /\ Dated(behind) /\ fresh \subseteq behind
  BY <1>5, BehindKnown DEF Fresh
<1> HIDE DEF fresh, behind
<1>7. \A e \in fresh : /\ EndOf(start, Append(p, e)) = e.to
                       /\ Append(p, e) # <<>>
  BY <1>5, <1>6, Longer
<1>8. K(W) = K(V) \cup New(fresh)
  BY DEF Kids, fresh
<1>9. New(fresh) \cap (K(V) \cup {<<>>}) = {}
  <2>1. ASSUME NEW e \in fresh, Append(p, e) \in K(V) PROVE FALSE
    <3>1. PICK v \in V : \E d \in Fresh(adjacent, start, v, b) : Append(p, e) = Append(v, d)
      BY ONLY <2>1 DEF Kids
    <3>2. PICK d \in Fresh(adjacent, start, v, b) : Append(p, e) = Append(v, d)
      BY <3>1
    <3>3. v \in Seq(T) /\ d \in T /\ e \in T
      BY <1>5, <1>6, BehindKnown DEF Fresh
    <3>4. p = v
      <4> HIDE DEF T, p
      <4>1. QED
        BY <1>5, <3>2, <3>3, AppendInjective
    <3>5. QED
      BY <1>2, <3>4
  <2>2. QED
    <3> HIDE DEF p
    <3>1. QED
      BY <1>7, <2>1
<1> HIDE DEF K
<1>10. O(W) = O(V) \cup New(on) /\ H(W) = H(V) \cup New(hit)
  <2>1. \A e \in fresh : EndOf(start, Append(p, e)) = e.to
    BY <1>7
  <2> HIDE DEF p, fresh, W
  <2>2. O(W) = O(V) \cup New(on)
    BY <1>8, <2>1 DEF Open, K
  <2>3. H(W) = H(V) \cup New(hit)
    BY <1>8, <2>1 DEF Hits, K
  <2>4. QED
    BY <2>2, <2>3
<1>11. O(V) \subseteq K(V) \cup {<<>>} /\ H(V) \subseteq K(V)
  BY DEF Open, Hits, K
<1> HIDE DEF O, H
<1>12. O(W) \ W = ((O(V) \ V) \ {p}) \cup New(on) /\ ((O(V) \ V) \ {p}) \cap New(on) = {}
       /\ H(V) \cap New(hit) = {} /\ W \subseteq O(W)
  <2>1. New(on) \subseteq New(fresh) /\ New(hit) \subseteq New(fresh)
    BY DEF on, hit
  <2> HIDE DEF New, on, hit, p, fresh
  <2>2. QED
    BY <1>1, <1>2, <1>9, <1>10, <1>11, <2>1
<1>13. Lists(Continued(p, on), New(on)) /\ Lists(Continued(p, hit), New(hit))
  <2>1. on \in SUBSET T /\ hit \in SUBSET T /\ Dated(on) /\ Dated(hit)
    <3>1. on \in SUBSET behind /\ hit \in SUBSET behind
      BY <1>6
    <3>2. IsFiniteSet(on) /\ IsFiniteSet(hit)
      <4> HIDE DEF on, hit
      <4>1. QED
        BY <1>6, <3>1, FS_Subset DEF Dated
    <3>3. QED
      BY <1>6, <3>1, <3>2 DEF Dated
  <2> HIDE DEF on, hit, T, p
  <2>2. QED
    BY <1>5, <2>1, ContinuedLists
<1>14. Lists(queue, O(W) \ W)
  <2> HIDE DEF New, on, hit, p, fresh, W
  <2>1. QED
    BY <1>2, <1>12, <1>13, ListsBoth
<1>15. Lists(found, H(W))
  <2> HIDE DEF New, on, hit, p, fresh, W
  <2>1. QED
    BY <1>1, <1>10, <1>12, <1>13, ListsBoth
<1>16. Cardinality(Seen(adjacent, start, b, W)) = expanded
  <2> DEFINE A == Seen(adjacent, start, b, V)
             B == {<<p, e>> : e \in behind}
             f == [e \in behind |-> <<p, e>>]
  <2>1. Seen(adjacent, start, b, W) = A \cup B
    BY DEF Seen, behind
  <2>2. A \cap B = {}
    BY <1>2 DEF Seen
  <2>3. IsFiniteSet(A)
    BY <1>1, SeenFinite
  <2>4. IsFiniteSet(behind)
    BY <1>6 DEF Dated
  <2>5. f \in Surjection(behind, B) /\ f \in Injection(behind, B)
    <3> HIDE DEF p
    <3>1. QED
      BY DEF Surjection, Injection, IsInjective
  <2>6. IsFiniteSet(B) /\ Cardinality(B) = Cardinality(behind)
    <3> HIDE DEF B, f
    <3>1. QED
      BY <2>4, <2>5, FS_Surjection
  <2>7. Cardinality(A \cup B) = Cardinality(A) + Cardinality(B)
    <3> HIDE DEF A, B
    <3>1. Cardinality(A \cap B) = 0
      BY <2>2, FS_EmptySet
    <3>2. Cardinality(A) \in Nat /\ Cardinality(B) \in Nat
      BY <2>3, <2>6, FS_CardinalityType
    <3>3. Cardinality(A \cup B) = Cardinality(A) + Cardinality(B) - Cardinality(A \cap B)
      BY <2>3, <2>6, FS_Union
    <3>4. QED
      BY <3>1, <3>2, <3>3
  <2>8. QED
    BY <1>1, <2>1, <2>6, <2>7
<1>17. Follow(adjacent, start, until, b, s) = z
  BY DEF Follow, fresh, behind
<1>18. /\ z.queue = queue /\ z.paths = found /\ z.expansions = expanded
       /\ z.refused = (z.expansions > b.expansions \/ Len(z.paths) > b.results)
  OBVIOUS
<1> HIDE DEF z, p, found, queue, expanded
<1>19. Followed(adjacent, start, until, b, z, W)
  BY <1>5, <1>12, <1>14, <1>15, <1>16, <1>18 DEF Followed, O, H
<1>20. QED
  BY <1>2, <1>17, <1>19 DEF p

WalkStates(adjacent, start, until, b) ==
    {s \in [refused    : BOOLEAN,
            expansions : Nat,
            paths      : Seq(Seq(StepsOf(adjacent))),
            queue      : Seq(Seq(StepsOf(adjacent)))] :
        \E V : Followed(adjacent, start, until, b, s, V)}

WalkOf(adjacent, start, until, b) ==
    LET walk[n \in Nat] ==
            IF n = 0 THEN AtStart ELSE Advance(adjacent, start, until, b, walk[n - 1])
    IN  walk

LEMMA ListsWithin ==
    ASSUME NEW X, NEW Y, X \subseteq Y, NEW q, Lists(q, X)
    PROVE  q \in Seq(Y) /\ Len(q) \in Nat
<1>1. q \in [1 .. Len(q) -> X] /\ Len(q) \in Nat
  BY DEF Lists
<1>2. q \in [1 .. Len(q) -> Y]
  BY <1>1
<1>3. QED
  BY <1>1, <1>2

LEMMA StartFollows ==
    ASSUME NEW adjacent, NEW start, NEW until, Searchable(adjacent, start, until),
           NEW b \in QueryBounds
    PROVE  /\ AtStart \in WalkStates(adjacent, start, until, b)
           /\ Followed(adjacent, start, until, b, AtStart, {})
<1>1. Kids(adjacent, start, b, {}) = {} /\ Seen(adjacent, start, b, {}) = {}
  BY DEF Kids, Seen
<1>2. Open(adjacent, start, until, b, {}) = {<<>>} /\ Hits(adjacent, start, until, b, {}) = {}
  BY <1>1 DEF Open, Hits
<1>3. /\ AtStart.queue = << <<>> >> /\ AtStart.paths = <<>>
      /\ AtStart.expansions = 0 /\ AtStart.refused = FALSE
  BY DEF AtStart
<1>4. Lists(<< <<>> >>, {<<>>} \ {})
  <2>1. PICK x : x = <<>>
    OBVIOUS
  <2>2. /\ <<x>> \in Seq({x}) /\ Len(<<x>>) = 1 /\ <<x>>[1] = x
        /\ 1 .. Len(<<x>>) = {1}
    OBVIOUS
  <2>3. Lists(<<x>>, {x})
    BY <2>2 DEF Lists
  <2>4. {x} \ {} = {x}
    OBVIOUS
  <2>5. QED
    BY <2>1, <2>3, <2>4
<1>5. Lists(<<>>, {})
  BY DEF Lists
<1>6. b.expansions \in Nat /\ b.results \in Nat /\ Len(<<>>) = 0
  BY DEF QueryBounds
<1>7. Cardinality({}) = 0
  BY FS_EmptySet
<1>8. Followed(adjacent, start, until, b, AtStart, {})
  <2>1. AtStart.refused = (AtStart.expansions > b.expansions \/ Len(AtStart.paths) > b.results)
    <3>1. ~(0 > b.expansions) /\ ~(0 > b.results)
      BY <1>6
    <3>2. ~(AtStart.expansions > b.expansions \/ Len(AtStart.paths) > b.results)
      BY <1>3, <1>6, <3>1
    <3>3. QED
      BY ONLY <1>3, <3>2
  <2>2. {} \subseteq Inner(adjacent, start, until, b)
        /\ {} \subseteq Open(adjacent, start, until, b, {})
    OBVIOUS
  <2>3. QED
    BY <1>1, <1>2, <1>3, <1>4, <1>5, <1>7, <2>1, <2>2 DEF Followed
<1>9. /\ <<>> \in Seq(StepsOf(adjacent)) /\ <<>> \in Seq(Seq(StepsOf(adjacent)))
      /\ << <<>> >> \in Seq(Seq(StepsOf(adjacent)))
  OBVIOUS
<1>10. AtStart \in [refused    : BOOLEAN,
                    expansions : Nat,
                    paths      : Seq(Seq(StepsOf(adjacent))),
                    queue      : Seq(Seq(StepsOf(adjacent)))]
  BY <1>9 DEF AtStart
<1>11. QED
  BY <1>8, <1>10 DEF WalkStates

LEMMA AdvanceState ==
    ASSUME NEW adjacent, NEW start, NEW until, Searchable(adjacent, start, until),
           NEW b \in QueryBounds, NEW s \in WalkStates(adjacent, start, until, b)
    PROVE  Advance(adjacent, start, until, b, s) \in WalkStates(adjacent, start, until, b)
<1>1. CASE s.refused \/ s.queue = <<>>
  BY <1>1 DEF Advance
<1>2. CASE ~s.refused /\ s.queue # <<>>
  <2> DEFINE z == Follow(adjacent, start, until, b, s)
             SS == Seq(StepsOf(adjacent))
  <2>1. PICK V : Followed(adjacent, start, until, b, s, V)
    BY DEF WalkStates
  <2>2. PICK W : Followed(adjacent, start, until, b, z, W)
    BY <1>2, <2>1, FollowKeeps
  <2>3. z = [refused |-> z.refused, expansions |-> z.expansions,
             paths |-> z.paths, queue |-> z.queue]
    BY DEF Follow
  <2> HIDE DEF z
  <2>4. W \in SUBSET Inner(adjacent, start, until, b)
        /\ Lists(z.queue, Open(adjacent, start, until, b, W) \ W)
        /\ Lists(z.paths, Hits(adjacent, start, until, b, W))
        /\ z.expansions = Cardinality(Seen(adjacent, start, b, W))
        /\ z.refused = (z.expansions > b.expansions \/ Len(z.paths) > b.results)
    BY <2>2 DEF Followed
  <2>5. Kids(adjacent, start, b, W) \subseteq SS /\ <<>> \in SS
    <3>1. b.depth \in Nat
      BY DEF QueryBounds
    <3>2. QED
      BY <2>4, <3>1, KidsKnown, PathFacts
  <2>6. Open(adjacent, start, until, b, W) \ W \subseteq SS
        /\ Hits(adjacent, start, until, b, W) \subseteq SS
    BY <2>5 DEF Open, Hits
  <2>7. z.queue \in Seq(SS) /\ z.paths \in Seq(SS)
    BY <2>4, <2>6, ListsWithin
  <2>8. z.expansions \in Nat
    BY <2>4, SeenFinite, FS_CardinalityType
  <2>9. z.refused \in BOOLEAN
    BY <2>4
  <2>10. z \in [refused : BOOLEAN, expansions : Nat, paths : Seq(SS), queue : Seq(SS)]
    <3> HIDE DEF SS
    <3>1. QED
      BY <2>3, <2>7, <2>8, <2>9
  <2>11. z \in WalkStates(adjacent, start, until, b)
    BY <2>2, <2>10 DEF WalkStates
  <2>12. QED
    BY <1>2, <2>11 DEF Advance, z
<1>3. QED
  BY <1>1, <1>2

LEMMA WalkSteps ==
    ASSUME NEW adjacent, NEW start, NEW until, Searchable(adjacent, start, until),
           NEW b \in QueryBounds
    PROVE  /\ WalkOf(adjacent, start, until, b)[0] = AtStart
           /\ \A n \in Nat :
                /\ WalkOf(adjacent, start, until, b)[n] \in WalkStates(adjacent, start, until, b)
                /\ WalkOf(adjacent, start, until, b)[n + 1] =
                       Advance(adjacent, start, until, b, WalkOf(adjacent, start, until, b)[n])
<1> DEFINE S == WalkStates(adjacent, start, until, b)
           A(s) == Advance(adjacent, start, until, b, s)
           F == [s \in S |-> A(s)]
           a == AtStart
           Def(f) == [n \in Nat |-> IF n = 0 THEN a ELSE A(f[n - 1])]
           walk == CHOOSE f : f = Def(f)
<1>1. WalkOf(adjacent, start, until, b) = walk
  BY DEF WalkOf
<1>2. F \in [S -> S] /\ a \in S /\ \A s \in S : A(s) \in S
  BY AdvanceState, StartFollows
<1> HIDE DEF S, a, A
<1>3. PICK g : IsIteration(g, F, a, S)
  <2> HIDE DEF F
  <2>1. QED
    BY <1>2, IterationExists
<1>4. g \in [Nat -> S] /\ g[0] = a /\ \A n \in Nat : g[n + 1] = A(g[n])
  BY <1>3 DEF IsIteration
<1> HIDE DEF F
<1>5. g = Def(g)
  <2>1. ASSUME NEW n \in Nat, n # 0 PROVE g[n] = A(g[n - 1])
    <3>1. n - 1 \in Nat /\ (n - 1) + 1 = n
      BY <2>1
    <3>2. QED
      BY <1>4, <3>1
  <2>2. QED
    BY <1>4, <2>1
<1>6. walk = Def(walk)
  <2> HIDE DEF Def
  <2>1. QED
    BY <1>5
<1> HIDE DEF walk
<1>7. ASSUME NEW n \in Nat PROVE walk[n] = IF n = 0 THEN a ELSE A(walk[n - 1])
  BY <1>6
<1> HIDE DEF Def
<1>8. walk[0] = a
  BY <1>7
<1>9. ASSUME NEW n \in Nat PROVE walk[n + 1] = A(walk[n])
  <2>1. n + 1 \in Nat /\ n + 1 # 0 /\ (n + 1) - 1 = n
    OBVIOUS
  <2>2. QED
    BY <1>7, <2>1
<1>10. ASSUME NEW n \in Nat PROVE walk[n] \in S
  <2> DEFINE T == {m \in Nat : walk[m] \in S}
  <2>1. 0 \in T /\ T \in SUBSET Nat
    BY <1>2, <1>8
  <2>2. ASSUME NEW m \in T PROVE m + 1 \in T
    BY <1>2, <1>9
  <2>3. T = Nat
    <3> HIDE DEF T
    <3>1. QED
      BY <2>1, <2>2, AllNumbers
  <2>4. QED
    BY <2>3
<1>11. QED
  BY <1>1, <1>8, <1>9, <1>10 DEF S, a, A

LEMMA WalkKeeps ==
    ASSUME NEW adjacent, NEW start, NEW until, Searchable(adjacent, start, until),
           NEW b \in QueryBounds, NEW n \in Nat
    PROVE  LET s == WalkOf(adjacent, start, until, b)[n]
           IN  \E V : /\ Followed(adjacent, start, until, b, s, V)
                      /\ s.refused \/ s.queue = <<>> \/ Cardinality(V) = n
<1> DEFINE w == WalkOf(adjacent, start, until, b)
           Fine(m) == \E V : /\ Followed(adjacent, start, until, b, w[m], V)
                             /\ w[m].refused \/ w[m].queue = <<>> \/ Cardinality(V) = m
           T == {m \in Nat : Fine(m)}
<1>1. w[0] = AtStart /\ \A m \in Nat : w[m + 1] = Advance(adjacent, start, until, b, w[m])
  BY WalkSteps
<1> HIDE DEF w
<1>2. 0 \in T
  <2>1. Followed(adjacent, start, until, b, w[0], {})
    BY <1>1, StartFollows
  <2>2. Cardinality({}) = 0
    BY FS_EmptySet
  <2>3. QED
    BY <2>1, <2>2
<1>3. ASSUME NEW m \in T PROVE m + 1 \in T
  <2>1. m \in Nat /\ m + 1 \in Nat
    OBVIOUS
  <2>2. PICK s : s = w[m]
    OBVIOUS
  <2>3. PICK V : /\ Followed(adjacent, start, until, b, s, V)
                 /\ s.refused \/ s.queue = <<>> \/ Cardinality(V) = m
    BY <2>2
  <2>4. w[m + 1] = Advance(adjacent, start, until, b, s)
    BY <1>1, <2>1, <2>2
  <2>5. CASE s.refused \/ s.queue = <<>>
    <3>1. w[m + 1] = s
      BY <2>4, <2>5 DEF Advance
    <3>2. QED
      BY <2>1, <2>3, <2>5, <3>1
  <2>6. CASE ~s.refused /\ s.queue # <<>>
    <3>1. w[m + 1] = Follow(adjacent, start, until, b, s)
      BY <2>4, <2>6 DEF Advance
    <3>2. PICK p : p = Head(s.queue)
      OBVIOUS
    <3>3. p \notin V /\ Followed(adjacent, start, until, b, w[m + 1], V \cup {p})
      BY <2>3, <2>6, <3>1, <3>2, FollowKeeps
    <3>4. V \in SUBSET Inner(adjacent, start, until, b)
      BY <2>3 DEF Followed
    <3>5. Cardinality(V \cup {p}) = m + 1
      <4>1. IsFiniteSet(V)
        BY <3>4, SeenFinite
      <4>2. Cardinality(V \cup {p}) = Cardinality(V) + 1
        BY <3>3, <4>1, FS_AddElement
      <4>3. QED
        BY <2>3, <2>6, <4>2
    <3>6. QED
      BY <2>1, <3>3, <3>5
  <2>7. QED
    BY <2>5, <2>6
<1>4. T = Nat
  <2>1. T \in SUBSET Nat
    OBVIOUS
  <2> HIDE DEF T
  <2>2. QED
    BY <1>2, <1>3, <2>1, AllNumbers
<1>5. QED
  BY <1>4 DEF w

(***************************************************************************)
(* What a whole search has found and looked at.                            *)
(***************************************************************************)
LEMMA WholeSearch ==
    ASSUME NEW adjacent, NEW start, NEW until, Searchable(adjacent, start, until),
           NEW b \in QueryBounds
    PROVE  /\ Hits(adjacent, start, until, b, Inner(adjacent, start, until, b))
                  = Results(adjacent, start, until, b.depth)
           /\ Seen(adjacent, start, b, Inner(adjacent, start, until, b))
                  = Looks(adjacent, start, until, b.depth)
           /\ IsFiniteSet(Results(adjacent, start, until, b.depth))
           /\ IsFiniteSet(Looks(adjacent, start, until, b.depth))
<1> DEFINE In == Inner(adjacent, start, until, b)
           P == SimplePaths(adjacent, start, until, b.depth)
           Kid(z) == \E p \in P : \E e \in adjacent[EndOf(start, p)] :
                         /\ EndOf(start, p) \notin until
                         /\ e.to \notin On(start, p)
                         /\ z = Append(p, e)
                         /\ Len(p) < b.depth
<1>1. b.depth \in Nat
  BY DEF QueryBounds
<1>2. \A p \in P : p \in Seq(StepsOf(adjacent)) /\ Len(p) \in Nat
  BY <1>1, PathFacts
<1>3. \A p \in P : \A e \in adjacent[EndOf(start, p)] :
          Len(p) < b.depth => e \in Behind(adjacent, start, p, b)
  BY <1>2, BehindKnown
<1>4. \A p \in P : \A e \in Behind(adjacent, start, p, b) :
          Len(p) < b.depth /\ e \in adjacent[EndOf(start, p)]
  BY <1>2, BehindKnown
<1>5. ASSUME NEW z \in P \ {<<>>} PROVE z \in Kids(adjacent, start, b, In)
  <2>1. Kid(z)
    BY <1>1, PathCameFrom
  <2>2. PICK p \in P : \E e \in adjacent[EndOf(start, p)] :
                         /\ EndOf(start, p) \notin until
                         /\ e.to \notin On(start, p)
                         /\ z = Append(p, e)
                         /\ Len(p) < b.depth
    BY <2>1
  <2>3. PICK e \in adjacent[EndOf(start, p)] :
                         /\ EndOf(start, p) \notin until
                         /\ e.to \notin On(start, p)
                         /\ z = Append(p, e)
                         /\ Len(p) < b.depth
    BY <2>2
  <2>4. p \in In /\ e \in Fresh(adjacent, start, p, b)
    <3> HIDE DEF P
    <3>1. QED
      BY <1>3, <2>3 DEF Inner, Fresh, P
  <2> HIDE DEF P, In
  <2>5. QED
    BY <2>3, <2>4 DEF Kids
<1>6. Kids(adjacent, start, b, In) \subseteq P \ {<<>>}
  BY KidsKnown
<1>7. Hits(adjacent, start, until, b, In) = Results(adjacent, start, until, b.depth)
  <2>1. Kids(adjacent, start, b, In) = P \ {<<>>}
    <3> HIDE DEF P, In
    <3>1. QED
      BY <1>5, <1>6
  <2>2. QED
    BY <2>1 DEF Hits, Results
<1>8. Seen(adjacent, start, b, In) = Looks(adjacent, start, until, b.depth)
  <2>1. Looks(adjacent, start, until, b.depth) =
            UNION {{<<p, step>> : step \in adjacent[EndOf(start, p)]} :
                      p \in {q \in In : Len(q) < b.depth}}
    BY DEF Looks, Inner
  <2>2. \A p \in In : p \in P
    BY DEF Inner
  <2> HIDE DEF P, In
  <2>3. ASSUME NEW x \in Seen(adjacent, start, b, In)
        PROVE  x \in Looks(adjacent, start, until, b.depth)
    <3>1. PICK p \in In : \E e \in Behind(adjacent, start, p, b) : x = <<p, e>>
      BY DEF Seen
    <3>2. QED
      BY <1>4, <2>1, <2>2, <3>1
  <2>4. ASSUME NEW x \in Looks(adjacent, start, until, b.depth)
        PROVE  x \in Seen(adjacent, start, b, In)
    <3>1. PICK p \in In : Len(p) < b.depth /\ \E e \in adjacent[EndOf(start, p)] : x = <<p, e>>
      BY <2>1
    <3>2. QED
      BY <1>3, <2>2, <3>1 DEF Seen
  <2>5. QED
    BY <2>3, <2>4
<1>9. IsFiniteSet(Results(adjacent, start, until, b.depth))
  <2>1. IsFiniteSet(P) /\ Results(adjacent, start, until, b.depth) \in SUBSET P
    BY <1>1, PathFacts DEF Results
  <2>2. QED
    BY <2>1, FS_Subset
<1>10. IsFiniteSet(Looks(adjacent, start, until, b.depth))
  BY <1>8, SeenFinite
<1>11. QED
  BY <1>7, <1>8, <1>9, <1>10

LEMMA PartSearch ==
    ASSUME NEW adjacent, NEW start, NEW until, NEW b, NEW V,
           NEW W, V \subseteq W
    PROVE  /\ Hits(adjacent, start, until, b, V) \subseteq Hits(adjacent, start, until, b, W)
           /\ Seen(adjacent, start, b, V) \subseteq Seen(adjacent, start, b, W)
BY DEF Hits, Kids, Seen

(***************************************************************************)
(* A search that still has a path to follow has looked at as many steps as *)
(* it has followed paths.                                                  *)
(***************************************************************************)
LEMMA OpenBehindSeen ==
    ASSUME NEW adjacent, NEW start, NEW until, Searchable(adjacent, start, until),
           NEW b \in QueryBounds, NEW s, NEW V,
           Followed(adjacent, start, until, b, s, V), s.queue # <<>>
    PROVE  Cardinality(V) <= Cardinality(Seen(adjacent, start, b, V))
<1> DEFINE A == Seen(adjacent, start, b, V)
           X == {Append(x[1], x[2]) : x \in A}
           f == [x \in A |-> Append(x[1], x[2])]
           O == Open(adjacent, start, until, b, V)
<1>1. V \in SUBSET Inner(adjacent, start, until, b) /\ V \subseteq O /\ Lists(s.queue, O \ V)
  BY DEF Followed
<1>2. IsFiniteSet(V) /\ IsFiniteSet(A)
  BY <1>1, SeenFinite
<1>3. PICK p : p = Head(s.queue)
  OBVIOUS
<1>4. p \in O \ V
  <2> HIDE DEF O
  <2>1. QED
    BY <1>1, <1>3, ListsRest
<1>5. f \in Surjection(A, X)
  <2> HIDE DEF A
  <2>1. QED
    BY DEF Surjection
<1>6. IsFiniteSet(X) /\ Cardinality(X) <= Cardinality(A)
  <2> HIDE DEF A, X, f
  <2>1. QED
    BY <1>2, <1>5, FS_Surjection
<1>7. Kids(adjacent, start, b, V) \subseteq X
  <2>1. ASSUME NEW k \in Kids(adjacent, start, b, V) PROVE k \in X
    <3>1. PICK v \in V : \E e \in Fresh(adjacent, start, v, b) : k = Append(v, e)
      BY DEF Kids
    <3>2. PICK e \in Fresh(adjacent, start, v, b) : k = Append(v, e)
      BY <3>1
    <3>3. <<v, e>> \in A
      BY DEF Seen, Fresh
    <3>4. <<v, e>>[1] = v /\ <<v, e>>[2] = e
      OBVIOUS
    <3> HIDE DEF A
    <3>5. QED
      BY <3>2, <3>3, <3>4
  <2>2. QED
    BY <2>1
<1>8. V \cup {p} \in SUBSET (X \cup {<<>>})
  BY <1>1, <1>4, <1>7 DEF Open
<1> HIDE DEF A, X, f, O
<1>9. Cardinality(V) \in Nat /\ Cardinality(A) \in Nat /\ Cardinality(X) \in Nat
  BY <1>2, <1>6, FS_CardinalityType
<1>10. IsFiniteSet(X \cup {<<>>}) /\ Cardinality(X \cup {<<>>}) \in Nat
       /\ Cardinality(X \cup {<<>>}) <= Cardinality(X) + 1
  <2>1. /\ IsFiniteSet(X \cup {<<>>})
        /\ Cardinality(X \cup {<<>>}) =
               IF <<>> \in X THEN Cardinality(X) ELSE Cardinality(X) + 1
    BY <1>6, FS_AddElement
  <2>2. QED
    BY <1>9, <2>1
<1>11. Cardinality(V \cup {p}) = Cardinality(V) + 1
  BY <1>2, <1>4, FS_AddElement
<1>12. Cardinality(V \cup {p}) <= Cardinality(X \cup {<<>>})
  BY <1>8, <1>10, FS_Subset
<1>13. QED
  BY <1>6, <1>9, <1>10, <1>11, <1>12 DEF A

(***************************************************************************)
(* With nothing left in the queue every path has been followed.            *)
(***************************************************************************)
LEMMA AllFollowed ==
    ASSUME NEW adjacent, NEW start, NEW until, Searchable(adjacent, start, until),
           NEW b \in QueryBounds, NEW s, NEW V,
           Followed(adjacent, start, until, b, s, V), s.queue = <<>>
    PROVE  V = Inner(adjacent, start, until, b)
<1> DEFINE In == Inner(adjacent, start, until, b)
           O == Open(adjacent, start, until, b, V)
           N == {n \in Nat : \A p \in In : Len(p) <= n => p \in V}
<1>1. V \in SUBSET In /\ V \subseteq O /\ Lists(<<>>, O \ V)
  BY DEF Followed
<1>2. O \subseteq V
  <2> HIDE DEF O
  <2>1. ASSUME NEW x \in O \ V PROVE FALSE
    <3>1. PICK n \in 1 .. Len(<<>>) : <<>>[n] = x
      BY <1>1 DEF Lists
    <3>2. QED
      BY <3>1
  <2>2. QED
    BY <2>1
<1>3. b.depth \in Nat
  BY DEF QueryBounds
<1>4. \A p \in In : /\ p \in SimplePaths(adjacent, start, until, b.depth)
                    /\ EndOf(start, p) \notin until
                    /\ p \in Seq(StepsOf(adjacent)) /\ Len(p) \in Nat
  BY <1>3, PathFacts DEF Inner
<1>5. <<>> \in V
  BY <1>2 DEF Open
<1>6. 0 \in N
  <2>1. ASSUME NEW p \in In, Len(p) <= 0 PROVE p = <<>>
    <3>1. p \in Seq(StepsOf(adjacent)) /\ Len(p) = 0
      BY <1>4, <2>1
    <3>2. QED
      BY <3>1, EmptySeq
  <2> HIDE DEF In
  <2>2. QED
    BY <1>5, <2>1
<1>7. ASSUME NEW n \in N PROVE n + 1 \in N
  <2>1. n \in Nat /\ n + 1 \in Nat
    OBVIOUS
  <2>2. ASSUME NEW z \in In, Len(z) <= n + 1, z # <<>>
        PROVE  z \in V
    <3>1. PICK p \in SimplePaths(adjacent, start, until, b.depth) :
              \E e \in adjacent[EndOf(start, p)] :
                   /\ EndOf(start, p) \notin until
                   /\ e.to \notin On(start, p)
                   /\ z = Append(p, e)
                   /\ Len(p) < b.depth /\ Len(z) = Len(p) + 1
      BY <1>3, <1>4, <2>2, PathCameFrom
    <3>2. PICK e \in adjacent[EndOf(start, p)] :
                   /\ EndOf(start, p) \notin until
                   /\ e.to \notin On(start, p)
                   /\ z = Append(p, e)
                   /\ Len(p) < b.depth /\ Len(z) = Len(p) + 1
      BY <3>1
    <3>3. p \in In
      BY <3>2 DEF Inner
    <3>4. p \in Seq(StepsOf(adjacent)) /\ Len(p) \in Nat /\ Len(p) <= n
      BY <1>4, <2>1, <2>2, <3>2, <3>3
    <3>5. p \in V
      BY <3>3, <3>4
    <3>6. e \in Fresh(adjacent, start, p, b)
      BY <3>2, <3>4, BehindKnown DEF Fresh
    <3>7. z \in Kids(adjacent, start, b, V)
      BY <3>2, <3>5, <3>6 DEF Kids
    <3>8. z \in O
      BY <1>4, <3>7 DEF Open
    <3>9. QED
      BY <1>2, <3>8
  <2> HIDE DEF In
  <2>3. QED
    BY <1>5, <2>1, <2>2
<1>8. N = Nat
  <2>1. N \in SUBSET Nat
    OBVIOUS
  <2> HIDE DEF N
  <2>2. QED
    BY <1>6, <1>7, <2>1, AllNumbers
<1>9. \A p \in In : p \in V
  <2>1. ASSUME NEW p \in In PROVE p \in V
    <3>1. Len(p) \in N /\ Len(p) <= Len(p)
      BY <1>4, <1>8
    <3> HIDE DEF In
    <3>2. QED
      BY <3>1
  <2>2. QED
    BY <2>1
<1>10. QED
  BY <1>1, <1>9

(***************************************************************************)
(* A search finds every result of up to its depth once, or is refused for  *)
(* good reason.                                                            *)
(***************************************************************************)
THEOREM SearchAnswers ==
    ASSUME NEW adjacent, NEW start, NEW until, Searchable(adjacent, start, until),
           NEW b \in QueryBounds
    PROVE  LET reply   == Search(adjacent, start, until, b)
               results == Results(adjacent, start, until, b.depth)
           IN  /\ reply.refused <=>
                      \/ Cardinality(results) > b.results
                      \/ Cardinality(Looks(adjacent, start, until, b.depth)) > b.expansions
               /\ ~reply.refused => Lists(reply.paths, results)
<1> DEFINE reply == Search(adjacent, start, until, b)
           results == Results(adjacent, start, until, b.depth)
           looks == Looks(adjacent, start, until, b.depth)
           N == b.expansions + 1
           In == Inner(adjacent, start, until, b)
<1>1. b.expansions \in Nat /\ b.results \in Nat /\ N \in Nat
  BY DEF QueryBounds
<1>2. PICK s : s = WalkOf(adjacent, start, until, b)[N]
  OBVIOUS
<1>3. reply = IF s.refused THEN [refused |-> TRUE] ELSE [refused |-> FALSE, paths |-> s.paths]
  BY <1>2 DEF Search, WalkOf
<1> HIDE DEF reply
<1>4. PICK V : /\ Followed(adjacent, start, until, b, s, V)
               /\ s.refused \/ s.queue = <<>> \/ Cardinality(V) = N
  BY <1>1, <1>2, WalkKeeps
<1>5. /\ V \in SUBSET In
      /\ Lists(s.paths, Hits(adjacent, start, until, b, V))
      /\ s.expansions = Cardinality(Seen(adjacent, start, b, V))
      /\ s.refused = (s.expansions > b.expansions \/ Len(s.paths) > b.results)
  BY <1>4 DEF Followed
<1>6. /\ Hits(adjacent, start, until, b, In) = results
      /\ Seen(adjacent, start, b, In) = looks
      /\ IsFiniteSet(results) /\ IsFiniteSet(looks)
  BY WholeSearch
<1>7. /\ Len(s.paths) = Cardinality(Hits(adjacent, start, until, b, V))
      /\ IsFiniteSet(Hits(adjacent, start, until, b, V))
  BY <1>5, ListsSize
<1>8. /\ Hits(adjacent, start, until, b, V) \in SUBSET results
      /\ Seen(adjacent, start, b, V) \in SUBSET looks
  BY <1>5, <1>6, PartSearch
<1> HIDE DEF results, looks, In
<1>9. /\ Len(s.paths) <= Cardinality(results) /\ Len(s.paths) \in Nat
      /\ s.expansions <= Cardinality(looks) /\ s.expansions \in Nat
      /\ Cardinality(results) \in Nat /\ Cardinality(looks) \in Nat
  BY <1>5, <1>6, <1>7, <1>8, FS_Subset, FS_CardinalityType
<1>10. CASE s.refused
  <2>1. Cardinality(results) > b.results \/ Cardinality(looks) > b.expansions
    <3>1. s.expansions > b.expansions \/ Len(s.paths) > b.results
      BY ONLY <1>5, <1>10
    <3>2. QED
      BY <1>1, <1>9, <3>1
  <2>2. reply.refused
    BY <1>3, <1>10
  <2>3. QED
    BY <2>1, <2>2 DEF reply, results, looks
<1>11. CASE ~s.refused
  <2>1. ~(s.expansions > b.expansions) /\ ~(Len(s.paths) > b.results)
    BY <1>5, <1>11
  <2>2. s.queue = <<>>
    <3>1. SUFFICES ASSUME s.queue # <<>> PROVE FALSE
      OBVIOUS
    <3>2. Cardinality(V) = N
      BY <1>4, <1>11, <3>1
    <3>3. N <= s.expansions
      BY <1>4, <1>5, <3>1, <3>2, OpenBehindSeen
    <3>4. QED
      BY <1>1, <1>9, <2>1, <3>3
  <2>3. V = In
    BY <1>4, <2>2, AllFollowed DEF In
  <2>4. Lists(s.paths, results) /\ Len(s.paths) = Cardinality(results)
        /\ s.expansions = Cardinality(looks)
    BY <1>5, <1>6, <1>7, <2>3
  <2>5. ~(Cardinality(results) > b.results \/ Cardinality(looks) > b.expansions)
    BY <2>1, <2>4
  <2>6. ~reply.refused /\ reply.paths = s.paths
    BY <1>3, <1>11
  <2>7. QED
    BY <2>4, <2>5, <2>6 DEF reply, results, looks
<1>12. QED
  BY <1>10, <1>11

=============================================================================
