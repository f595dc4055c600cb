------------------------- MODULE RepositoryProofs -------------------------
(***************************************************************************)
(* The repository keeps its ledger one that could have been written by one *)
(* call after the other, for every set of clients, every menu of calls and *)
(* every interleaving of them.                                             *)
(*                                                                         *)
(* The inductive invariant says of every client what the event it is about *)
(* to append was built on: the prefix of the ledger it read, which no      *)
(* later append changes.  If the head is still there at the append, that   *)
(* prefix is the ledger, and the event fits it.                            *)
(***************************************************************************)
EXTENDS ExplainProperties, HistoryProofs

Places  == {"idle", "append", "fb_loop", "fb_create", "fb_append_relation",
            "fb_qualify", "fb_append_state", "fb_recheck", "fb_confirm"}
Answers == {"none", "applied", "gave_up", "ineligible", "unknown"}
Loops   == [tries : Nat, begun : Nat, own : Nat, faults : Nat]

Building == {"append", "fb_append_relation", "fb_append_state"}

(***************************************************************************)
(* The event e that a client at l built on p for its call k.               *)
(***************************************************************************)
BuiltOn(p, l, k, e) ==
    /\ l \in Building => CasesCompatible(p)
    /\ l = "append" => /\ k.op \in TypedOperations
                       /\ Accepts(p, States(p), k)
                       /\ e = EventOf(p, States(p), k)
    /\ l \in {"fb_append_relation", "fb_append_state"} => IsOfType(p, k.case, "FeedbackCase")
    /\ l = "fb_append_relation" => /\ ~HasRelation(p, FeedbackRelationId[k.case])
                                   /\ e = FeedbackRelation(p, k.case)
    /\ l = "fb_append_state" =>
           /\ SourcesUsable(p, States(p), k.case)
           /\ MayActivate(p, "invalidated", FeedbackRelationId[k.case])
           /\ e = [ev |-> "invalidated", relation |-> FeedbackRelationId[k.case]]
    /\ l \notin Building => e = NoEvent

(***************************************************************************)
(* Where apply_feedback stands on ledger h: it appends the relation once   *)
(* and is done when its qualification is there.                            *)
(***************************************************************************)
LoopOn(h, l, k, lp) ==
    /\ lp.tries <= 4
    /\ l \in {"fb_create", "fb_qualify"} => IsOfType(h, k.case, "FeedbackCase")
    /\ l # "fb_confirm" => \/ lp.own = 0
                           \/ lp.own = 1 /\ HasRelation(h, FeedbackRelationId[k.case])
    /\ l = "fb_confirm" => lp.own \in 0 .. 2 /\ ApplicationState(h, k.case) = "applied"

ClientOn(h, l, k, e, n, lp) ==
    n \in 0 .. Len(h) /\ BuiltOn(Prefix(h, n), l, k, e) /\ LoopOn(h, l, k, lp)

Shape == /\ pc \in [Client -> Places]
         /\ call \in [Client -> Menu \cup {NoCall}]
         /\ DOMAIN pending = Client
         /\ at \in [Client -> Nat]
         /\ loop \in [Client -> Loops]
         /\ answer \in [Client -> Answers]
         /\ faults \in 0 .. MaxFaults
         /\ scenario \in DOMAIN Scenario

IInv == /\ Shape
        /\ Written(log)
        /\ \A c \in Client : ClientOn(log, pc[c], call[c], pending[c], at[c], loop[c])

-----------------------------------------------------------------------------
(***************************************************************************)
(* What was built on a prefix stays built on it when the ledger grows.     *)
(***************************************************************************)
LEMMA ClientStays ==
    ASSUME NEW h, NEW H, Grows(h, H), Unique(H), NEW l, NEW k, NEW e, NEW n, NEW lp,
           ClientOn(h, l, k, e, n, lp)
    PROVE  ClientOn(H, l, k, e, n, lp)
<1>1. n \in 0 .. Len(h) /\ BuiltOn(Prefix(h, n), l, k, e) /\ LoopOn(h, l, k, lp)
  BY DEF ClientOn
<1>2. Len(h) \in Nat /\ Len(H) \in Nat /\ Len(h) <= Len(H)
  BY LogFacts DEF Grows
<1>3. n \in 0 .. Len(H)
  BY <1>1, <1>2
<1>4. Prefix(H, n) = Prefix(h, n)
  BY <1>1, PrefixOfGrown
<1>5. IsOfType(h, k.case, "FeedbackCase") => IsOfType(H, k.case, "FeedbackCase")
  BY RecordStays DEF IsOfType
<1>6. HasRelation(h, FeedbackRelationId[k.case]) => HasRelation(H, FeedbackRelationId[k.case])
  BY RelationStays
<1>7. ApplicationState(h, k.case) = "applied" => ApplicationState(H, k.case) = "applied"
  BY AppliedStays
<1>8. LoopOn(H, l, k, lp)
  BY <1>1, <1>5, <1>6, <1>7 DEF LoopOn
<1> QED  BY <1>1, <1>3, <1>4, <1>8 DEF ClientOn

LEMMA IdleOn ==
    ASSUME NEW h, IsLog(h), NEW k
    PROVE  ClientOn(h, "idle", k, NoEvent, 0, NewLoop)
<1>1. 0 \in 0 .. Len(h)
  BY LogFacts
<1>2. BuiltOn(Prefix(h, 0), "idle", k, NoEvent)
  BY DEF BuiltOn, Building
<1>3. NewLoop.tries = 0 /\ NewLoop.own = 0
  BY DEF NewLoop
<1>4. LoopOn(h, "idle", k, NewLoop)
  BY <1>3 DEF LoopOn
<1> QED  BY <1>1, <1>2, <1>4 DEF ClientOn

(***************************************************************************)
(* One client moves; the ledger keeps or gains an event that fits.         *)
(***************************************************************************)
Growing == log' = log \/ \E e : Fits(log, e) /\ log' = Append(log, e)

Moves(c) ==
    /\ Shape'
    /\ \A d \in Client \ {c} : /\ pc'[d] = pc[d] /\ call'[d] = call[d]
                               /\ pending'[d] = pending[d] /\ at'[d] = at[d]
                               /\ loop'[d] = loop[d]
    /\ Growing
    /\ ClientOn(log', pc'[c], call'[c], pending'[c], at'[c], loop'[c])

LEMMA GrowingGrows ==
    ASSUME Written(log), Growing
    PROVE  Written(log') /\ Grows(log, log') /\ Unique(log')
<1>1. IsLog(log)
  BY DEF Written
<1>2. CASE log' = log
  <2>1. Grows(log, log)
    BY <1>1, LogFacts DEF Grows
  <2> QED  BY <1>2, <2>1, WrittenUnique
<1>3. CASE \E e : Fits(log, e) /\ log' = Append(log, e)
  <2>1. PICK e : Fits(log, e) /\ log' = Append(log, e)
    BY <1>3
  <2>2. Written(Append(log, e)) /\ Grows(log, Append(log, e))
    BY <1>1, <2>1, WrittenGrows, AppendGrows
  <2>3. Unique(Append(log, e))
    BY <2>2, WrittenUnique
  <2> QED  BY <2>1, <2>2, <2>3
<1> QED  BY <1>2, <1>3 DEF Growing

LEMMA MovesKeeps ==
    ASSUME IInv, NEW c \in Client, Moves(c)
    PROVE  IInv'
<1>1. Written(log') /\ Grows(log, log') /\ Unique(log')
  BY GrowingGrows DEF IInv, Moves
<1>2. ASSUME NEW d \in Client
      PROVE  ClientOn(log', pc'[d], call'[d], pending'[d], at'[d], loop'[d])
  <2>1. CASE d = c
    BY <2>1 DEF Moves
  <2>2. CASE d # c
    <3>1. ClientOn(log, pc[d], call[d], pending[d], at[d], loop[d])
      BY DEF IInv
    <3>2. ClientOn(log', pc[d], call[d], pending[d], at[d], loop[d])
      BY <1>1, <3>1, ClientStays
    <3>3. /\ pc'[d] = pc[d] /\ call'[d] = call[d] /\ pending'[d] = pending[d]
          /\ at'[d] = at[d] /\ loop'[d] = loop[d]
      BY <2>2 DEF Moves
    <3> QED  BY <3>2, <3>3
  <2> QED  BY <2>1, <2>2
<1>3. Shape'
  BY DEF Moves
<1> QED  BY <1>1, <1>2, <1>3 DEF IInv

-----------------------------------------------------------------------------
(***************************************************************************)
(* A client that leaves its call moves, whatever the call did to the       *)
(* ledger.                                                                 *)
(***************************************************************************)
LEMMA AnswerMoves ==
    ASSUME IInv, NEW c \in Client, NEW a \in Answers, Answer(c, a), Growing,
           faults' \in 0 .. MaxFaults, scenario' = scenario
    PROVE  Moves(c)
<1>1. Shape /\ Written(log)
  BY DEF IInv
<1>2. /\ pc' = [pc EXCEPT ![c] = "idle"]
      /\ call'[c] \in {call[c], NoCall}
      /\ \E k \in {call[c], NoCall} : call' = [call EXCEPT ![c] = k]
      /\ pending' = [pending EXCEPT ![c] = NoEvent]
      /\ at' = [at EXCEPT ![c] = 0]
      /\ loop' = [loop EXCEPT ![c] = NewLoop]
      /\ answer' = [answer EXCEPT ![c] = a]
  BY <1>1 DEF Answer, Shape
<1>3. NewLoop \in Loops
  BY DEF NewLoop, Loops
<1>4. /\ pc'[c] = "idle" /\ pending'[c] = NoEvent /\ at'[c] = 0 /\ loop'[c] = NewLoop
  BY <1>1, <1>2 DEF Shape
<1>5. IsLog(log')
  BY <1>1, GrowingGrows DEF Written
<1>6. ClientOn(log', pc'[c], call'[c], pending'[c], at'[c], loop'[c])
  BY <1>4, <1>5, IdleOn
<1>7. Shape'
  <2>1. pc' \in [Client -> Places] /\ DOMAIN pending' = Client /\ at' \in [Client -> Nat]
        /\ loop' \in [Client -> Loops] /\ answer' \in [Client -> Answers]
    BY <1>1, <1>2, <1>3 DEF Shape, Places
  <2>2. Menu' = Menu /\ MaxFaults' = MaxFaults
    BY DEF Menu, MaxFaults
  <2>3. call' \in [Client -> Menu \cup {NoCall}]
    BY <1>1, <1>2 DEF Shape
  <2> QED  BY <1>1, <2>1, <2>2, <2>3 DEF Shape
<1>8. \A d \in Client \ {c} : /\ pc'[d] = pc[d] /\ call'[d] = call[d]
                              /\ pending'[d] = pending[d] /\ at'[d] = at[d]
                              /\ loop'[d] = loop[d]
  BY <1>1, <1>2 DEF Shape
<1> QED  BY <1>6, <1>7, <1>8 DEF Moves

(***************************************************************************)
(* The event a client built, if the head is still where it read it.        *)
(***************************************************************************)
LEMMA PendingFits ==
    ASSUME IInv, NEW c \in Client, pc[c] \in Building, HeadIsAt(c)
    PROVE  /\ BuiltOn(log, pc[c], call[c], pending[c])
           /\ CasesCompatible(log)
           /\ Fits(log, pending[c])
<1> DEFINE k == call[c]
           e == pending[c]
           l == pc[c]
<1>1. Written(log) /\ IsLog(log) /\ ClientOn(log, l, k, e, at[c], loop[c])
  BY DEF IInv, Written
<1>2. Prefix(log, at[c]) = log
  BY <1>1, PrefixFull DEF HeadIsAt
<1>3. BuiltOn(log, l, k, e)
  BY <1>1, <1>2 DEF ClientOn
<1>4. CasesCompatible(log)
  BY <1>3 DEF BuiltOn
<1>5. CASE l = "append"
  <2>1. /\ k.op \in TypedOperations /\ Accepts(log, States(log), k)
        /\ e = EventOf(log, States(log), k)
    BY <1>3, <1>5 DEF BuiltOn
  <2> HIDE DEF k, e
  <2> QED  BY <1>3, <1>4, <2>1, AcceptedFits DEF k, e
<1>6. CASE l = "fb_append_relation"
  <2>1. /\ IsOfType(log, k.case, "FeedbackCase")
        /\ ~HasRelation(log, FeedbackRelationId[k.case])
        /\ e = FeedbackRelation(log, k.case)
    BY <1>3, <1>6 DEF BuiltOn
  <2> HIDE DEF k, e
  <2> QED  BY <1>1, <1>3, <1>4, <2>1, ProposalFits DEF k, e
<1>7. CASE l = "fb_append_state"
  <2>1. /\ IsOfType(log, k.case, "FeedbackCase")
        /\ SourcesUsable(log, States(log), k.case)
        /\ MayActivate(log, "invalidated", FeedbackRelationId[k.case])
        /\ e = [ev |-> "invalidated", relation |-> FeedbackRelationId[k.case]]
    BY <1>3, <1>7 DEF BuiltOn
  <2> HIDE DEF k, e
  <2> QED  BY <1>1, <1>3, <1>4, <2>1, QualificationFits DEF k, e
<1> QED  BY <1>5, <1>6, <1>7 DEF Building

(***************************************************************************)
(* A client goes on, with these new values.                                *)
(***************************************************************************)
LEMMA GoesMoves ==
    ASSUME IInv, NEW c \in Client, NEW l \in Places, NEW k \in Menu \cup {NoCall}, NEW e,
           NEW n \in Nat, NEW lp \in Loops,
           pc' = [pc EXCEPT ![c] = l],
           call' = [call EXCEPT ![c] = k],
           pending' \in {pending, [pending EXCEPT ![c] = e]}, pending'[c] = e,
           at' = [at EXCEPT ![c] = n],
           loop' = [loop EXCEPT ![c] = lp],
           answer' \in [Client -> Answers],
           faults' \in 0 .. MaxFaults, scenario' = scenario,
           Growing,
           ClientOn(log', l, k, e, n, lp)
    PROVE  Moves(c)
<1>1. Shape
  BY DEF IInv
<1>2. /\ pc'[c] = l /\ call'[c] = k /\ at'[c] = n /\ loop'[c] = lp
  BY <1>1 DEF Shape
<1>3. \A d \in Client \ {c} : /\ pc'[d] = pc[d] /\ call'[d] = call[d]
                              /\ pending'[d] = pending[d] /\ at'[d] = at[d]
                              /\ loop'[d] = loop[d]
  BY <1>1 DEF Shape
<1>4. Menu' = Menu /\ MaxFaults' = MaxFaults
  BY DEF Menu, MaxFaults
<1>5. /\ pc' \in [Client -> Places] /\ call' \in [Client -> Menu \cup {NoCall}]
      /\ DOMAIN pending' = Client /\ at' \in [Client -> Nat] /\ loop' \in [Client -> Loops]
  BY <1>1 DEF Shape
<1>6. Shape'
  BY <1>1, <1>4, <1>5 DEF Shape
<1> QED  BY <1>2, <1>3, <1>6 DEF Moves

(***************************************************************************)
(* Unless the ledger changes, a client that builds nothing stands on it by *)
(* its loop alone.                                                         *)
(***************************************************************************)
LEMMA NotBuilding ==
    ASSUME NEW h, IsLog(h), NEW l, l \notin Building, NEW k, NEW n \in 0 .. Len(h), NEW lp,
           LoopOn(h, l, k, lp)
    PROVE  ClientOn(h, l, k, NoEvent, n, lp)
<1>1. \A p : BuiltOn(p, l, k, NoEvent)
  BY DEF BuiltOn, Building
<1> QED  BY <1>1 DEF ClientOn

-----------------------------------------------------------------------------
(***************************************************************************)
(* The typed operations.                                                   *)
(***************************************************************************)
LEMMA CallMoves ==
    ASSUME IInv, NEW c \in Client, NEW k \in Menu, Call(c, k)
    PROVE  Moves(c)
<1>1. Shape /\ IsLog(log)
  BY DEF IInv, Written
<1>2. /\ CasesCompatible(log) /\ Accepts(log, States(log), k)
      /\ k.op \notin {"apply_feedback", "raw"}
  BY DEF Call, Readable
<1> DEFINE e == EventOf(log, States(log), k)
<1>3. /\ pending' = [pending EXCEPT ![c] = e]
      /\ at' = [at EXCEPT ![c] = Len(log)]
      /\ pc' = [pc EXCEPT ![c] = "append"]
  BY DEF Call, Build, Goto
<1>4. /\ call' = [call EXCEPT ![c] = k] /\ loop' = [loop EXCEPT ![c] = NewLoop]
      /\ answer' = [answer EXCEPT ![c] = "none"]
      /\ log' = log /\ faults' = faults /\ scenario' = scenario
  BY DEF Call
<1>5. k.op \in TypedOperations
  BY <1>1, <1>2, MenuAssumption DEF Shape, Menu
<1> HIDE DEF e
<1>6. Len(log) \in Nat /\ Len(log) \in 0 .. Len(log) /\ Prefix(log, Len(log)) = log
  BY <1>1, LogFacts, PrefixFull
<1>7. BuiltOn(log, "append", k, e)
  BY <1>2, <1>5 DEF BuiltOn, Building, e
<1>8. LoopOn(log, "append", k, NewLoop)
  BY DEF LoopOn, NewLoop
<1>9. ClientOn(log', "append", k, e, Len(log), NewLoop)
  BY <1>4, <1>6, <1>7, <1>8 DEF ClientOn
<1>10. pending'[c] = e /\ answer' \in [Client -> Answers]
  BY <1>1, <1>3, <1>4 DEF Shape, Answers
<1>11. NewLoop \in Loops /\ "append" \in Places /\ Growing /\ faults' \in 0 .. MaxFaults
  BY <1>1, <1>4 DEF NewLoop, Loops, Places, Growing, Shape
<1> QED  BY <1>3, <1>4, <1>6, <1>9, <1>10, <1>11, GoesMoves

LEMMA AppendMoves ==
    ASSUME IInv, NEW c \in Client, AppendEvent(c)
    PROVE  Moves(c)
<1>1. /\ pc[c] = "append" /\ HeadIsAt(c) /\ log' = Append(log, pending[c])
      /\ Answer(c, "none") /\ faults' = faults /\ scenario' = scenario
  BY DEF AppendEvent, Appendable
<1>2. Fits(log, pending[c])
  BY <1>1, PendingFits DEF Building
<1>3. Growing /\ "none" \in Answers /\ faults' \in 0 .. MaxFaults
  BY <1>1, <1>2 DEF Growing, Answers, IInv, Shape
<1> QED  BY <1>1, <1>3, AnswerMoves

LEMMA RawMoves ==
    ASSUME IInv, NEW c \in Client, NEW k, RawAppend(c, k)
    PROVE  Moves(c)
<1> DEFINE e == [ev |-> "raw", id |-> k.id]
<1>1. /\ log' = Append(log, e)
      /\ UNCHANGED <<pc, call, pending, at, loop, answer, faults, scenario>>
  BY DEF RawAppend
<1>2. Fits(log, e)
  BY DEF Fits
<1>3. Growing
  BY <1>1, <1>2 DEF Growing
<1>4. Grows(log, log') /\ Unique(log')
  BY <1>3, GrowingGrows DEF IInv
<1>5. ClientOn(log, pc[c], call[c], pending[c], at[c], loop[c])
  BY DEF IInv
<1>6. ClientOn(log', pc[c], call[c], pending[c], at[c], loop[c])
  BY <1>4, <1>5, ClientStays
<1>7. Shape'
  BY <1>1 DEF IInv, Shape, Menu, MaxFaults
<1> QED  BY <1>1, <1>3, <1>6, <1>7 DEF Moves

-----------------------------------------------------------------------------
(***************************************************************************)
(* What fails: a read or an append, now and then or as long as there is a  *)
(* journal.  What comes and goes aside from the calls: the journal.        *)
(***************************************************************************)
Fails(c) == DatabaseError(c) \/ JournalError(c)

Aside(c) == RollBack \/ \E k \in Menu : RawCrash(c, k)

LEMMA MoreFaults ==
    ASSUME IInv, faults' = faults \/ (faults < MaxFaults /\ faults' = faults + 1)
    PROVE  faults' \in 0 .. MaxFaults
<1>1. MaxFaults \in Nat /\ faults \in 0 .. MaxFaults
  BY MenuAssumption DEF IInv, Shape, MaxFaults
<1>2. QED
  BY <1>1

LEMMA FailsIs ==
    ASSUME IInv, NEW c, Fails(c)
    PROVE  AccessFails(c) /\ log' = log /\ scenario' = scenario /\ faults' \in 0 .. MaxFaults
<1>1. AccessFails(c) /\ (faults' = faults \/ (faults < MaxFaults /\ faults' = faults + 1))
  BY DEF Fails, DatabaseError, JournalError
<1>2. log' = log /\ scenario' = scenario
  BY <1>1 DEF AccessFails
<1>3. QED
  BY <1>1, <1>2, MoreFaults

LEMMA AsideIs ==
    ASSUME IInv, NEW c, Aside(c)
    PROVE  /\ UNCHANGED <<log, pc, call, pending, at, loop, answer, scenario>>
           /\ faults' \in 0 .. MaxFaults
<1>1. UNCHANGED <<log, pc, call, pending, at, loop, answer, scenario>>
  BY DEF Aside, RollBack, RawCrash
<1>2. faults' = faults \/ (faults < MaxFaults /\ faults' = faults + 1)
  BY DEF Aside, RollBack, RawCrash, LeaveJournal
<1>3. QED
  BY <1>1, <1>2, MoreFaults

LEMMA AsideMoves ==
    ASSUME IInv, NEW c \in Client, Aside(c)
    PROVE  Moves(c)
<1>1. /\ UNCHANGED <<log, pc, call, pending, at, loop, answer, scenario>>
      /\ faults' \in 0 .. MaxFaults
  BY AsideIs
<1>2. ClientOn(log, pc[c], call[c], pending[c], at[c], loop[c])
  BY DEF IInv
<1>3. Shape'
  BY <1>1 DEF IInv, Shape, Menu, MaxFaults
<1>4. QED
  BY <1>1, <1>2, <1>3 DEF Moves, Growing

-----------------------------------------------------------------------------
(***************************************************************************)
(* apply_feedback.                                                         *)
(***************************************************************************)
LEMMA ApplyMoves ==
    ASSUME IInv, NEW c \in Client, NEW k \in Menu, ApplyFeedback(c, k)
    PROVE  Moves(c)
<1> DEFINE lp == [NewLoop EXCEPT !.begun = Len(log)]
<1>1. Shape /\ IsLog(log)
  BY DEF IInv, Written
<1>2. /\ pc[c] = "idle" /\ pc' = [pc EXCEPT ![c] = "fb_loop"]
      /\ call' = [call EXCEPT ![c] = k] /\ loop' = [loop EXCEPT ![c] = lp]
      /\ answer' = [answer EXCEPT ![c] = "none"]
      /\ log' = log /\ pending' = pending /\ at' = at
      /\ faults' = faults /\ scenario' = scenario
  BY DEF ApplyFeedback, Goto
<1>3. lp = [tries |-> 0, begun |-> Len(log), own |-> 0, faults |-> 0]
  BY DEF NewLoop
<1>4. Len(log) \in Nat
  BY <1>1, LogFacts
<1>5. lp \in Loops /\ lp.tries = 0 /\ lp.own = 0
  BY <1>3, <1>4 DEF Loops
<1> HIDE DEF lp
<1>6. at[c] \in 0 .. Len(log) /\ pending[c] = NoEvent
  BY <1>2 DEF IInv, ClientOn, BuiltOn, Building
<1>7. LoopOn(log, "fb_loop", k, lp)
  BY <1>5 DEF LoopOn
<1>8. ClientOn(log', "fb_loop", k, NoEvent, at[c], lp)
  BY <1>1, <1>2, <1>6, <1>7, NotBuilding DEF Building
<1>9. at' = [at EXCEPT ![c] = at[c]] /\ at[c] \in Nat
  BY <1>1, <1>2 DEF Shape
<1>10. answer' \in [Client -> Answers] /\ "fb_loop" \in Places /\ Growing
       /\ faults' \in 0 .. MaxFaults
  BY <1>1, <1>2 DEF Shape, Answers, Places, Growing
<1> QED  BY <1>2, <1>5, <1>6, <1>8, <1>9, <1>10, GoesMoves

(***************************************************************************)
(* The ways out of the loop that append nothing.                           *)
(***************************************************************************)
Leaves(c) == \/ RefuseAppend(c) \/ FbGiveUp(c) \/ FbAlready(c) \/ FbRaise(c)
             \/ FbQualifyRaise(c) \/ FbConfirm(c) \/ Crash(c)

LEMMA LeavesMoves ==
    ASSUME IInv, NEW c \in Client, Leaves(c)
    PROVE  Moves(c)
<1>1. /\ log' = log /\ scenario' = scenario
      /\ faults' = faults \/ (faults < MaxFaults /\ faults' = faults + 1)
  BY DEF Leaves, RefuseAppend, FbGiveUp, FbAlready, FbRaise, FbQualifyRaise, FbConfirm, Crash,
         LeaveJournal
<1>2. \E a \in Answers : Answer(c, a)
  <2>1. CASE FbConfirm(c)
    <3>1. pc[c] = "fb_confirm" /\ Answer(c, ApplicationState(log, Case(c)))
      BY <2>1 DEF FbConfirm, Reads
    <3>2. ApplicationState(log, Case(c)) = "applied"
      BY <3>1 DEF IInv, ClientOn, LoopOn, Case
    <3> QED  BY <3>1, <3>2 DEF Answers
  <2>2. CASE ~FbConfirm(c)
    BY <2>2 DEF Leaves, RefuseAppend, FbGiveUp, FbAlready, FbRaise, FbQualifyRaise, Crash, Answers
  <2> QED  BY <2>1, <2>2
<1>3. Growing /\ faults' \in 0 .. MaxFaults
  BY <1>1, MoreFaults DEF Growing
<1> QED  BY <1>1, <1>2, <1>3, AnswerMoves

(***************************************************************************)
(* The steps of the loop that build nothing.                               *)
(***************************************************************************)
LEMMA WalkMoves ==
    ASSUME IInv, NEW c \in Client, NEW l \in Places \ Building, NEW lp \in Loops,
           pc' = [pc EXCEPT ![c] = l],
           pending' \in {pending, [pending EXCEPT ![c] = NoEvent]}, pending'[c] = NoEvent,
           at' \in {at, [at EXCEPT ![c] = 0]},
           loop' = [loop EXCEPT ![c] = lp],
           log' = log, call' = call, answer' = answer,
           faults' \in 0 .. MaxFaults, scenario' = scenario,
           LoopOn(log, l, call[c], lp)
    PROVE  Moves(c)
<1>1. Shape /\ IsLog(log)
  BY DEF IInv, Written
<1>2. Len(log) \in Nat /\ at[c] \in 0 .. Len(log)
  BY <1>1, LogFacts DEF IInv, ClientOn
<1>3. PICK n \in {at[c], 0} : at' = [at EXCEPT ![c] = n]
  BY <1>1 DEF Shape
<1>4. n \in Nat /\ n \in 0 .. Len(log)
  BY <1>2, <1>3
<1>5. ClientOn(log', l, call[c], NoEvent, n, lp)
  BY <1>1, <1>4, NotBuilding
<1>6. call' = [call EXCEPT ![c] = call[c]] /\ call[c] \in Menu \cup {NoCall}
  BY <1>1 DEF Shape
<1>7. Growing /\ answer' \in [Client -> Answers]
  BY <1>1 DEF Growing, Shape
<1> QED  BY <1>3, <1>4, <1>5, <1>6, <1>7, GoesMoves

LEMMA IterateMoves ==
    ASSUME IInv, NEW c \in Client, FbIterate(c)
    PROVE  Moves(c)
<1> DEFINE lp == [loop[c] EXCEPT !.tries = @ + 1]
<1>1. Shape
  BY DEF IInv
<1>2. /\ pc[c] = "fb_loop" /\ loop[c].tries < 4
      /\ IsOfType(log, call[c].case, "FeedbackCase")
  BY DEF FbIterate, Iterating, Reads, Tries, Applicable, Case
<1>3. PICK l \in {"fb_create", "fb_qualify"} : pc' = [pc EXCEPT ![c] = l]
  BY DEF FbIterate, Goto
<1>4. /\ log' = log /\ call' = call /\ pending' = pending /\ at' = at /\ answer' = answer
      /\ faults' = faults /\ scenario' = scenario
  BY DEF FbIterate
<1>5. loop' = [loop EXCEPT ![c] = lp]
  BY <1>1 DEF FbIterate, Shape
<1>6. /\ loop[c] \in Loops /\ pending[c] = NoEvent /\ LoopOn(log, "fb_loop", call[c], loop[c])
  BY <1>1, <1>2 DEF IInv, Shape, ClientOn, BuiltOn, Building
<1>7. lp \in Loops /\ lp.tries = loop[c].tries + 1 /\ lp.own = loop[c].own
  BY <1>6 DEF Loops
<1> HIDE DEF lp
<1>8. lp.tries <= 4
  BY <1>2, <1>6, <1>7 DEF Loops
<1>9. LoopOn(log, l, call[c], lp)
  BY <1>2, <1>3, <1>6, <1>7, <1>8 DEF LoopOn
<1>10. l \in Places \ Building /\ faults' \in 0 .. MaxFaults
  BY <1>1, <1>3, <1>4 DEF Places, Building, Shape
<1> QED  BY <1>3, <1>4, <1>5, <1>6, <1>7, <1>9, <1>10, WalkMoves

(***************************************************************************)
(* After a caught error: back to the look at the latest state.             *)
(***************************************************************************)
LEMMA RecheckMoves ==
    ASSUME IInv, NEW c \in Client, NEW lp \in Loops, NEW l \in {"fb_recheck", "fb_loop"},
           pc[c] \notin {"fb_confirm"},
           pc' = [pc EXCEPT ![c] = l],
           pending' \in {pending, [pending EXCEPT ![c] = NoEvent]}, pending'[c] = NoEvent,
           at' \in {at, [at EXCEPT ![c] = 0]},
           loop' = [loop EXCEPT ![c] = lp],
           lp.tries = loop[c].tries, lp.own = loop[c].own,
           log' = log, call' = call, answer' = answer,
           faults' \in 0 .. MaxFaults, scenario' = scenario
    PROVE  Moves(c)
<1>1. LoopOn(log, pc[c], call[c], loop[c])
  BY DEF IInv, ClientOn
<1>2. LoopOn(log, l, call[c], lp)
  BY <1>1 DEF LoopOn
<1>3. l \in Places \ Building
  BY DEF Places, Building
<1> QED  BY <1>2, <1>3, WalkMoves

LEMMA CaughtMoves ==
    ASSUME IInv, NEW c \in Client,
           \/ FbCreate(c) /\ HasRelation(log, FeedbackRelationId[Case(c)])
           \/ FbQualifyLate(c)
           \/ FbRefuse(c)
           \/ FbRecheck(c) /\ ~AppliedMeanwhile(c)
           \/ FbUnreadable(c) /\ pc[c] = "fb_create"
           \/ Fails(c) /\ pc[c] \in Caught
    PROVE  Moves(c)
<1>1. Shape
  BY DEF IInv
<1>2. loop[c] \in Loops /\ loop = [loop EXCEPT ![c] = loop[c]]
  BY <1>1 DEF Shape
<1>3. pc[c] \notin Building => pending[c] = NoEvent
  BY DEF IInv, ClientOn, BuiltOn
<1>4. log' = log /\ call' = call /\ answer' = answer /\ scenario' = scenario
  <2>1. CASE FbRecheck(c) /\ ~AppliedMeanwhile(c)
    BY <2>1 DEF FbRecheck
  <2>2. CASE FbUnreadable(c) /\ pc[c] = "fb_create"
    BY <2>2 DEF FbUnreadable
  <2>3. CASE Fails(c) /\ pc[c] \in Caught
    BY <2>3, FailsIs DEF AccessFails
  <2> QED  BY <2>1, <2>2, <2>3 DEF FbCreate, FbQualifyLate, FbRefuse
<1>5. CASE \/ FbCreate(c) /\ HasRelation(log, FeedbackRelationId[Case(c)])
           \/ FbQualifyLate(c)
           \/ FbRecheck(c) /\ ~AppliedMeanwhile(c)
           \/ FbUnreadable(c) /\ pc[c] = "fb_create"
  <2>1. \E l \in {"fb_recheck", "fb_loop"} : pc' = [pc EXCEPT ![c] = l]
    BY <1>5 DEF FbCreate, FbQualifyLate, FbRecheck, FbUnreadable, Goto
  <2>2. pc[c] \in {"fb_create", "fb_qualify", "fb_recheck"}
    BY <1>5 DEF FbCreate, FbQualifyLate, FbRecheck, FbUnreadable, Reads
  <2>3. pending' = pending /\ at' = at /\ loop' = loop /\ faults' = faults
    BY <1>5, <2>2 DEF FbCreate, FbQualifyLate, FbRecheck, FbUnreadable
  <2>4. faults' \in 0 .. MaxFaults /\ pc[c] \notin Building /\ pc[c] # "fb_confirm"
    BY <1>1, <2>2, <2>3 DEF Shape, Building
  <2> QED  BY <1>2, <1>3, <1>4, <2>1, <2>3, <2>4, RecheckMoves
<1>6. CASE FbRefuse(c)
  <2>1. /\ pending' = [pending EXCEPT ![c] = NoEvent] /\ at' = [at EXCEPT ![c] = 0]
        /\ pc' = [pc EXCEPT ![c] = "fb_recheck"] /\ loop' = loop /\ faults' = faults
        /\ pc[c] \in DOMAIN AfterAppend
    BY <1>6 DEF FbRefuse, Goto
  <2>2. pending'[c] = NoEvent /\ pc[c] # "fb_confirm" /\ faults' \in 0 .. MaxFaults
    BY <1>1, <2>1 DEF Shape, AfterAppend
  <2> QED  BY <1>2, <1>4, <2>1, <2>2, RecheckMoves
<1>7. CASE Fails(c) /\ pc[c] \in Caught
  <2> DEFINE lp == [loop[c] EXCEPT !.faults = @ + 1]
  <2>1. /\ pending' = [pending EXCEPT ![c] = NoEvent] /\ at' = [at EXCEPT ![c] = 0]
        /\ pc' = [pc EXCEPT ![c] = "fb_recheck"]
    BY <1>7, FailsIs DEF AccessFails, Goto
  <2>2. loop' = [loop EXCEPT ![c] = lp]
    BY <1>1, <1>7, FailsIs DEF AccessFails, Shape
  <2>3. lp \in Loops /\ lp.tries = loop[c].tries /\ lp.own = loop[c].own
    BY <1>2 DEF Loops
  <2>4. pc[c] # "fb_confirm"
    BY <1>7 DEF Caught, AfterAppend
  <2>5. pending'[c] = NoEvent
    BY <1>1, <2>1 DEF Shape
  <2>6. faults' \in 0 .. MaxFaults
    BY <1>7, FailsIs
  <2> HIDE DEF lp
  <2> QED  BY <1>4, <2>1, <2>2, <2>3, <2>4, <2>5, <2>6, RecheckMoves
<1> QED  BY <1>5, <1>6, <1>7

LEMMA OtherLeavesMoves ==
    ASSUME IInv, NEW c \in Client,
           \/ FbRecheck(c) /\ AppliedMeanwhile(c)
           \/ FbUnreadable(c) /\ pc[c] # "fb_create"
           \/ Fails(c) /\ pc[c] \notin Caught
    PROVE  Moves(c)
<1>1. \E a \in Answers : Answer(c, a)
  BY FailsIs DEF FbRecheck, FbUnreadable, AccessFails, Answers
<1>2. log' = log /\ scenario' = scenario
  <2>1. CASE FbRecheck(c)
    BY <2>1 DEF FbRecheck
  <2>2. CASE FbUnreadable(c)
    BY <2>2 DEF FbUnreadable
  <2>3. CASE Fails(c)
    BY <2>3, FailsIs
  <2> QED  BY <2>1, <2>2, <2>3
<1>3. faults' \in 0 .. MaxFaults
  <2>1. CASE Fails(c)
    BY <2>1, FailsIs
  <2>2. CASE ~Fails(c)
    BY <2>2, MoreFaults DEF FbRecheck, FbUnreadable
  <2> QED  BY <2>1, <2>2
<1> QED  BY <1>1, <1>2, <1>3, AnswerMoves DEF Growing

(***************************************************************************)
(* The two events of the loop are built on the snapshot read last.         *)
(***************************************************************************)
LEMMA FbBuildMoves ==
    ASSUME IInv, NEW c \in Client,
           \/ FbCreate(c) /\ ~HasRelation(log, FeedbackRelationId[Case(c)])
           \/ FbQualify(c)
    PROVE  Moves(c)
<1> DEFINE k   == call[c]
           rel == FeedbackRelationId[k.case]
<1>1. Shape /\ IsLog(log)
  BY DEF IInv, Written
<1>2. /\ log' = log /\ call' = call /\ loop' = loop /\ answer' = answer
      /\ faults' = faults /\ scenario' = scenario
  BY DEF FbCreate, FbQualify
<1>3. CasesCompatible(log) /\ pc[c] \in {"fb_create", "fb_qualify"}
  BY DEF FbCreate, FbQualify, Reads, Readable
<1>4. Len(log) \in Nat /\ Len(log) \in 0 .. Len(log) /\ Prefix(log, Len(log)) = log
  BY <1>1, LogFacts, PrefixFull
<1>5. /\ IsOfType(log, k.case, "FeedbackCase")
      /\ \A l \in {"fb_append_relation", "fb_append_state"} : LoopOn(log, l, k, loop[c])
  BY <1>3 DEF IInv, ClientOn, LoopOn
<1>6. \E l \in {"fb_append_relation", "fb_append_state"} : \E e :
          BuiltOn(log, l, k, e) /\ Build(c, e, l)
  <2>1. CASE FbCreate(c) /\ ~HasRelation(log, rel)
    <3>1. Build(c, FeedbackRelation(log, k.case), "fb_append_relation")
      BY <2>1 DEF FbCreate, Case
    <3>2. BuiltOn(log, "fb_append_relation", k, FeedbackRelation(log, k.case))
      BY <1>3, <1>5, <2>1 DEF BuiltOn, Building
    <3> QED  BY <3>1, <3>2
  <2>2. CASE FbQualify(c)
    <3> DEFINE e == [ev |-> "invalidated", relation |-> rel]
    <3>1. Build(c, e, "fb_append_state")
      BY <2>2 DEF FbQualify, Case
    <3>2. SourcesUsable(log, States(log), k.case) /\ MayActivate(log, "invalidated", rel)
      BY <2>2 DEF FbQualify, MayQualify, CaseEligible, Case
    <3>3. BuiltOn(log, "fb_append_state", k, e)
      BY <1>3, <1>5, <3>2 DEF BuiltOn, Building
    <3> HIDE DEF e
    <3> QED  BY <3>1, <3>3
  <2> QED  BY <2>1, <2>2 DEF Case
<1>7. PICK l, e :
          /\ l \in {"fb_append_relation", "fb_append_state"}
          /\ BuiltOn(log, l, k, e) /\ Build(c, e, l)
  BY <1>6
<1>8. /\ pending' = [pending EXCEPT ![c] = e] /\ at' = [at EXCEPT ![c] = Len(log)]
      /\ pc' = [pc EXCEPT ![c] = l]
  BY <1>7 DEF Build, Goto
<1>9. ClientOn(log', l, k, e, Len(log), loop[c])
  BY <1>2, <1>4, <1>5, <1>7 DEF ClientOn
<1>10. /\ call' = [call EXCEPT ![c] = k] /\ loop' = [loop EXCEPT ![c] = loop[c]]
       /\ pending'[c] = e /\ k \in Menu \cup {NoCall} /\ loop[c] \in Loops
       /\ answer' \in [Client -> Answers] /\ faults' \in 0 .. MaxFaults
  BY <1>1, <1>2, <1>8 DEF Shape
<1>11. l \in Places /\ Growing
  BY <1>2, <1>7 DEF Places, Growing
<1> HIDE DEF k
<1> QED  BY <1>2, <1>4, <1>8, <1>9, <1>10, <1>11, GoesMoves

(***************************************************************************)
(* The two appends of the loop.  The relation is appended once: it was not *)
(* there, and had the call created one before, it would be.                *)
(***************************************************************************)
LEMMA FbAppendMoves ==
    ASSUME IInv, NEW c \in Client, FbAppend(c)
    PROVE  Moves(c)
<1> DEFINE k   == call[c]
           rel == FeedbackRelationId[k.case]
           lp  == [loop[c] EXCEPT !.own = @ + 1]
<1>1. Shape /\ IsLog(log) /\ Written(log)
  BY DEF IInv, Written
<1>2. /\ log' = Append(log, pending[c]) /\ HeadIsAt(c)
      /\ pending' = [pending EXCEPT ![c] = NoEvent] /\ at' = [at EXCEPT ![c] = 0]
      /\ pc' = [pc EXCEPT ![c] = AfterAppend[pc[c]]]
      /\ call' = call /\ answer' = answer /\ faults' = faults /\ scenario' = scenario
  BY DEF FbAppend, Appendable, Goto
<1>3. pc[c] \in {"fb_append_relation", "fb_append_state"}
  BY DEF FbAppend, AfterAppend
<1>4. loop' = [loop EXCEPT ![c] = lp]
  BY <1>1 DEF FbAppend, Shape
<1>5. BuiltOn(log, pc[c], k, pending[c]) /\ Fits(log, pending[c])
  BY <1>2, <1>3, PendingFits DEF Building
<1>6. Growing
  BY <1>2, <1>5 DEF Growing
<1>7. Grows(log, log') /\ Unique(log') /\ IsLog(log')
  BY <1>1, <1>6, GrowingGrows DEF Written
<1>8. Len(log) \in Nat /\ Len(log') = Len(log) + 1 /\ log'[Len(log) + 1] = pending[c]
  BY <1>1, <1>2, AppendFacts, LogFacts
<1>9. Len(log) + 1 \in DOMAIN log'
  BY <1>7, <1>8, LogFacts
<1>10. loop[c] \in Loops /\ LoopOn(log, pc[c], k, loop[c])
  BY <1>1 DEF IInv, ClientOn, Shape
<1>11. lp \in Loops /\ lp.tries = loop[c].tries /\ lp.own = loop[c].own + 1
  BY <1>10 DEF Loops
<1> HIDE DEF lp
<1>12. LoopOn(log', AfterAppend[pc[c]], k, lp)
  <2>1. CASE pc[c] = "fb_append_relation"
    <3>1. ~HasRelation(log, rel) /\ pending[c] = FeedbackRelation(log, k.case)
      BY <1>5, <2>1 DEF BuiltOn
    <3>2. loop[c].own = 0
      BY <1>10, <2>1, <3>1 DEF LoopOn
    <3>3. pending[c].ev = "relation" /\ pending[c].id = rel
      BY <3>1 DEF FeedbackRelation
    <3> HIDE DEF rel
    <3>4. PlaceOf(log', "relation", rel) # 0
      <4>1. log'[Len(log) + 1].ev = "relation" /\ log'[Len(log) + 1].id = rel
        BY <1>8, <3>3
      <4> DEFINE i == Len(log) + 1
                 H == log'
      <4>2. IsLog(H) /\ i \in DOMAIN H /\ H[i].ev = "relation" /\ H[i].id = rel
        BY <1>7, <1>9, <4>1
      <4> HIDE DEF i, H
      <4>3. PlaceOf(H, "relation", rel) # 0
        BY <4>2, PlaceUnknown
      <4> QED  BY <4>3 DEF H
    <3>5. HasRelation(log', rel)
      BY <3>4 DEF HasRelation, RelationAt
    <3>6. AfterAppend[pc[c]] = "fb_loop"
      BY <2>1 DEF AfterAppend
    <3>7. lp.own = 1 /\ lp.tries <= 4
      BY <1>10, <1>11, <3>2 DEF LoopOn
    <3> QED  BY <3>5, <3>6, <3>7 DEF LoopOn, rel
  <2>2. CASE pc[c] = "fb_append_state"
    <3>1. /\ MayActivate(log, "invalidated", rel)
          /\ pending[c] = [ev |-> "invalidated", relation |-> rel]
      BY <1>5, <2>2 DEF BuiltOn
    <3>2. pending[c].ev = "invalidated" /\ pending[c].relation = rel /\ HasRelation(log, rel)
      BY <3>1 DEF MayActivate
    <3> HIDE DEF rel
    <3>3. HasRelation(log', rel)
      BY <1>7, <3>2, RelationStays
    <3>4. \E i \in Created(log', "invalidated") : log'[i].relation = rel
      BY <1>8, <1>9, <3>2 DEF Created
    <3>5. ApplicationState(log', k.case) = "applied"
      BY <3>3, <3>4 DEF ApplicationState, rel
    <3>6. AfterAppend[pc[c]] = "fb_confirm"
      BY <2>2 DEF AfterAppend
    <3>7. lp.own \in 0 .. 2 /\ lp.tries <= 4
      BY <1>10, <1>11, <2>2 DEF LoopOn
    <3> QED  BY <3>5, <3>6, <3>7 DEF LoopOn
  <2> QED  BY <1>3, <2>1, <2>2
<1>13. AfterAppend[pc[c]] \in Places \ Building
  BY <1>3 DEF AfterAppend, Places, Building
<1>14. 0 \in 0 .. Len(log') /\ 0 \in Nat
  BY <1>8
<1>15. ClientOn(log', AfterAppend[pc[c]], k, NoEvent, 0, lp)
  BY <1>7, <1>12, <1>13, <1>14, NotBuilding
<1>16. /\ call' = [call EXCEPT ![c] = k] /\ k \in Menu \cup {NoCall} /\ pending'[c] = NoEvent
       /\ answer' \in [Client -> Answers] /\ faults' \in 0 .. MaxFaults
  BY <1>1, <1>2 DEF Shape
<1> HIDE DEF k
<1> QED  BY <1>2, <1>4, <1>6, <1>11, <1>13, <1>14, <1>15, <1>16, GoesMoves

-----------------------------------------------------------------------------
(***************************************************************************)
(* Every step is a move of one client, and only appends change the ledger. *)
(***************************************************************************)
StepOf(c) == \/ \E k \in Menu : Call(c, k) \/ RawAppend(c, k) \/ ApplyFeedback(c, k)
             \/ Proceed(c)
             \/ Fails(c)
             \/ Crash(c)
             \/ Aside(c)

LEMMA SomebodySteps == Next => \E c \in Client : StepOf(c)
BY DEF Next, StepOf, Fails, Aside

LEMMA StepMoves ==
    ASSUME IInv, NEW c \in Client, StepOf(c)
    PROVE  Moves(c)
<1>1. CASE \E k \in Menu : Call(c, k) \/ RawAppend(c, k) \/ ApplyFeedback(c, k)
  BY <1>1, CallMoves, RawMoves, ApplyMoves
<1>2. CASE Leaves(c)
  BY <1>2, LeavesMoves
<1>3. CASE AppendEvent(c) \/ FbIterate(c) \/ FbAppend(c)
  BY <1>3, AppendMoves, IterateMoves, FbAppendMoves
<1>4. CASE FbCreate(c) \/ FbQualify(c)
  BY <1>4, FbBuildMoves, CaughtMoves
<1>5. CASE FbQualifyLate(c) \/ FbRefuse(c) \/ FbRecheck(c) \/ FbUnreadable(c) \/ Fails(c)
  BY <1>5, CaughtMoves, OtherLeavesMoves
<1>6. CASE Aside(c)
  BY <1>6, AsideMoves
<1> QED  BY <1>1, <1>2, <1>3, <1>4, <1>5, <1>6 DEF StepOf, Proceed, Leaves, Fails

LEMMA OnlyAppendsWrite ==
    ASSUME NEW c \in Client, StepOf(c), log' # log
    PROVE  \/ AppendEvent(c) /\ pc[c] = "append"
           \/ FbAppend(c) /\ pc[c] \in {"fb_append_relation", "fb_append_state"}
           \/ \E k \in Menu : RawAppend(c, k) /\ pc[c] = "idle"
<1>1. AppendEvent(c) \/ FbAppend(c) \/ \E k \in Menu : RawAppend(c, k)
  BY DEF StepOf, Call, ApplyFeedback, Proceed, RefuseAppend, FbGiveUp, FbAlready, FbRaise,
         FbIterate, FbCreate, FbQualifyLate, FbQualifyRaise, FbQualify, FbRefuse, FbRecheck,
         FbConfirm, FbUnreadable, Fails, DatabaseError, JournalError, AccessFails, Crash, Aside,
         RollBack, RawCrash
<1> QED  BY <1>1 DEF AppendEvent, FbAppend, AfterAppend, RawAppend

-----------------------------------------------------------------------------
(***************************************************************************)
(* The inductive invariant.  At the start the ledger is one that accepted  *)
(* calls wrote (SetupAssumption).                                          *)
(***************************************************************************)
LEMMA InitIInv == Init => IInv
<1> SUFFICES ASSUME Init PROVE IInv
  OBVIOUS
<1> DEFINE setup == Scenario[scenario].setup
           h     == After(setup)
<1>1. /\ scenario \in DOMAIN Scenario /\ log = h
      /\ pc = [c \in Client |-> "idle"] /\ call = [c \in Client |-> NoCall]
      /\ pending = [c \in Client |-> NoEvent] /\ at = [c \in Client |-> 0]
      /\ loop = [c \in Client |-> NewLoop] /\ answer = [c \in Client |-> "none"]
      /\ faults = 0
  BY DEF Init
<1>2. /\ IsLog(h) /\ DOMAIN setup = 1 .. Len(h)
      /\ \A n \in DOMAIN setup :
             /\ setup[n].op \in TypedOperations
             /\ Accepts(Prefix(h, n - 1), States(Prefix(h, n - 1)), setup[n])
             /\ h[n] = EventOf(Prefix(h, n - 1), States(Prefix(h, n - 1)), setup[n])
  BY <1>1, SetupAssumption DEF IsLog
<1> HIDE DEF setup, h
<1>3. DOMAIN h = 1 .. Len(h)
  BY <1>2, LogFacts
<1>4. \A n \in DOMAIN h : Fits(Prefix(h, n - 1), h[n])
  BY <1>2, <1>3, AcceptedFits
<1>5. Written(h)
  BY <1>2, <1>4 DEF Written
<1>6. NewLoop \in Loops /\ MaxFaults \in Nat
  BY <1>1, MenuAssumption DEF NewLoop, Loops, MaxFaults
<1>7. Shape
  BY <1>1, <1>6 DEF Shape, Places, Answers
<1>8. \A c \in Client : ClientOn(log, pc[c], call[c], pending[c], at[c], loop[c])
  BY <1>1, <1>2, IdleOn
<1> QED  BY <1>1, <1>5, <1>7, <1>8 DEF IInv

LEMMA NextIInv == IInv /\ [Next]_vars => IInv'
<1>1. IInv /\ Next => IInv'
  BY SomebodySteps, StepMoves, MovesKeeps
<1>2. IInv /\ UNCHANGED vars => IInv'
  BY DEF IInv, Shape, Menu, MaxFaults, vars
<1> QED  BY <1>1, <1>2

(***************************************************************************)
(* The inductive invariant: what every client holds was built on a prefix  *)
(* of the ledger, and every event of the ledger fits what is below it.     *)
(***************************************************************************)
THEOREM Invariance == Spec => []IInv
BY InitIInv, NextIInv, PTL DEF Spec

-----------------------------------------------------------------------------
(***************************************************************************)
(* The variables have their types: an answer of apply_feedback is one of   *)
(* its four, and a call appends at most the two events of a case.          *)
(***************************************************************************)
JournalOrNot == hot \in BOOLEAN

LEMMA JournalOrNotKept == JournalOrNot /\ [Next]_vars => JournalOrNot'
<1> SUFFICES ASSUME hot \in BOOLEAN, Next PROVE hot' \in BOOLEAN
  BY DEF JournalOrNot, vars
<1>1. PICK c \in Client : StepOf(c)
  BY SomebodySteps
<1>2. CASE Fails(c) \/ Crash(c) \/ Aside(c)
  BY <1>2 DEF Fails, DatabaseError, JournalError, AccessFails, Crash, LeaveJournal, Aside, RollBack,
              RawCrash
<1>3. QED
  BY <1>1, <1>2
     DEF StepOf, Call, RawAppend, ApplyFeedback, Proceed, AppendEvent, RefuseAppend, FbGiveUp,
         FbAlready, FbRaise, FbIterate, FbCreate, FbQualifyLate, FbQualifyRaise, FbQualify, FbAppend,
         FbRefuse, FbRecheck, FbConfirm, FbUnreadable, Fails

LEMMA TypeOKHolds == IInv /\ JournalOrNot => TypeOK
<1> SUFFICES ASSUME IInv, hot \in BOOLEAN PROVE TypeOK
  BY DEF JournalOrNot
<1>1. Shape /\ Written(log)
  BY DEF IInv
<1>2. \A i \in DOMAIN log : log[i].ev \in {"record", "relation", "raw", "bound",
                                           "invalidated", "superseded"}
  BY <1>1 DEF Written, Fits
<1>3. ASSUME NEW c \in Client
      PROVE  /\ at[c] \in 0 .. Len(log)
             /\ pending[c] # NoEvent <=> pc[c] \in {"append"} \cup DOMAIN AfterAppend
             /\ loop[c].tries \in 0 .. 4 /\ loop[c].own \in 0 .. 2
  <2> DEFINE p == Prefix(log, at[c])
             k == call[c]
             e == pending[c]
             l == pc[c]
  <2>1. /\ at[c] \in 0 .. Len(log) /\ BuiltOn(p, l, k, e) /\ LoopOn(log, l, k, loop[c])
    BY DEF IInv, ClientOn
  <2>2. loop[c] \in Loops
    BY <1>1 DEF Shape
  <2>3. loop[c].tries \in 0 .. 4 /\ loop[c].own \in 0 .. 2
    BY <2>1, <2>2 DEF LoopOn, Loops
  <2>4. {"append"} \cup DOMAIN AfterAppend = Building
    BY DEF AfterAppend, Building
  <2>5. l \notin Building => e = NoEvent
    BY <2>1 DEF BuiltOn
  <2>6. l \in Building => e # NoEvent
    <3> HIDE DEF p, k, e, l
    <3>1. NoEvent.ev = "none"
      BY DEF NoEvent
    <3>2. l = "append" => Fits(p, e)
      BY <2>1, AcceptedFits DEF BuiltOn
    <3>3. l = "append" => e.ev # "none"
      BY <3>2 DEF Fits
    <3>4. l = "fb_append_relation" => e.ev = "relation"
      BY <2>1 DEF BuiltOn, FeedbackRelation
    <3>5. l = "fb_append_state" => e.ev = "invalidated"
      BY <2>1 DEF BuiltOn
    <3> QED  BY <3>1, <3>3, <3>4, <3>5 DEF Building
  <2> QED  BY <2>1, <2>3, <2>4, <2>5, <2>6
<1> QED  BY <1>1, <1>2, <1>3 DEF TypeOK, Shape, Places, Answers

(***************************************************************************)
(* The type invariant of the clients of causal.py follows from it.         *)
(***************************************************************************)
THEOREM SpecTypeOK == Spec => []TypeOK
<1>1. Init => JournalOrNot
  BY DEF Init, JournalOrNot
<1>2. QED
  BY <1>1, JournalOrNotKept, TypeOKHolds, Invariance, PTL DEF Spec

(***************************************************************************)
(* What the builders accept on a snapshot the projections replay in the    *)
(* ledger, unless the id derived from a feedback case is occupied.         *)
(***************************************************************************)
THEOREM SpecOnlyOccupationPoisons == Spec => []OnlyOccupationPoisons
<1>1. IInv => OnlyOccupationPoisons
  BY WrittenReplays DEF IInv, OnlyOccupationPoisons, Readable
<1> QED  BY <1>1, Invariance, PTL

(***************************************************************************)
(* A permit that counts as fresh is one that evaluating its request again  *)
(* would give; so is the permit of a fresh release, whose subject is       *)
(* usable.                                                                 *)
(***************************************************************************)
THEOREM SpecFreshPermitIsEarned == Spec => []FreshPermitIsEarned
<1>1. IInv => FreshPermitIsEarned
  <2> SUFFICES ASSUME IInv, NEW d \in Decisions,
                      DecisionFresh(log, st, d), Body(log, d).outcome = "permit"
               PROVE  Reasons(log, st, Body(log, d).request) = {}
    BY DEF FreshPermitIsEarned
  <2>1. Written(log) /\ IsLog(log) /\ Unique(log)
    BY WrittenUnique DEF IInv, Written
  <2>2. PICK i \in Created(log, "record") : log[i].type = "GateDecision" /\ d = log[i].id
    BY DEF Decisions, Records
  <2>3. IsOfType(log, d, "GateDecision")
    BY <2>1, <2>2, RecordAtPlace DEF IsOfType
  <2> QED  BY <2>1, <2>3, PermitEarned
<1> QED  BY <1>1, Invariance, PTL

(***************************************************************************)
(* A release that counts as fresh (feedback.py) has a usable subject and a *)
(* decision that evaluating again would permit.                            *)
(***************************************************************************)
THEOREM SpecFreshReleaseIsEarned == Spec => []FreshReleaseIsEarned
<1>1. IInv => FreshReleaseIsEarned
  <2> SUFFICES ASSUME IInv, NEW r \in Releases, ReleaseFresh(log, st, r)
               PROVE  /\ Usable(st[Body(log, r).subject])
                      /\ Reasons(log, st, Body(log, Body(log, r).decision).request) = {}
    BY DEF FreshReleaseIsEarned
  <2>1. Written(log) /\ IsLog(log) /\ Unique(log)
    BY WrittenUnique DEF IInv, Written
  <2>2. PICK i \in Created(log, "record") : log[i].type = "Release" /\ r = log[i].id
    BY DEF Releases, Records
  <2>3. IsOfType(log, r, "Release")
    BY <2>1, <2>2, RecordAtPlace DEF IsOfType
  <2> QED  BY <2>1, <2>3, ReleaseEarned
<1> QED  BY <1>1, Invariance, PTL

(***************************************************************************)
(* Two cases that exclude each other are never both applied.               *)
(***************************************************************************)
THEOREM SpecRivalsExclude == Spec => []RivalsExclude
<1>1. IInv => RivalsExclude
  <2> SUFFICES ASSUME IInv, CasesCompatible(log),
                      NEW f \in DOMAIN FeedbackRelationId, NEW g \in DOMAIN FeedbackRelationId,
                      IsOfType(log, f, "FeedbackCase"), IsOfType(log, g, "FeedbackCase"),
                      f # g,
                      Body(log, f).target \in Sources(g), Body(log, g).target \in Sources(f)
               PROVE  ~(ApplicationState(log, f) = "applied" /\ ApplicationState(log, g) = "applied")
    BY DEF RivalsExclude, Readable, IsOpen
  <2>1. Written(log)
    BY DEF IInv
  <2>2. f # "" /\ g # ""
    BY RelationIdAssumption
  <2>3. Body(log, f).target \in SourcesIn(log, g) /\ Body(log, g).target \in SourcesIn(log, f)
    BY DEF Sources, SourcesIn
  <2> QED  BY <2>1, <2>2, <2>3, RivalsOfWritten
<1> QED  BY <1>1, Invariance, PTL

-----------------------------------------------------------------------------
(***************************************************************************)
(* A typed call takes effect as if it ran alone when it commits.           *)
(***************************************************************************)
THEOREM SpecCallsAreAtomic == Spec => CallsAreAtomic
<1> DEFINE Atomic == \A c \in Client : pc[c] = "append" /\ log' # log /\ pc'[c] = "idle" =>
                         /\ Accepts(log, st, call[c])
                         /\ log' = Perform(log, call[c])
<1>1. IInv /\ [Next]_vars => [Atomic]_vars
  <2> SUFFICES ASSUME IInv, Next, NEW c \in Client, pc[c] = "append", log' # log,
                      pc'[c] = "idle"
               PROVE  Accepts(log, st, call[c]) /\ log' = Perform(log, call[c])
    OBVIOUS
  <2>1. PICK d \in Client : StepOf(d)
    BY SomebodySteps
  <2>2. d = c
    <3>1. Moves(d)
      BY <2>1, StepMoves
    <3> QED  BY <3>1 DEF Moves
  <2>3. AppendEvent(c)
    BY <2>1, <2>2, OnlyAppendsWrite
  <2>4. HeadIsAt(c) /\ log' = Append(log, pending[c])
    BY <2>3 DEF AppendEvent, Appendable
  <2>5. BuiltOn(log, "append", call[c], pending[c])
    BY <2>4, PendingFits DEF Building
  <2> QED  BY <2>4, <2>5 DEF BuiltOn, Perform, st
<1> QED  BY <1>1, Invariance, PTL DEF Spec, CallsAreAtomic

(***************************************************************************)
(* An occupied ledger is closed to everything but raw events.              *)
(***************************************************************************)
THEOREM SpecOccupiedIsClosed == Spec => OccupiedIsClosed
<1> DEFINE Closed == ~CasesCompatible(log) =>
                         /\ ~CasesCompatible(log')
                         /\ \A i \in DOMAIN log' \ DOMAIN log : log'[i].ev = "raw"
<1>1. IInv /\ [Next]_vars => [Closed]_log
  <2> SUFFICES ASSUME IInv, Next, log' # log, ~CasesCompatible(log)
               PROVE  /\ ~CasesCompatible(log')
                      /\ \A i \in DOMAIN log' \ DOMAIN log : log'[i].ev = "raw"
    BY DEF vars
  <2>1. PICK c \in Client : StepOf(c)
    BY SomebodySteps
  <2>2. ~AppendEvent(c) /\ ~FbAppend(c)
    BY PendingFits DEF AppendEvent, FbAppend, Appendable, Building, AfterAppend
  <2>3. PICK k \in Menu : RawAppend(c, k)
    BY <2>1, <2>2, OnlyAppendsWrite
  <2> DEFINE e == [ev |-> "raw", id |-> k.id]
  <2>4. log' = Append(log, e) /\ e.ev = "raw"
    BY <2>3 DEF RawAppend
  <2> HIDE DEF e
  <2>5. IsLog(log) /\ Written(log) /\ Unique(log)
    BY WrittenUnique DEF IInv, Written
  <2>6. IsLog(log') /\ Len(log') = Len(log) + 1 /\ log'[Len(log) + 1] = e
    BY <2>4, <2>5, AppendFacts
  <2>7. Grows(log, log')
    BY <2>4, <2>5, AppendGrows
  <2>8. Unique(log')
    <3>1. Moves(c)
      BY <2>1, StepMoves
    <3> QED  BY <2>5, <3>1, GrowingGrows DEF Moves
  <2>9. ~CasesCompatible(log')
    BY <2>5, <2>7, <2>8, OccupiedStays
  <2>10. /\ Len(log) \in Nat /\ DOMAIN log = 1 .. Len(log)
         /\ DOMAIN log' = 1 .. Len(log) + 1
    BY <2>5, <2>6, LogFacts
  <2>11. \A i \in DOMAIN log' \ DOMAIN log : i = Len(log) + 1
    BY <2>10
  <2> QED  BY <2>4, <2>6, <2>9, <2>11
<1> QED  BY <1>1, Invariance, PTL DEF Spec, OccupiedIsClosed

-----------------------------------------------------------------------------
(***************************************************************************)
(* Effective states: staleness is reachability, revisions form lines, and  *)
(* what is unusable stays so.                                              *)
(***************************************************************************)
THEOREM SpecStalenessIsReachability == Spec => []StalenessIsReachability
<1>1. IInv => StalenessIsReachability
  BY CausesAreReaching DEF IInv, Written, StalenessIsReachability, st
<1>2. QED
  BY <1>1, Invariance, PTL

(***************************************************************************)
(* Records connected by supersessions (state.py) have one current record.  *)
(***************************************************************************)
THEOREM SpecOneCurrentRevision == Spec => []OneCurrentRevision
<1>1. IInv => OneCurrentRevision
  <2> SUFFICES ASSUME IInv, NEW r \in RecordIds(log)
               PROVE  Cardinality({q \in Lineage(r) : st[q].superseded = {}}) = 1
    BY DEF OneCurrentRevision
  <2>1. Lineage(r) = Reaching(Successions(log) \cup Turned(Successions(log)), r)
    BY DEF Lineage, Successions, Turned
  <2>2. Written(log)
    BY DEF IInv
  <2>3. PICK q : {p \in Reaching(Successions(log) \cup Turned(Successions(log)), r) :
                      States(log)[p].superseded = {}} = {q}
    BY <2>2, OneCurrent
  <2>4. {p \in Lineage(r) : st[p].superseded = {}} = {q}
    BY <2>1, <2>3 DEF st
  <2>5. QED
    BY <2>4, FS_Singleton
<1>2. QED
  BY <1>1, Invariance, PTL

LEMMA LogGrows ==
    ASSUME IInv, [Next]_vars
    PROVE  Written(log) /\ Growing /\ Grows(log, log') /\ Unique(log')
<1>1. Growing
  BY SomebodySteps, StepMoves DEF Moves, Growing, vars
<1>2. QED
  BY <1>1, GrowingGrows DEF IInv

(***************************************************************************)
(* A record that lost its standing (state.py) never becomes usable again.  *)
(***************************************************************************)
THEOREM SpecUnusableForever == Spec => UnusableForever
<1> DEFINE Stays == \A r \in RecordIds(log) : ~Usable(st[r]) => ~Usable(States(log')[r])
<1>1. IInv /\ [Next]_vars => [Stays]_log
  BY LogGrows, UnusableStays DEF st
<1>2. QED
  BY <1>1, Invariance, PTL DEF Spec, UnusableForever

LEMMA StaysStale ==
    ASSUME NEW h, Written(h), NEW H, Written(H), Grows(h, H)
    PROVE  StaleIn(h) \subseteq StaleIn(H)
<1>1. IsLog(h) /\ Unique(h)
  BY WrittenUnique DEF Grows
<1>2. \A i \in DOMAIN h : i \in DOMAIN H /\ H[i] = h[i]
  BY LogFacts DEF Grows
<1>3. ASSUME NEW type, NEW i \in Records(h, type)
      PROVE  IsOfType(h, h[i].id, type) /\ i \in Records(H, type) /\ H[i].id = h[i].id
  <2>1. i \in Created(h, "record") /\ h[i].type = type
    BY DEF Records
  <2>2. IsOfType(h, h[i].id, type)
    BY <1>1, <2>1, RecordAtPlace DEF IsOfType
  <2>3. QED
    BY <1>2, <2>1, <2>2 DEF Records, Created
<1>4. \A i \in Records(h, "GateDecision") :
          ~DecisionFresh(h, States(h), h[i].id) => ~DecisionFresh(H, States(H), h[i].id)
  BY <1>3, DecisionStaleForGood
<1>5. \A i \in Records(h, "Release") :
          ~ReleaseFresh(h, States(h), h[i].id) => ~ReleaseFresh(H, States(H), h[i].id)
  BY <1>3, ReleaseStaleForGood
<1>6. QED
  BY <1>3, <1>4, <1>5 DEF StaleIn

(***************************************************************************)
(* A decision, or the authority of a release, that went stale never        *)
(* becomes fresh again.  The only way back would be an input whose         *)
(* effective state returns to what the decision was evaluated on; but the  *)
(* path of a cause is only ever replaced by a better one.                  *)
(***************************************************************************)
THEOREM SpecStaleForever == Spec => []StaleForever
<1>1. IInv => StaleForever
  <2> SUFFICES ASSUME IInv, log # <<>>
               PROVE  StaleIn(Front(log)) \subseteq StaleIn(log)
    BY DEF StaleForever
  <2>1. Written(log) /\ IsLog(log)
    BY DEF IInv, Written
  <2>2. Len(log) \in Nat /\ Len(log) - 1 \in 0 .. Len(log)
    BY <2>1, SameLog, LogFacts DEF IsLog
  <2>3. Front(log) = Prefix(log, Len(log) - 1)
    BY DEF Front, Prefix
  <2>4. Written(Front(log)) /\ Grows(Front(log), log)
    BY <2>1, <2>2, <2>3, WrittenPrefix, PrefixGrows
  <2>5. QED
    BY <2>1, <2>4, StaysStale
<1>2. QED
  BY <1>1, Invariance, PTL

(***************************************************************************)
(* The path given for a cause leads from the record to the root, binding   *)
(* by binding, and no other path is shorter.                               *)
(***************************************************************************)
THEOREM SpecCausePathsAreShortest == Spec => []CausePathsAreShortest
<1>1. IInv => CausePathsAreShortest
  <2> SUFFICES ASSUME IInv, NEW r \in RecordIds(log), NEW cause \in st[r].causes
               PROVE  LET root == RelOf(log, cause.root).target
                      IN  /\ LeadsTo(r, cause.path, root)
                          /\ \A n \in 1 .. Len(cause.path) - 1 :
                                 ~\E p \in [1 .. n -> Created(log, "bound")] :
                                     LeadsTo(r, p, root)
    BY DEF CausePathsAreShortest
  <2>1. Written(log) /\ IsLog(log) /\ Unique(log)
    BY WrittenUnique DEF IInv, Written
  <2>2. PICK i \in RootsOf(log, r) : cause = CauseFrom(log, r, i)
    BY <2>1, CausesAre DEF st
  <2>3. PICK root : root = RelOf(log, i).target
    OBVIOUS
  <2>4. r \in DOMAIN Paths(log, root) \ {root}
    BY <2>1, <2>2, <2>3, CausesAre
  <2>5. PICK path : path = Paths(log, root)[r]
    OBVIOUS
  <2>6. cause.root = i /\ cause.path = path
    BY <2>2, <2>3, <2>5 DEF CauseFrom
  <2>7. /\ Leads(log, r, path, root)
        /\ \A p : Leads(log, r, p, root) => path = p \/ Better(path, p)
    BY <2>1, <2>4, <2>5, PathsAreBest
  <2>8. Len(path) \in Nat /\ LeadsTo(r, path, root)
    BY <2>7 DEF Leads, LeadsTo, Last
  <2>9. ASSUME NEW n \in 1 .. Len(path) - 1, NEW p \in [1 .. n -> Created(log, "bound")],
               LeadsTo(r, p, root)
        PROVE  FALSE
    <3>1. n \in Nat /\ n < Len(path) /\ p \in Seq(Created(log, "bound")) /\ Len(p) = n
      BY <2>8
    <3>2. Leads(log, r, p, root)
      BY <2>9, <3>1 DEF Leads, LeadsTo, Last
    <3>3. path = p \/ Better(path, p)
      BY <2>7, <3>2
    <3>4. QED
      BY <2>8, <3>1, <3>3 DEF Better
  <2>10. QED
    BY <2>3, <2>6, <2>8, <2>9
<1>2. QED
  BY <1>1, Invariance, PTL

-----------------------------------------------------------------------------
(***************************************************************************)
(* A ledger that typed calls wrote has no applied case.                    *)
(***************************************************************************)
LEMMA NothingAppliedAtFirst ==
    ASSUME IInv, Init, NEW case \in CaseIds
    PROVE  StateOf(log, case) # "applied"
<1> SUFFICES ASSUME StateOf(log, case) = "applied" PROVE FALSE
  OBVIOUS
<1> DEFINE setup == Scenario[scenario].setup
           rid   == FeedbackRelationId[case]
<1>1. scenario \in DOMAIN Scenario /\ log = After(setup) /\ Written(log) /\ IsLog(log)
  BY DEF Init, IInv, Written
<1>2. /\ DOMAIN setup = 1 .. Len(log)
      /\ \A n \in DOMAIN setup :
             /\ setup[n].op \in TypedOperations
             /\ Accepts(Prefix(log, n - 1), States(Prefix(log, n - 1)), setup[n])
             /\ log[n] = EventOf(Prefix(log, n - 1), States(Prefix(log, n - 1)), setup[n])
  BY <1>1, SetupAssumption
<1> HIDE DEF setup
<1>3. /\ OpenIn(log, case) /\ HasRelation(log, rid) /\ ~TakenIn(log, case)
      /\ ApplicationState(log, case) = "applied"
  BY StateIs
<1>4. PICK i \in Created(log, "invalidated") : log[i].relation = rid
  BY <1>3 DEF ApplicationState
<1> DEFINE p == Prefix(log, i - 1)
<1>5. i \in DOMAIN log /\ log[i].ev = "invalidated"
  BY <1>4 DEF Created
<1>6. Written(p) /\ Grows(p, log) /\ Unique(log) /\ Fits(p, log[i]) /\ i \in 1 .. Len(log)
  BY <1>1, <1>5, AtPlace
<1>7. setup[i].op \in TypedOperations /\ Accepts(p, States(p), setup[i])
      /\ log[i] = EventOf(p, States(p), setup[i])
  BY <1>2, <1>6
<1> HIDE DEF p
<1>8. HasRelation(p, rid)
  BY <1>4, <1>5, <1>6 DEF Fits, MayActivate
<1>9. ManagedCase(p, rid) = ""
  BY <1>4, <1>5, <1>7, TypedInvalidates
<1>10. ManagedCase(log, rid) = case
  BY <1>3, ManagedByCase
<1>11. ManagedCase(log, rid) = ManagedCase(p, rid)
  BY <1>6, <1>8, ManagedStays
<1>12. case # ""
  BY RelationIdAssumption DEF CaseIds
<1>13. QED
  BY <1>9, <1>10, <1>11, <1>12

-----------------------------------------------------------------------------
(***************************************************************************)
(* The refinement mapping, with names of its own.                          *)
(***************************************************************************)
Calling(case) == {c \in Client : pc[c] # "idle" /\ Applying(c, case)}

Told(case) == [c \in Client |-> IF Applying(c, case) THEN answer[c] ELSE "none"]

StateNow(case) == IF ~IsOpen(case) THEN "not_open"
                  ELSE IF InConflict(case) THEN "conflict" ELSE ApplicationState(log, case)

EligibleNow(case) == /\ IsOpen(case)
                     /\ Body(log, case).effect = "invalidate_target"
                     /\ SourcesUsable(log, st, case)

LEMMA Mapped ==
    ASSUME NEW case
    PROVE  /\ StateNow(case) = StateOf(log, case) /\ StateNow(case)' = StateOf(log', case)
           /\ EligibleNow(case) = EligibleOf(log, case)
           /\ EligibleNow(case)' = EligibleOf(log', case)
           /\ EligibleNow(case) \in BOOLEAN /\ EligibleNow(case)' \in BOOLEAN
BY DEF StateNow, StateOf, EligibleNow, EligibleOf, IsOpen, OpenIn, InConflict, TakenIn, st

LEMMA StepForget ==
    ASSUME NEW case, NEW c \in Client, c \notin Calling(case),
           Told(case)' = [Told(case) EXCEPT ![c] = "none"],
           StateNow(case)' = StateNow(case), EligibleNow(case)' = EligibleNow(case),
           Calling(case)' = Calling(case)
    PROVE  Application(case)!Next
<1>1. Application(case)!Forget(c)
  BY DEF Application!Forget, Calling, Told, StateNow, EligibleNow
<1>2. QED
  BY <1>1 DEF Application!Next

LEMMA StepCall ==
    ASSUME NEW case, NEW c \in Client, c \notin Calling(case),
           Told(case)' = [Told(case) EXCEPT ![c] = "none"],
           StateNow(case)' = StateNow(case), EligibleNow(case)' = EligibleNow(case),
           Calling(case)' = Calling(case) \cup {c}
    PROVE  Application(case)!Next
<1>1. Application(case)!Call(c)
  BY DEF Application!Call, Calling, Told, StateNow, EligibleNow
<1>2. QED
  BY <1>1 DEF Application!Next

LEMMA StepReturn ==
    ASSUME NEW case, NEW c \in Client, c \in Calling(case),
           NEW a \in {"none", "applied", "ineligible"},
           a = "applied" => StateNow(case) = "applied",
           a = "ineligible" => /\ StateNow(case) \notin {"not_open", "applied", "conflict"}
                               /\ ~EligibleNow(case),
           Told(case)' = [Told(case) EXCEPT ![c] = a],
           StateNow(case)' = StateNow(case), EligibleNow(case)' = EligibleNow(case),
           Calling(case)' = Calling(case) \ {c}
    PROVE  Application(case)!Next
<1>1. Application(case)!Justified(a)
  BY DEF Application!Justified, StateNow, EligibleNow
<1>2. StateNow(case) = "conflict" => a = "none"
  OBVIOUS
<1>3. Application(case)!Return(c)
  BY <1>1, <1>2 DEF Application!Return, Application!Answers, Calling, Told, StateNow, EligibleNow
<1>4. QED
  BY <1>3 DEF Application!Next

LEMMA StepStutters ==
    ASSUME NEW case, Told(case)' = Told(case), Calling(case)' = Calling(case),
           StateNow(case)' = StateNow(case), EligibleNow(case)' = EligibleNow(case)
    PROVE  UNCHANGED Application(case)!vars
BY DEF Application!vars, Calling, Told, StateNow, EligibleNow

LEMMA StepEvolves ==
    ASSUME NEW case, Told(case)' = Told(case), Calling(case)' = Calling(case),
           Written(log), NEW e, log' = Append(log, e), Written(log'),
           Applies(e, case) /\ StateNow(case) = "pending_qualification" =>
               Calling(case) # {} /\ EligibleNow(case)
    PROVE  Application(case)!Next \/ UNCHANGED Application(case)!vars
<1> DEFINE s == StateNow(case)
           a == EligibleNow(case)
<1>1. /\ s = StateOf(log, case) /\ s' = StateOf(Append(log, e), case)
      /\ a = EligibleOf(log, case) /\ a' = EligibleOf(Append(log, e), case)
      /\ a \in BOOLEAN /\ a' \in BOOLEAN
  BY Mapped
<1>2. Written(Append(log, e))
  OBVIOUS
<1>3. CASE s = "not_open"
  <2>1. ~a
    BY <1>1, <1>3, StateIs DEF EligibleOf
  <2>2. CASE s' = "not_open"
    <3>1. ~a'
      BY <1>1, <2>2, StateIs DEF EligibleOf
    <3>2. a' = a /\ s' = s
      BY <1>1, <1>3, <2>1, <2>2, <3>1
    <3>3. QED
      BY <3>2, StepStutters
  <2>3. CASE s' # "not_open"
    <3>1. s' \in {"not_applied", "conflict"}
      BY <1>1, <1>2, <1>3, <2>3, CaseOpens, StateIs
    <3>2. Application(case)!Open
      BY <1>1, <1>3, <3>1 DEF Application!Open, Calling, Told, StateNow, EligibleNow
    <3>3. QED
      BY <3>2 DEF Application!Next, Application!Evolve
  <2>4. QED
    BY <2>2, <2>3
<1>4. CASE s # "not_open"
  <2>1. a' => a
    BY <1>1, <1>2, <1>4, CaseGoesOn
  <2>2. \/ s' = s
        \/ s = "pending_qualification" /\ s' = "applied" /\ Applies(e, case)
        \/ s = "not_applied" /\ s' \in {"pending_qualification", "conflict"} /\ a' = a
    <3>1. CASE HasRelation(log, FeedbackRelationId[case])
      BY <1>1, <1>2, <1>4, <3>1, CaseGoesOn
    <3>2. CASE ~HasRelation(Append(log, e), FeedbackRelationId[case])
      BY <1>1, <1>2, <1>4, <3>2, CaseGoesOn
    <3>3. CASE /\ ~HasRelation(log, FeedbackRelationId[case])
               /\ HasRelation(Append(log, e), FeedbackRelationId[case])
      <4>1. s = "not_applied"
        BY <1>1, <1>4, <3>3, StateIs
      <4>2. /\ s' \in {"pending_qualification", "conflict"}
            /\ EligibleOf(Append(log, e), case) <=> EligibleOf(log, case)
        <5> HIDE DEF s, a
        <5>1. StateOf(log, case) = "not_applied"
          BY <1>1, <4>1
        <5>2. QED
          BY <1>1, <1>2, <3>3, <5>1, CaseProposed
      <4>3. a' = a
        <5> HIDE DEF s, a
        <5>1. QED
          BY <1>1, <4>2
      <4>4. QED
        BY <4>1, <4>2, <4>3
    <3>4. QED
      BY <3>1, <3>2, <3>3
  <2>3. CASE s' = s
    <3>1. CASE a' = a
      BY <2>3, <3>1, StepStutters
    <3>2. CASE a /\ ~a'
      <4>1. Application(case)!LoseEligibility
        BY <1>1, <1>4, <2>3, <3>2
           DEF Application!LoseEligibility, Calling, Told, StateNow, EligibleNow
      <4>2. QED
        BY <4>1 DEF Application!Next, Application!Evolve
    <3>3. QED
      BY <1>1, <2>1, <3>1, <3>2
  <2>4. CASE s = "pending_qualification" /\ s' = "applied" /\ Applies(e, case)
    <3>1. Application(case)!Apply
      BY <1>1, <2>4 DEF Application!Apply, Calling, Told, StateNow, EligibleNow
    <3>2. QED
      BY <3>1 DEF Application!Next, Application!Evolve
  <2>5. CASE s = "not_applied" /\ s' = "pending_qualification" /\ a' = a
    <3>1. Application(case)!Propose
      BY <2>5 DEF Application!Propose, Calling, Told, StateNow, EligibleNow
    <3>2. QED
      BY <3>1 DEF Application!Next, Application!Evolve
  <2>6. CASE s = "not_applied" /\ s' = "conflict" /\ a' = a
    <3>1. Application(case)!Occupy
      BY <2>6 DEF Application!Occupy, Calling, Told, StateNow, EligibleNow
    <3>2. QED
      BY <3>1 DEF Application!Next, Application!Evolve
  <2>7. QED
    BY <2>2, <2>3, <2>4, <2>5, <2>6
<1>5. QED
  BY <1>3, <1>4

-----------------------------------------------------------------------------
(***************************************************************************)
(* The kinds of steps a client makes, as a case sees them.                 *)
(***************************************************************************)
Begins(c) ==
    /\ pc[c] = "idle" /\ log' = log
    /\ \E l \in Places \ {"idle"} : pc' = [pc EXCEPT ![c] = l]
    /\ \E k \in Menu : call' = [call EXCEPT ![c] = k]
    /\ answer' = [answer EXCEPT ![c] = "none"]

GoesOn(c) ==
    /\ pc[c] # "idle"
    /\ \E l \in Places \ {"idle"} : pc' = [pc EXCEPT ![c] = l]
    /\ UNCHANGED <<log, call, answer>>

\* An answer about the case is true of the ledger it is given on.
Deserved(c, a) ==
    a \in {"applied", "ineligible"} =>
        /\ Readable /\ IsOfType(log, Case(c), "FeedbackCase")
        /\ a = "applied" => CaseApplied(c)
        /\ a = "ineligible" => ~CaseApplied(c) /\ ~Applicable(c)

Ends(c) ==
    /\ pc[c] # "idle" /\ log' = log
    /\ \E a \in Answers : Answer(c, a) /\ Deserved(c, a)

(***************************************************************************)
(* What a client in apply_feedback is about, and that the case exists once *)
(* the loop has looked at it.                                              *)
(***************************************************************************)
Serving == \A c \in Client :
    /\ pc[c] \notin {"idle", "append"} => call[c].op = "apply_feedback"
    /\ pc[c] \notin {"idle", "append", "fb_loop"} => IsOfType(log, Case(c), "FeedbackCase")

LEMMA StepKinds ==
    ASSUME IInv, Serving, NEW c \in Client, StepOf(c)
    PROVE  \/ Begins(c) \/ GoesOn(c) \/ Ends(c)
           \/ AppendEvent(c) \/ FbAppend(c) \/ \E k \in Menu : RawAppend(c, k)
           \/ UNCHANGED <<log, pc, call, pending, at, loop, answer>>
<1>1. /\ pc \in [Client -> Places] /\ pc[c] \in Places
      /\ \A d \in Client : LoopOn(log, pc[d], call[d], loop[d])
  BY DEF IInv, Shape, ClientOn
<1>2. \A a \in {"none", "gave_up", "unknown"} : a \in Answers /\ Deserved(c, a)
  BY DEF Answers, Deserved
<1>3. {"applied", "ineligible"} \subseteq Answers
  BY DEF Answers
<1>4. CASE \E k \in Menu : Call(c, k) \/ ApplyFeedback(c, k)
  BY <1>4 DEF Begins, Call, ApplyFeedback, Build, Goto, Places
<1>5. CASE RefuseAppend(c) \/ FbGiveUp(c) \/ Crash(c)
  BY <1>2, <1>5 DEF Ends, RefuseAppend, FbGiveUp, Crash
<1>6. CASE FbAlready(c)
  BY <1>3, <1>6 DEF Ends, Deserved, FbAlready, Iterating, Reads
<1>7. CASE FbRaise(c)
  BY <1>2, <1>3, <1>7 DEF Ends, Deserved, FbRaise, Iterating, Reads
<1>8. CASE FbIterate(c)
  BY <1>8 DEF GoesOn, FbIterate, Iterating, Reads, Goto, Places
<1>9. CASE FbCreate(c)
  BY <1>9 DEF GoesOn, FbCreate, Reads, Goto, Build, Places
<1>10. CASE FbQualifyLate(c)
  BY <1>10 DEF GoesOn, FbQualifyLate, Reads, Goto, Places
<1>11. CASE FbQualifyRaise(c)
  <2>1. Deserved(c, "ineligible")
    BY <1>11 DEF Deserved, FbQualifyRaise, Reads, Applicable, Serving
  <2>2. QED
    BY <1>3, <1>11, <2>1 DEF Ends, FbQualifyRaise, Reads
<1>12. CASE FbQualify(c)
  BY <1>12 DEF GoesOn, FbQualify, Reads, Build, Goto, Places
<1>13. CASE FbRefuse(c)
  BY <1>13 DEF GoesOn, FbRefuse, AfterAppend, Goto, Places
<1>14. CASE FbRecheck(c)
  <2>1. pc[c] = "fb_recheck" /\ Readable /\ IsOfType(log, Case(c), "FeedbackCase")
    BY <1>14 DEF FbRecheck, Reads, Serving
  <2>2. CASE AppliedMeanwhile(c) /\ Answer(c, "applied")
    BY <1>3, <1>14, <2>1, <2>2 DEF Ends, Deserved, FbRecheck, AppliedMeanwhile
  <2>3. CASE Goto(c, "fb_loop") /\ UNCHANGED <<call, pending, at, loop, answer>>
    BY <1>14, <2>1, <2>3 DEF GoesOn, FbRecheck, Goto, Places
  <2>4. QED
    BY <1>14, <2>2, <2>3 DEF FbRecheck
<1>15. CASE FbConfirm(c)
  <2>1. pc[c] = "fb_confirm" /\ Readable /\ IsOfType(log, Case(c), "FeedbackCase")
    BY <1>15 DEF FbConfirm, Reads, Serving
  <2>2. CaseApplied(c)
    BY <1>1, <2>1 DEF LoopOn, CaseApplied, Case
  <2>3. Deserved(c, "applied") /\ Answer(c, "applied") /\ log' = log
    BY <1>15, <2>1, <2>2 DEF Deserved, FbConfirm, CaseApplied
  <2>4. QED
    BY <1>3, <2>1, <2>3 DEF Ends
<1>16. CASE FbUnreadable(c)
  <2>1. CASE Answer(c, "none")
    BY <1>2, <1>16, <2>1 DEF Ends, FbUnreadable
  <2>2. CASE pc[c] = "fb_create" /\ Goto(c, "fb_recheck")
             /\ UNCHANGED <<call, pending, at, loop, answer>>
    BY <1>16, <2>2 DEF GoesOn, FbUnreadable, Goto, Places
  <2>3. QED
    BY <1>16, <2>1, <2>2 DEF FbUnreadable
<1>17. CASE Fails(c)
  <2>1. CASE pc[c] \notin Caught \cup {"idle"} /\ Answer(c, "none")
    BY <1>2, <1>17, <2>1, FailsIs DEF Ends
  <2>2. CASE pc[c] \in Caught /\ Goto(c, "fb_recheck") /\ UNCHANGED <<call, answer>>
    BY <1>17, <2>2, FailsIs DEF GoesOn, Goto, Caught, AfterAppend, Places
  <2>3. QED
    BY <1>17, <2>1, <2>2, FailsIs DEF AccessFails
<1>18. CASE Aside(c)
  BY <1>18, AsideIs
<1>19. QED
  BY <1>4, <1>5, <1>6, <1>7, <1>8, <1>9, <1>10, <1>11, <1>12, <1>13, <1>14, <1>15, <1>16, <1>17,
     <1>18
     DEF StepOf, Proceed, Fails

LEMMA InitServing == Init => Serving
BY DEF Init, Serving

LEMMA ServingKept ==
    ASSUME IInv, Serving, [Next]_vars
    PROVE  Serving'
<1>1. Written(log) /\ Grows(log, log') /\ Unique(log')
  BY LogGrows
<1>2. ASSUME NEW d \in Client, pc'[d] = pc[d], call'[d] = call[d]
      PROVE  /\ pc'[d] \notin {"idle", "append"} => call'[d].op = "apply_feedback"
             /\ pc'[d] \notin {"idle", "append", "fb_loop"} =>
                    IsOfType(log', call'[d].case, "FeedbackCase")
  <2>1. IsOfType(log, call[d].case, "FeedbackCase") => IsOfType(log', call[d].case, "FeedbackCase")
    BY <1>1, RecordStays DEF IsOfType
  <2>2. QED
    BY <1>2, <2>1 DEF Serving, Case
<1>3. CASE UNCHANGED vars
  BY <1>2, <1>3 DEF vars, Serving, Case
<1>4. ASSUME NEW c \in Client, StepOf(c)
      PROVE  Serving'
  <2>1. \A d \in Client \ {c} : pc'[d] = pc[d] /\ call'[d] = call[d]
    BY <1>4, StepMoves DEF Moves
  <2>2. /\ pc'[c] \notin {"idle", "append"} => call'[c].op = "apply_feedback"
        /\ pc'[c] \notin {"idle", "append", "fb_loop"} =>
               IsOfType(log', call'[c].case, "FeedbackCase")
    <3>1. DOMAIN pc = Client /\ DOMAIN call = Client
      BY DEF IInv, Shape
    <3>2. \/ pc'[c] \in {"idle", "append"}
          \/ pc'[c] = "fb_loop" /\ call'[c].op = "apply_feedback"
          \/ /\ pc[c] \notin {"idle", "append"} /\ call'[c] = call[c]
             /\ IsOfType(log, Case(c), "FeedbackCase")
      <4>1. CASE \E k \in Menu : Call(c, k) \/ RawAppend(c, k) \/ ApplyFeedback(c, k)
        BY <3>1, <4>1 DEF Call, RawAppend, ApplyFeedback, Build, Goto
      <4>2. CASE FbIterate(c)
        BY <4>2 DEF FbIterate, Iterating, Reads, Applicable
      <4>3. CASE \E a : Answer(c, a)
        BY <3>1, <4>3 DEF Answer
      <4>4. CASE FbCreate(c) \/ FbQualifyLate(c) \/ FbQualify(c) \/ FbAppend(c) \/ FbRefuse(c)
        BY <4>4 DEF FbCreate, FbQualifyLate, FbQualify, FbAppend, FbRefuse, Reads, AfterAppend,
                    Serving
      <4>5. CASE call' = call /\ pc[c] \in {"fb_recheck"} \cup Caught
        BY <4>5 DEF Serving, Caught, AfterAppend
      <4>6. CASE Fails(c)
        BY <4>3, <4>5, <4>6, FailsIs DEF AccessFails
      <4>7. CASE Aside(c)
        BY <4>7, AsideIs DEF Serving
      <4>8. QED
        BY <1>4, <4>1, <4>2, <4>3, <4>4, <4>5, <4>6, <4>7
           DEF StepOf, Proceed, AppendEvent, RefuseAppend, FbGiveUp, FbAlready, FbRaise,
               FbQualifyRaise, FbRecheck, FbConfirm, FbUnreadable, Fails, Crash, Reads, Caught
    <3>3. IsOfType(log, Case(c), "FeedbackCase") => IsOfType(log', Case(c), "FeedbackCase")
      BY <1>1, RecordStays DEF IsOfType
    <3>4. QED
      BY <3>2, <3>3 DEF Serving, Case
  <2>3. QED
    <3>1. \A d \in Client :
              /\ pc'[d] \notin {"idle", "append"} => call'[d].op = "apply_feedback"
              /\ pc'[d] \notin {"idle", "append", "fb_loop"} =>
                     IsOfType(log', call'[d].case, "FeedbackCase")
      BY <1>2, <2>1, <2>2
    <3>2. QED
      BY <3>1 DEF Serving, Case
<1>5. QED
  BY <1>3, <1>4, SomebodySteps

-----------------------------------------------------------------------------
(***************************************************************************)
(* A step of one client changes the view of the callers at that client.    *)
(***************************************************************************)
Serves(k, case) == k.op = "apply_feedback" /\ k.case = case

LEMMA ViewChanges ==
    ASSUME IInv, NEW c \in Client, NEW case,
           \A d \in Client \ {c} : /\ pc'[d] = pc[d] /\ call'[d] = call[d]
                                   /\ answer'[d] = answer[d]
    PROVE  /\ c \in Calling(case) <=> pc[c] # "idle" /\ Serves(call[c], case)
           /\ pc'[c] # "idle" /\ Serves(call'[c], case) =>
                  Calling(case)' = Calling(case) \cup {c}
           /\ ~(pc'[c] # "idle" /\ Serves(call'[c], case)) =>
                  Calling(case)' = Calling(case) \ {c}
           /\ Serves(call'[c], case) => Told(case)' = [Told(case) EXCEPT ![c] = answer'[c]]
           /\ ~Serves(call'[c], case) => Told(case)' = [Told(case) EXCEPT ![c] = "none"]
           /\ Told(case)[c] = IF Serves(call[c], case) THEN answer[c] ELSE "none"
<1>1. /\ Calling(case) = {d \in Client : pc[d] # "idle" /\ Serves(call[d], case)}
      /\ Calling(case)' = {d \in Client : pc'[d] # "idle" /\ Serves(call'[d], case)}
      /\ Told(case) = [d \in Client |-> IF Serves(call[d], case) THEN answer[d] ELSE "none"]
      /\ Told(case)' = [d \in Client |-> IF Serves(call'[d], case) THEN answer'[d] ELSE "none"]
  BY DEF Calling, Told, Applying, Case, Serves
<1>2. \A d \in Client \ {c} : d \in Calling(case)' <=> d \in Calling(case)
  BY ONLY <1>1, \A d \in Client \ {c} : pc'[d] = pc[d] /\ call'[d] = call[d]
<1>3. c \in Calling(case)' <=> pc'[c] # "idle" /\ Serves(call'[c], case)
  BY ONLY <1>1, c \in Client
<1>4. Calling(case) \subseteq Client /\ Calling(case)' \subseteq Client
  BY ONLY <1>1
<1>5. \A d \in Client \ {c} : Told(case)'[d] = Told(case)[d]
  BY <1>1
<1>6. Told(case)'[c] = IF Serves(call'[c], case) THEN answer'[c] ELSE "none"
  BY ONLY <1>1, c \in Client
<1>7. DOMAIN Told(case) = Client /\ DOMAIN Told(case)' = Client
      /\ Told(case)' = [d \in Client |-> Told(case)'[d]]
  BY ONLY <1>1
<1>8. \A x : Told(case)'[c] = x => Told(case)' = [Told(case) EXCEPT ![c] = x]
  BY ONLY <1>5, <1>7
<1>9. QED
  BY <1>1, <1>2, <1>3, <1>4, <1>6, <1>8

(***************************************************************************)
(* The steps of a client that leave the ledger as it is.                   *)
(***************************************************************************)
LEMMA QuietCase ==
    ASSUME NEW case, log' = log
    PROVE  StateNow(case)' = StateNow(case) /\ EligibleNow(case)' = EligibleNow(case)
BY Mapped

LEMMA ToldSame ==
    ASSUME NEW case, NEW c \in Client, NEW f, f = [Told(case) EXCEPT ![c] = Told(case)[c]]
    PROVE  f = Told(case)
BY DEF Told

LEMMA BeginsImplements ==
    ASSUME IInv, NEW c \in Client, Begins(c), NEW case
    PROVE  Application(case)!Next
<1>1. PICK k \in Menu : call' = [call EXCEPT ![c] = k]
  BY DEF Begins
<1>2. PICK l \in Places \ {"idle"} : pc' = [pc EXCEPT ![c] = l]
  BY DEF Begins
<1>3. /\ pc[c] = "idle" /\ pc'[c] # "idle" /\ call'[c] = k /\ answer'[c] = "none"
      /\ \A d \in Client \ {c} : /\ pc'[d] = pc[d] /\ call'[d] = call[d]
                                 /\ answer'[d] = answer[d]
  BY <1>1, <1>2 DEF Begins, IInv, Shape
<1>4. /\ c \notin Calling(case)
      /\ Told(case)' = [Told(case) EXCEPT ![c] = "none"]
      /\ Serves(k, case) => Calling(case)' = Calling(case) \cup {c}
      /\ ~Serves(k, case) => Calling(case)' = Calling(case) \ {c}
  BY <1>3, ViewChanges
<1>5. StateNow(case)' = StateNow(case) /\ EligibleNow(case)' = EligibleNow(case)
  BY QuietCase DEF Begins
<1>6. CASE Serves(k, case)
  BY <1>4, <1>5, <1>6, StepCall
<1>7. CASE ~Serves(k, case)
  <2>1. Calling(case)' = Calling(case)
    BY <1>4, <1>7
  <2>2. QED
    BY <1>4, <1>5, <2>1, StepForget
<1>8. QED
  BY <1>6, <1>7

LEMMA GoesOnImplements ==
    ASSUME IInv, NEW c \in Client, GoesOn(c), NEW case
    PROVE  UNCHANGED Application(case)!vars
<1>1. PICK l \in Places \ {"idle"} : pc' = [pc EXCEPT ![c] = l]
  BY DEF GoesOn
<1>2. \A d \in Client : pc'[d] # "idle" <=> pc[d] # "idle"
  BY <1>1 DEF GoesOn, IInv, Shape
<1>3. Calling(case)' = Calling(case) /\ Told(case)' = Told(case)
  BY <1>2 DEF GoesOn, Calling, Told, Applying, Case
<1>4. QED
  BY <1>3, QuietCase, StepStutters DEF GoesOn

LEMMA StutterImplements ==
    ASSUME IInv, UNCHANGED <<log, pc, call, pending, at, loop, answer>>, NEW case
    PROVE  UNCHANGED Application(case)!vars
<1>1. Calling(case)' = Calling(case) /\ Told(case)' = Told(case)
  BY DEF Calling, Told, Applying, Case
<1>2. QED
  BY <1>1, QuietCase, StepStutters

LEMMA EndsImplements ==
    ASSUME IInv, NEW c \in Client, Ends(c), NEW case
    PROVE  Application(case)!Next \/ UNCHANGED Application(case)!vars
<1>1. PICK a \in Answers : Answer(c, a) /\ Deserved(c, a)
  BY DEF Ends
<1>2. pc[c] # "idle" /\ log' = log /\ Written(log)
  BY DEF Ends, IInv
<1>3. /\ pc'[c] = "idle" /\ answer'[c] = a
      /\ call'[c] = IF a \in {"applied", "ineligible"} THEN call[c] ELSE NoCall
      /\ \A d \in Client \ {c} : /\ pc'[d] = pc[d] /\ call'[d] = call[d]
                                 /\ answer'[d] = answer[d]
  BY <1>1 DEF Answer, IInv, Shape
<1>4. StateNow(case)' = StateNow(case) /\ EligibleNow(case)' = EligibleNow(case)
  BY <1>2, QuietCase
<1>5. ~Serves(NoCall, case)
  BY DEF Serves, NoCall
<1>6. /\ c \in Calling(case) <=> Serves(call[c], case)
      /\ Calling(case)' = Calling(case) \ {c}
      /\ Serves(call'[c], case) => Told(case)' = [Told(case) EXCEPT ![c] = a]
      /\ ~Serves(call'[c], case) => Told(case)' = [Told(case) EXCEPT ![c] = "none"]
      /\ ~Serves(call[c], case) => Told(case)[c] = "none"
  BY <1>2, <1>3, ViewChanges
<1>7. CASE ~Serves(call[c], case)
  <2>1. ~Serves(call'[c], case)
    BY <1>3, <1>5, <1>7
  <2>2. Calling(case)' = Calling(case) /\ Told(case)' = Told(case)
    BY <1>6, <1>7, <2>1, ToldSame
  <2>3. QED
    BY <1>4, <2>2, StepStutters
<1>8. CASE Serves(call[c], case) /\ a \notin {"applied", "ineligible"}
  <2>1. Told(case)' = [Told(case) EXCEPT ![c] = "none"]
    BY <1>3, <1>5, <1>6, <1>8
  <2>2. QED
    BY <1>4, <1>6, <1>8, <2>1, StepReturn
<1>9. CASE Serves(call[c], case) /\ a \in {"applied", "ineligible"}
  <2>1. Told(case)' = [Told(case) EXCEPT ![c] = a]
    BY <1>3, <1>6, <1>9
  <2>2. Case(c) = case /\ OpenIn(log, case) /\ CasesCompatible(log)
    BY <1>1, <1>9 DEF Deserved, Serves, Case, OpenIn, Readable
  <2>3. ~TakenIn(log, case)
    BY <1>2, <2>2, CaseTarget DEF CasesCompatible, TakenIn, OpenIn, Record
  <2>4. StateNow(case) = ApplicationState(log, case)
    BY <2>2, <2>3, Mapped DEF StateOf
  <2>5. ApplicationState(log, case) \notin {"not_open", "conflict"}
    BY DEF ApplicationState
  <2>6. a = "applied" => StateNow(case) = "applied"
    BY <1>1, <2>2, <2>4 DEF Deserved, CaseApplied
  <2>7. EligibleNow(case) => Applicable(c)
    BY <2>2 DEF EligibleNow, Applicable, IsOpen, CaseEligible, st
  <2>8. a = "ineligible" => /\ StateNow(case) \notin {"not_open", "applied", "conflict"}
                            /\ ~EligibleNow(case)
    BY <1>1, <2>2, <2>4, <2>5, <2>7 DEF Deserved, CaseApplied
  <2>9. QED
    BY <1>4, <1>6, <1>9, <2>1, <2>6, <2>8, StepReturn
<1>10. QED
  BY <1>7, <1>8, <1>9

(***************************************************************************)
(* The steps that append.                                                  *)
(***************************************************************************)
LEMMA AppendEventImplements ==
    ASSUME IInv, NEW c \in Client, AppendEvent(c), Written(log'), NEW case \in CaseIds
    PROVE  Application(case)!Next \/ UNCHANGED Application(case)!vars
<1> DEFINE e == pending[c]
           k == call[c]
<1>1. pc[c] = "append" /\ HeadIsAt(c) /\ log' = Append(log, e) /\ Answer(c, "none")
      /\ Written(log)
  BY DEF AppendEvent, Appendable, IInv
<1>2. BuiltOn(log, "append", k, e)
  BY <1>1, PendingFits DEF Building
<1> HIDE DEF e, k
<1>3. /\ k.op \in TypedOperations /\ Accepts(log, States(log), k)
      /\ e = EventOf(log, States(log), k)
  BY <1>2 DEF BuiltOn
<1>4. ~Serves(k, case) /\ ~Serves(NoCall, case)
  BY <1>3 DEF Serves, NoCall, TypedOperations, TypeWritten, ActivationOf
<1>5. /\ pc'[c] = "idle" /\ call'[c] = NoCall
      /\ \A d \in Client \ {c} : /\ pc'[d] = pc[d] /\ call'[d] = call[d]
                                 /\ answer'[d] = answer[d]
  BY <1>1 DEF Answer, IInv, Shape
<1>6. c \notin Calling(case) /\ Calling(case)' = Calling(case) \ {c}
      /\ Told(case)' = [Told(case) EXCEPT ![c] = "none"] /\ Told(case)[c] = "none"
  BY <1>4, <1>5, ViewChanges DEF k
<1>7. Calling(case)' = Calling(case) /\ Told(case)' = Told(case)
  BY <1>6, ToldSame
<1>8. ASSUME Applies(e, case), StateNow(case) = "pending_qualification"
      PROVE  FALSE
  <2>1. ManagedCase(log, FeedbackRelationId[case]) = ""
    BY <1>3, <1>8, TypedInvalidates DEF Applies
  <2>2. /\ OpenIn(log, case) /\ ~TakenIn(log, case)
        /\ HasRelation(log, FeedbackRelationId[case])
    BY <1>8, Mapped, StateIs
  <2>3. ManagedCase(log, FeedbackRelationId[case]) = case
    BY <2>2, ManagedByCase
  <2>4. QED
    BY <2>1, <2>3, RelationIdAssumption DEF CaseIds
<1>9. QED
  BY <1>1, <1>7, <1>8, StepEvolves

LEMMA RawImplements ==
    ASSUME IInv, NEW c \in Client, NEW k \in Menu, RawAppend(c, k), Written(log'), NEW case
    PROVE  Application(case)!Next \/ UNCHANGED Application(case)!vars
<1> DEFINE e == [ev |-> "raw", id |-> k.id]
<1>1. log' = Append(log, e) /\ UNCHANGED <<pc, call, answer>> /\ Written(log)
  BY DEF RawAppend, IInv
<1>2. Calling(case)' = Calling(case) /\ Told(case)' = Told(case)
  BY <1>1 DEF Calling, Told, Applying, Case
<1>3. ~Applies(e, case)
  BY DEF Applies
<1> HIDE DEF e
<1>4. QED
  BY <1>1, <1>2, <1>3, StepEvolves

LEMMA FbAppendImplements ==
    ASSUME IInv, Serving, NEW c \in Client, FbAppend(c), Written(log'), NEW case
    PROVE  Application(case)!Next \/ UNCHANGED Application(case)!vars
<1> DEFINE e == pending[c]
           k == call[c]
<1>1. /\ pc[c] \in {"fb_append_relation", "fb_append_state"} /\ HeadIsAt(c)
      /\ log' = Append(log, e) /\ UNCHANGED <<call, answer>> /\ Written(log)
      /\ pc' = [pc EXCEPT ![c] = AfterAppend[pc[c]]]
  BY DEF FbAppend, Appendable, IInv, AfterAppend, Goto
<1>2. BuiltOn(log, pc[c], k, e) /\ CasesCompatible(log)
  BY <1>1, PendingFits DEF Building
<1>3. \A d \in Client : pc'[d] # "idle" <=> pc[d] # "idle"
  BY <1>1 DEF IInv, Shape, AfterAppend
<1>4. Calling(case)' = Calling(case) /\ Told(case)' = Told(case)
  BY <1>1, <1>3 DEF Calling, Told, Applying, Case
<1> HIDE DEF e, k
<1>5. ASSUME Applies(e, case), StateNow(case) = "pending_qualification"
      PROVE  Calling(case) # {} /\ EligibleNow(case)
  <2>1. /\ OpenIn(log, case) /\ ~TakenIn(log, case)
        /\ HasRelation(log, FeedbackRelationId[case])
    BY <1>5, Mapped, StateIs
  <2>2. pc[c] = "fb_append_state"
    BY <1>1, <1>2, <1>5 DEF BuiltOn, FeedbackRelation, Applies
  <2>3. /\ IsOfType(log, k.case, "FeedbackCase") /\ SourcesUsable(log, States(log), k.case)
        /\ e = [ev |-> "invalidated", relation |-> FeedbackRelationId[k.case]]
    BY <1>2, <2>2 DEF BuiltOn
  <2>4. FeedbackRelationId[k.case] = FeedbackRelationId[case]
    BY <1>5, <2>3 DEF Applies
  <2>5. Relation(log, FeedbackRelationId[k.case]).source = k.case
    BY <1>1, <1>2, <2>1, <2>3, <2>4, RelationOfCase
  <2>6. Relation(log, FeedbackRelationId[case]).source = case
    BY <2>1, ManagedByCase
  <2>7. k.case = case
    BY <2>4, <2>5, <2>6
  <2>8. EligibleNow(case)
    BY <2>1, <2>3, <2>7, ManagedByCase, Mapped DEF EligibleOf
  <2>9. call[c].op = "apply_feedback"
    BY <2>2 DEF Serving
  <2>10. c \in Calling(case)
    BY <2>2, <2>7, <2>9 DEF Calling, Applying, Case, k
  <2>11. QED
    BY <2>8, <2>10
<1>6. QED
  BY <1>1, <1>4, <1>5, StepEvolves

(***************************************************************************)
(* The loop of apply_feedback, its two appends, its retries and its races  *)
(* implement the promise about every case.                                 *)
(***************************************************************************)
LEMMA InitImplements ==
    ASSUME IInv, Init, NEW case \in CaseIds
    PROVE  Application(case)!Init
<1>1. StateNow(case) \in {"not_open", "not_applied", "pending_qualification", "conflict"}
  BY NothingAppliedAtFirst, Mapped, StateIs
<1>2. EligibleNow(case) \in BOOLEAN
  BY Mapped
<1>3. Calling(case) = {}
  BY DEF Calling, Init
<1>4. Told(case) = [c \in Client |-> "none"]
  BY DEF Told, Init, Applying, NoCall
<1>5. QED
  BY <1>1, <1>2, <1>3, <1>4 DEF Application!Init, StateNow, EligibleNow, Calling, Told

LEMMA NextImplements ==
    ASSUME IInv, Serving, Next, NEW case \in CaseIds
    PROVE  Application(case)!Next \/ UNCHANGED Application(case)!vars
<1>1. PICK c \in Client : StepOf(c)
  BY SomebodySteps
<1>2. Written(log')
  BY LogGrows, GrowingGrows
<1>3. CASE UNCHANGED <<log, pc, call, pending, at, loop, answer>>
  BY <1>3, StutterImplements
<1>4. QED
  BY <1>1, <1>2, <1>3, StepKinds, BeginsImplements, GoesOnImplements, EndsImplements,
     AppendEventImplements, RawImplements, FbAppendImplements

(***************************************************************************)
(* apply_feedback, with its loop, its two appends and its races, implements *)
(* the abstract case: each step of the repository is one of it or a stutter. *)
(***************************************************************************)
THEOREM SpecImplementsFeedbackCase == Spec => ImplementsFeedbackCase
<1> DEFINE First == \A case \in CaseIds : Application(case)!Init
           OneStep == \A case \in CaseIds : \/ UNCHANGED Application(case)!vars
                                            \/ Application(case)!Next
<1>1. Init => First
  BY InitIInv, InitImplements
<1>2. IInv /\ Serving /\ [Next]_vars => [OneStep]_vars
  BY NextImplements
<1>3. IInv /\ Serving /\ [Next]_vars => Serving'
  BY ServingKept
<1>4. Spec => []Serving
  BY <1>3, Invariance, InitServing, PTL DEF Spec
<1> HIDE DEF First, OneStep
<1>5. Spec => First /\ [][OneStep]_vars
  BY <1>1, <1>2, <1>4, Invariance, PTL DEF Spec
<1>6. QED
  BY <1>5 DEF ImplementsFeedbackCase, First, OneStep

-----------------------------------------------------------------------------
(***************************************************************************)
(* Giving up.  Grown is what the ledger gained and the database failed     *)
(* since the call began.  Every iteration but the one under way is paid    *)
(* for by one of these; the one under way will be, unless the call ends:   *)
(* it is still where it was decided, or its error was that the case is     *)
(* applied.                                                                *)
(***************************************************************************)
Grown(h, lp) == Len(h) - lp.begun + lp.faults

Paid(h, l, k, n, lp) ==
    \/ lp.tries <= Grown(h, lp)
    \/ l = "fb_create" /\ CasesCompatible(h) /\ ~HasRelation(h, FeedbackRelationId[k.case])
    \/ l = "fb_qualify"
    \/ l \in DOMAIN AfterAppend /\ n = Len(h)
    \/ l = "fb_recheck" /\ ApplicationState(h, k.case) = "applied"
    \/ l = "fb_confirm"

TallyOf(h, l, k, n, lp) ==
    l \notin {"idle", "append"} =>
        /\ lp.tries <= Grown(h, lp) + 1
        /\ Paid(h, l, k, n, lp)

Tally == \A c \in Client : TallyOf(log, pc[c], call[c], at[c], loop[c])

(***************************************************************************)
(* No event but a relation has the id of the relation of a case that       *)
(* clients apply.  (The run id_taken shows what happens otherwise.)        *)
(***************************************************************************)
RelationIdsFree ==
    \A k \in Menu :
        k.op = "apply_feedback" /\ ~HasRelation(log, FeedbackRelationId[k.case]) =>
            IdIsNew(log, [id |-> FeedbackRelationId[k.case]])

LEMMA TallyGrows ==
    ASSUME NEW h, NEW H, Len(h) \in Nat, Len(H) = Len(h) + 1, NEW l, NEW k, NEW n,
           NEW lp \in Loops, TallyOf(h, l, k, n, lp)
    PROVE  TallyOf(H, l, k, n, lp)
<1>1. CASE l \notin {"idle", "append"}
  <2>1. lp.tries <= Grown(h, lp) + 1
    BY <1>1 DEF TallyOf
  <2>2. Grown(H, lp) = Grown(h, lp) + 1 /\ Grown(h, lp) \in Int /\ lp.tries \in Nat
    BY DEF Grown, Loops
  <2>3. lp.tries <= Grown(H, lp) /\ lp.tries <= Grown(H, lp) + 1
    BY <2>1, <2>2
  <2>4. QED
    BY <2>3 DEF TallyOf, Paid
<1>2. QED
  BY <1>1 DEF TallyOf

LEMMA TallyKept ==
    ASSUME IInv, Serving, Tally, RelationIdsFree, NEW c \in Client, StepOf(c)
    PROVE  TallyOf(log', pc'[c], call'[c], at'[c], loop'[c])
<1> DEFINE k == call[c]
           lp == loop[c]
           rel == FeedbackRelationId[k.case]
<1>1. /\ pc \in [Client -> Places] /\ pc[c] \in Places
      /\ at \in [Client -> Nat] /\ loop \in [Client -> Loops] /\ lp \in Loops
      /\ DOMAIN call = Client /\ k \in Menu \cup {NoCall}
  BY DEF IInv, Shape
<1>2. Written(log) /\ IsLog(log) /\ Len(log) \in Nat
  BY LogFacts DEF IInv, Written
<1>3. /\ lp.tries \in Nat /\ lp.begun \in Nat /\ lp.faults \in Nat
      /\ lp = [tries |-> lp.tries, begun |-> lp.begun, own |-> lp.own, faults |-> lp.faults]
      /\ Grown(log, lp) \in Int
  BY <1>1, <1>2 DEF Loops, Grown
<1>4. TallyOf(log, pc[c], k, at[c], lp)
  BY DEF Tally
<1>5. pc[c] \notin {"idle", "append"} => k.op = "apply_feedback" /\ k \in Menu
  BY <1>1 DEF Serving, NoCall
<1>6. CASE \E a : Answer(c, a)
  BY <1>1, <1>6 DEF Answer, TallyOf
<1>7. CASE \E m \in Menu : Call(c, m)
  BY <1>1, <1>7 DEF Call, Build, Goto, TallyOf
<1>8. CASE \E m \in Menu : RawAppend(c, m)
  BY <1>1, <1>8 DEF RawAppend, TallyOf
<1>9. CASE \E m \in Menu : ApplyFeedback(c, m)
  <2>1. /\ log' = log /\ pc'[c] = "fb_loop"
        /\ loop'[c] = [NewLoop EXCEPT !.begun = Len(log)]
    BY <1>1, <1>9 DEF ApplyFeedback, Goto
  <2>2. loop'[c].tries = 0 /\ loop'[c].begun = Len(log) /\ loop'[c].faults = 0
    BY <2>1 DEF NewLoop
  <2>3. Grown(log, loop'[c]) = 0
    BY <1>2, <2>2 DEF Grown
  <2>4. QED
    BY <2>1, <2>2, <2>3 DEF TallyOf, Paid
<1>10. CASE FbIterate(c)
  <2>1. /\ pc[c] = "fb_loop" /\ log' = log /\ call' = call /\ CasesCompatible(log)
        /\ loop'[c] = [lp EXCEPT !.tries = @ + 1]
        /\ pc'[c] = IF ApplicationState(log, k.case) = "not_applied"
                    THEN "fb_create" ELSE "fb_qualify"
    BY <1>1, <1>10 DEF FbIterate, Iterating, Reads, Readable, Goto, Case
  <2>2. lp.tries <= Grown(log, lp)
    BY <1>4, <2>1 DEF TallyOf, Paid, AfterAppend
  <2>3. loop'[c].tries = lp.tries + 1 /\ loop'[c].begun = lp.begun /\ loop'[c].faults = lp.faults
    BY <1>1, <2>1 DEF Loops
  <2>4. Grown(log, loop'[c]) = Grown(log, lp)
    BY <2>3 DEF Grown
  <2>5. loop'[c].tries <= Grown(log, loop'[c]) + 1
    BY <1>3, <2>2, <2>3, <2>4
  <2>6. pc'[c] = "fb_create" => ~HasRelation(log, rel)
    BY <2>1 DEF ApplicationState
  <2>7. Paid(log, pc'[c], k, at'[c], loop'[c])
    BY <2>1, <2>6 DEF Paid
  <2>8. QED
    BY <2>1, <2>5, <2>7 DEF TallyOf
<1>11. CASE FbCreate(c)
  <2>1. pc[c] = "fb_create" /\ log' = log /\ call' = call /\ loop' = loop
    BY <1>11 DEF FbCreate, Reads
  <2>2. lp.tries <= Grown(log, lp) + 1 /\ Paid(log, "fb_create", k, at[c], lp)
    BY <1>4, <2>1 DEF TallyOf
  <2>3. CASE HasRelation(log, rel)
    <3>1. pc'[c] = "fb_recheck"
      BY <1>1, <1>11, <2>3 DEF FbCreate, Goto, Case
    <3>2. lp.tries <= Grown(log, lp)
      BY <2>2, <2>3 DEF Paid, AfterAppend
    <3>3. QED
      BY <2>1, <2>2, <3>1, <3>2 DEF TallyOf, Paid
  <2>4. CASE ~HasRelation(log, rel)
    <3>1. pc'[c] = "fb_append_relation" /\ at'[c] = Len(log)
      BY <1>1, <1>11, <2>4 DEF FbCreate, Build, Goto, Case
    <3>2. QED
      BY <2>1, <2>2, <3>1 DEF TallyOf, Paid, AfterAppend
  <2>5. QED
    BY <2>3, <2>4
<1>12. CASE FbQualifyLate(c)
  <2>1. /\ pc[c] = "fb_qualify" /\ log' = log /\ call' = call /\ loop' = loop
        /\ pc'[c] = "fb_recheck" /\ ApplicationState(log, k.case) = "applied"
    BY <1>1, <1>12 DEF FbQualifyLate, Reads, Goto, CaseApplied, Case
  <2>2. QED
    BY <1>4, <2>1 DEF TallyOf, Paid
<1>13. CASE FbQualify(c)
  <2>1. /\ pc[c] = "fb_qualify" /\ log' = log /\ call' = call /\ loop' = loop
        /\ pc'[c] = "fb_append_state" /\ at'[c] = Len(log)
    BY <1>1, <1>13 DEF FbQualify, Reads, Build, Goto
  <2>2. QED
    BY <1>4, <2>1 DEF TallyOf, Paid, AfterAppend
<1>14. CASE FbAppend(c)
  <2>1. /\ pc[c] \in {"fb_append_relation", "fb_append_state"}
        /\ log' = Append(log, pending[c]) /\ call' = call
        /\ loop'[c] = [lp EXCEPT !.own = @ + 1]
        /\ pc'[c] \in {"fb_loop", "fb_confirm"}
    BY <1>1, <1>14 DEF FbAppend, AfterAppend, Goto
  <2>2. lp.tries <= Grown(log, lp) + 1
    BY <1>4, <2>1 DEF TallyOf
  <2>3. loop'[c].tries = lp.tries /\ loop'[c].begun = lp.begun /\ loop'[c].faults = lp.faults
    BY <1>1, <2>1 DEF Loops
  <2>4. Len(log') = Len(log) + 1
    BY <1>2, <2>1, AppendFacts
  <2>5. Grown(log', loop'[c]) = Grown(log, lp) + 1
    BY <1>2, <1>3, <2>3, <2>4 DEF Grown
  <2>6. loop'[c].tries <= Grown(log', loop'[c]) /\ loop'[c].tries <= Grown(log', loop'[c]) + 1
    BY <1>3, <2>2, <2>3, <2>5
  <2>7. QED
    BY <2>6 DEF TallyOf, Paid
<1>15. CASE FbRefuse(c)
  <2>1. /\ pc[c] \in {"fb_append_relation", "fb_append_state"} /\ ~Appendable(c)
        /\ log' = log /\ call' = call /\ loop' = loop /\ pc'[c] = "fb_recheck"
    BY <1>1, <1>15 DEF FbRefuse, AfterAppend, Goto
  <2>2. ~HeadIsAt(c)
    <3>1. SUFFICES ASSUME HeadIsAt(c) PROVE IdIsNew(log, pending[c])
      BY <2>1 DEF Appendable
    <3>2. BuiltOn(log, pc[c], k, pending[c])
      BY <2>1, <3>1, PendingFits DEF Building
    <3>3. CASE pc[c] = "fb_append_relation"
      <4>1. ~HasRelation(log, rel) /\ pending[c] = FeedbackRelation(log, k.case)
        BY <3>2, <3>3 DEF BuiltOn
      <4>2. k \in Menu /\ k.op = "apply_feedback"
        BY <1>5, <3>3
      <4>3. IdIsNew(log, [id |-> rel])
        BY <4>1, <4>2 DEF RelationIdsFree
      <4>4. QED
        BY <4>1, <4>3 DEF IdIsNew, FeedbackRelation
    <3>4. CASE pc[c] = "fb_append_state"
      <4>1. pending[c] = [ev |-> "invalidated", relation |-> rel]
        BY <3>2, <3>4 DEF BuiltOn
      <4>2. QED
        BY <4>1 DEF IdIsNew
    <3>5. QED
      BY <2>1, <3>3, <3>4
  <2>3. lp.tries <= Grown(log, lp) /\ lp.tries <= Grown(log, lp) + 1
    BY <1>4, <2>1, <2>2 DEF TallyOf, Paid, HeadIsAt
  <2>4. QED
    BY <2>1, <2>3 DEF TallyOf, Paid
<1>16. CASE FbRecheck(c)
  <2>1. CASE Answer(c, "applied")
    BY <1>6, <2>1
  <2>2. CASE ~AppliedMeanwhile(c) /\ Goto(c, "fb_loop") /\ UNCHANGED <<call, pending, at, loop, answer>>
    <3>1. /\ pc[c] = "fb_recheck" /\ log' = log /\ call' = call /\ loop' = loop
          /\ pc'[c] = "fb_loop" /\ ApplicationState(log, k.case) # "applied"
      BY <1>1, <1>16, <2>2 DEF FbRecheck, Reads, Goto, AppliedMeanwhile, CaseApplied, Case
    <3>2. lp.tries <= Grown(log, lp) /\ lp.tries <= Grown(log, lp) + 1
      BY <1>4, <3>1 DEF TallyOf, Paid, AfterAppend
    <3>3. QED
      BY <3>1, <3>2 DEF TallyOf, Paid
  <2>3. QED
    BY <1>16, <2>1, <2>2 DEF FbRecheck
<1>17. CASE FbUnreadable(c)
  <2>1. CASE Answer(c, "none")
    BY <1>6, <2>1
  <2>2. CASE pc[c] = "fb_create" /\ Goto(c, "fb_recheck")
             /\ UNCHANGED <<call, pending, at, loop, answer>>
    <3>1. /\ ~CasesCompatible(log) /\ log' = log /\ call' = call /\ loop' = loop
          /\ pc'[c] = "fb_recheck"
      BY <1>1, <1>17, <2>2 DEF FbUnreadable, Goto, Readable
    <3>2. lp.tries <= Grown(log, lp) /\ lp.tries <= Grown(log, lp) + 1
      BY <1>4, <2>2, <3>1 DEF TallyOf, Paid, AfterAppend
    <3>3. QED
      BY <3>1, <3>2 DEF TallyOf, Paid
  <2>3. QED
    BY <1>17, <2>1, <2>2 DEF FbUnreadable
<1>18. CASE Fails(c)
  <2>1. CASE Answer(c, "none")
    BY <1>6, <2>1
  <2>2. CASE /\ pc[c] \in Caught /\ Goto(c, "fb_recheck") /\ call' = call
             /\ loop' = [loop EXCEPT ![c].faults = @ + 1]
    <3>1. /\ pc[c] \notin {"idle", "append"} /\ log' = log /\ pc'[c] = "fb_recheck"
          /\ loop'[c] = [lp EXCEPT !.faults = @ + 1]
      BY <1>1, <1>18, <2>2, FailsIs DEF Goto, Caught, AfterAppend
    <3>2. lp.tries <= Grown(log, lp) + 1
      BY <1>4, <3>1 DEF TallyOf
    <3>3. loop'[c].tries = lp.tries /\ loop'[c].begun = lp.begun
          /\ loop'[c].faults = lp.faults + 1
      BY <1>1, <3>1 DEF Loops
    <3>4. Grown(log', loop'[c]) = Grown(log, lp) + 1
      BY <1>2, <1>3, <3>1, <3>3 DEF Grown
    <3>5. loop'[c].tries <= Grown(log', loop'[c]) /\ loop'[c].tries <= Grown(log', loop'[c]) + 1
      BY <1>3, <3>2, <3>3, <3>4
    <3>6. QED
      BY <3>5 DEF TallyOf, Paid
  <2>3. QED
    BY <1>18, <2>1, <2>2, FailsIs DEF AccessFails
<1>19. CASE Aside(c)
  BY <1>4, <1>19, AsideIs
<1>20. QED
  BY <1>6, <1>7, <1>8, <1>9, <1>10, <1>11, <1>12, <1>13, <1>14, <1>15, <1>16, <1>17, <1>18, <1>19
     DEF StepOf, Proceed, AppendEvent, RefuseAppend, FbGiveUp, FbAlready, FbRaise,
         FbQualifyRaise, FbConfirm, Crash, Fails

LEMMA NextTally ==
    ASSUME IInv, Serving, Tally, RelationIdsFree, [Next]_vars
    PROVE  Tally'
<1>1. CASE UNCHANGED vars
  BY <1>1 DEF vars, Tally
<1>2. ASSUME NEW c \in Client, StepOf(c)
      PROVE  Tally'
  <2>1. Moves(c)
    BY <1>2, StepMoves
  <2>2. ASSUME NEW d \in Client
        PROVE  TallyOf(log', pc'[d], call'[d], at'[d], loop'[d])
    <3>1. CASE d = c
      BY <1>2, <3>1, TallyKept
    <3>2. CASE d # c
      <4>1. /\ pc'[d] = pc[d] /\ call'[d] = call[d] /\ at'[d] = at[d] /\ loop'[d] = loop[d]
        BY <2>1, <3>2 DEF Moves
      <4>2. TallyOf(log, pc[d], call[d], at[d], loop[d]) /\ loop[d] \in Loops
        BY DEF Tally, IInv, Shape
      <4>3. CASE log' = log
        BY <4>1, <4>2, <4>3
      <4>4. CASE \E e : log' = Append(log, e)
        <5>1. Len(log) \in Nat /\ Len(log') = Len(log) + 1
          BY <4>4, LogFacts, AppendFacts DEF IInv, Written
        <5>2. QED
          BY <4>1, <4>2, <5>1, TallyGrows
      <4>5. QED
        BY <2>1, <4>3, <4>4 DEF Moves, Growing
    <3>3. QED
      BY <3>1, <3>2
  <2>3. QED
    BY <2>2 DEF Tally
<1>3. QED
  BY <1>1, <1>2, SomebodySteps

(***************************************************************************)
(* While a call runs it has given no answer.                               *)
(***************************************************************************)
Unanswered == \A c \in Client : pc[c] # "idle" => answer[c] = "none"

LEMMA NextUnanswered ==
    ASSUME IInv, Serving, Unanswered, [Next]_vars
    PROVE  Unanswered'
<1>1. CASE UNCHANGED vars
  BY <1>1 DEF vars, Unanswered
<1>2. ASSUME NEW c \in Client, StepOf(c)
      PROVE  Unanswered'
  <2>1. DOMAIN pc = Client /\ DOMAIN answer = Client
    BY DEF IInv, Shape
  <2>2. CASE Begins(c)
    BY <2>1, <2>2 DEF Begins, Unanswered
  <2>3. CASE GoesOn(c)
    BY <2>1, <2>3 DEF GoesOn, Unanswered
  <2>4. CASE \E a : Answer(c, a)
    BY <2>1, <2>4 DEF Answer, Unanswered
  <2>5. CASE FbAppend(c)
    BY <2>1, <2>5 DEF FbAppend, Goto, AfterAppend, Unanswered
  <2>6. CASE \E k \in Menu : RawAppend(c, k)
    BY <2>6 DEF RawAppend, Unanswered
  <2>7. CASE UNCHANGED <<log, pc, call, pending, at, loop, answer>>
    BY <2>7 DEF Unanswered
  <2>8. QED
    BY <1>2, <2>2, <2>3, <2>4, <2>5, <2>6, <2>7, StepKinds DEF Ends, AppendEvent
<1>3. QED
  BY <1>1, <1>2, SomebodySteps

LEMMA GivesUpLast ==
    ASSUME IInv, Serving, Unanswered, Next,
           NEW c \in Client, pc[c] = "fb_loop", answer'[c] = "gave_up"
    PROVE  loop[c].tries = Tries
<1>1. PICK d \in Client : StepOf(d)
  BY SomebodySteps
<1>2. DOMAIN pc = Client /\ DOMAIN answer = Client
  BY DEF IInv, Shape
<1>3. answer[c] = "none"
  BY DEF Unanswered
<1>4. d = c
  <2> SUFFICES ASSUME d # c PROVE answer'[c] = answer[c]
    BY <1>3
  <2>1. CASE \E a : Answer(d, a)
    BY <1>2, <2>1 DEF Answer
  <2>2. CASE Begins(d) \/ GoesOn(d) \/ FbAppend(d) \/ \E k \in Menu : RawAppend(d, k)
    BY <1>2, <2>2 DEF Begins, GoesOn, FbAppend, RawAppend
  <2>3. QED
    BY <1>1, <2>1, <2>2, StepKinds DEF Ends, AppendEvent
<1>5. answer'[c] # answer[c]
  BY <1>3
<1>6. CASE \E a \in Answers \ {"gave_up"} : Answer(c, a)
  BY <1>2, <1>6 DEF Answer
<1>7. CASE FbGiveUp(c)
  BY <1>7 DEF FbGiveUp
<1>8. QED
  <2>1. \/ \E k \in Menu : Call(c, k) \/ RawAppend(c, k) \/ ApplyFeedback(c, k)
        \/ Proceed(c) \/ Fails(c) \/ Crash(c) \/ Aside(c)
    BY <1>1, <1>4 DEF StepOf
  <2>2. ~\E k \in Menu : Call(c, k) \/ RawAppend(c, k) \/ ApplyFeedback(c, k)
    BY <1>5 DEF Call, RawAppend, ApplyFeedback
  <2>3. {"none", "applied", "ineligible", "unknown"} \subseteq Answers \ {"gave_up"}
    BY DEF Answers
  <2>4. CASE Fails(c) \/ Crash(c) \/ Aside(c)
    BY <1>5, <1>6, <2>3, <2>4, FailsIs, AsideIs DEF AccessFails, Crash
  <2>5. CASE FbAlready(c) \/ FbRaise(c) \/ FbUnreadable(c)
    BY <1>5, <1>6, <2>3, <2>5 DEF FbAlready, FbRaise, FbUnreadable
  <2>6. CASE FbIterate(c)
    BY <1>5, <2>6 DEF FbIterate
  <2>7. QED
    BY <1>7, <2>1, <2>2, <2>4, <2>5, <2>6
       DEF Proceed, AppendEvent, RefuseAppend, FbCreate, FbQualifyLate, FbQualifyRaise, FbQualify,
           FbAppend, FbRefuse, FbRecheck, FbConfirm, Reads, AfterAppend, Fails

(***************************************************************************)
(* apply_feedback (causal.py) gives up only after at least three appends   *)
(* of others or failures of the database during the call, as long as no    *)
(* event of another kind has the id of its relation: of four iterations    *)
(* one at most was spent on the client's own relation.                     *)
(***************************************************************************)
THEOREM SpecGivesUpOnlyWhenRaced == Spec /\ []RelationIdsFree => GivesUpOnlyWhenRaced
<1> DEFINE GivesUp == \A c \in Client : pc[c] = "fb_loop" /\ answer'[c] = "gave_up" =>
                          Len(log) - loop[c].begun - loop[c].own + loop[c].faults >= 3
<1>1. Init => Tally /\ Unanswered
  BY DEF Init, Tally, TallyOf, Unanswered
<1>2. IInv /\ Serving /\ Tally /\ RelationIdsFree /\ [Next]_vars => Tally'
  BY NextTally
<1>3. IInv /\ Serving /\ Unanswered /\ [Next]_vars => Unanswered'
  BY NextUnanswered
<1>4. IInv /\ Serving /\ [Next]_vars => Serving'
  BY ServingKept
<1>5. IInv /\ Serving /\ Tally /\ Unanswered /\ [Next]_vars => [GivesUp]_vars
  <2> SUFFICES ASSUME IInv, Serving, Tally, Unanswered, Next,
                      NEW c \in Client, pc[c] = "fb_loop", answer'[c] = "gave_up"
               PROVE  Len(log) - loop[c].begun - loop[c].own + loop[c].faults >= 3
    OBVIOUS
  <2>1. loop[c].tries = 4
    BY GivesUpLast DEF Tries
  <2>2. loop[c].tries <= Len(log) - loop[c].begun + loop[c].faults
    BY DEF Tally, TallyOf, Paid, Grown, AfterAppend
  <2>3. loop[c].own \in {0, 1}
    BY DEF IInv, ClientOn, LoopOn
  <2>4. Len(log) \in Nat /\ loop[c].begun \in Nat /\ loop[c].faults \in Nat
    BY LogFacts DEF IInv, Written, Shape, Loops
  <2> DEFINE n == Len(log)
             lp == loop[c]
  <2>5. n \in Nat /\ lp.begun \in Nat /\ lp.faults \in Nat /\ lp.own \in {0, 1}
    BY <2>3, <2>4
  <2>6. 4 <= n - lp.begun + lp.faults
    BY <2>1, <2>2
  <2> HIDE DEF n
  <2>7. n - lp.begun - lp.own + lp.faults >= 3
    BY ONLY <2>5, <2>6
  <2>8. QED
    BY <2>7 DEF n
<1>6. QED
  BY <1>1, <1>2, <1>3, <1>4, <1>5, InitServing, Invariance, PTL DEF Spec, GivesUpOnlyWhenRaced

-----------------------------------------------------------------------------
(***************************************************************************)
(* What the edges of an explanation connect.                               *)
(***************************************************************************)
BindingKinds ==
    {"verification_subject", "verification_evidence", "gate_request_input",
     "gate_evaluated_input", "release_subject", "release_gate", "runtime_release",
     "runtime_evidence", "feedback_observation", "feedback_target"}

EdgeKinds ==
    {"qualified_dependency", "invalidation_cause", "supersession_cause"} \cup BindingKinds

LEMMA BindingsKnown ==
    ASSUME NEW h, Written(h), NEW i \in Created(h, "record"), NEW x \in Bindings(h[i])
    PROVE  x[1] \in BindingKinds /\ x[2] \in RecordIds(h)
<1>1. /\ IsLog(h) /\ Unique(h) /\ i \in DOMAIN h /\ h[i].ev = "record"
      /\ HasRecord(h, h[i].id) /\ RecordAt(h, h[i].id) = i
  <2>1. i \in DOMAIN h /\ h[i].ev = "record"
    BY DEF Created
  <2>2. QED
    BY <2>1, AtPlace, RecordAtPlace
<1>2. PICK e : e = h[i]
  OBVIOUS
<1> DEFINE b == e.body
           Known(id) == BoundBefore(h, i, id)
<1>3. \A id : Known(id) => id \in RecordIds(h)
  BY <1>1, KnownBefore, KnownRecord
<1>4. CASE e.type = "VerificationReceipt"
  <2>1. Bindings(e) = Each("verification_subject", {b.subject})
                          \cup Each("verification_evidence", b.evidence)
    BY <1>4 DEF Bindings
  <2>2. \A id \in {b.subject} \cup b.evidence : Known(id)
    BY <1>2, <1>4, RecordOfWritten DEF ReceiptReplays
  <2>3. QED
    BY <1>2, <1>3, <2>1, <2>2 DEF Each, BindingKinds
<1>5. CASE e.type = "GateRequest"
  <2>1. Bindings(e) = Each("gate_request_input", {b.subject, b.policy} \cup b.receipts)
    BY <1>5 DEF Bindings
  <2>2. \A id \in {b.subject, b.policy} \cup b.receipts : Known(id)
    BY <1>2, <1>5, RecordOfWritten DEF RequestReplays, BoundAs
  <2>3. QED
    BY <1>2, <1>3, <2>1, <2>2 DEF Each, BindingKinds
<1>6. CASE e.type = "GateDecision"
  <2>1. Bindings(e) = Each("gate_evaluated_input", DOMAIN b.inputs)
    BY <1>6 DEF Bindings
  <2>2. IsOfType(h, e.id, "GateDecision") /\ Body(h, e.id) = b
    BY <1>1, <1>2, <1>6, RecordAtPlace DEF IsOfType, Body
  <2>3. PICK p : /\ Written(p) /\ Grows(p, h) /\ MayEvaluate(p, b.request)
                 /\ b = Evaluate(p, States(p), b.request)
    BY <2>2, EvaluatedBefore
  <2>4. PICK q, sp : q = b.request /\ sp = States(p)
    OBVIOUS
  <2>5. DOMAIN b.inputs = Inputs(p, q)
    <3>1. b = Evaluate(p, sp, q)
      BY <2>3, <2>4
    <3>2. b.inputs = [x1 \in Inputs(p, q) |-> sp[x1]]
      BY <3>1 DEF Evaluate
    <3>3. QED
      BY <3>2
  <2>6. \A id \in DOMAIN b.inputs : id \in RecordIds(h)
    BY <1>1, <2>3, <2>4, <2>5, InputsKnown, RecordIdStays
  <2>7. QED
    BY <1>2, <2>1, <2>6 DEF Each, BindingKinds
<1>7. CASE e.type = "Release"
  <2>1. Bindings(e) = Each("release_subject", {b.subject})
                          \cup Each("release_gate", {b.decision})
    BY <1>7 DEF Bindings
  <2>2. b.subject \in RecordIds(h) /\ b.decision \in RecordIds(h)
    <3> DEFINE p == Prefix(h, i - 1)
    <3>1. ReleaseReplays(h, i) /\ Written(p) /\ IsLog(p) /\ Grows(p, h)
      BY <1>1, <1>2, <1>7, RecordOfWritten, AtPlace
    <3>2. IsOfType(p, b.subject, "ChangeSet") /\ IsOfType(p, b.decision, "GateDecision")
      BY <1>2, <3>1 DEF ReleaseReplays, ReleaseAuthorized
    <3> HIDE DEF p
    <3>3. HasRecord(p, b.subject) /\ HasRecord(p, b.decision)
      BY <3>2 DEF IsOfType
    <3>4. QED
      BY <3>1, <3>3, KnownRecord, RecordIdStays
  <2>3. QED
    BY <1>2, <2>1, <2>2 DEF Each, BindingKinds
<1>8. CASE e.type = "RuntimeObservation"
  <2>1. Bindings(e) = Each("runtime_release", {b.release})
                          \cup Each("runtime_evidence", b.evidence)
    BY <1>8 DEF Bindings
  <2>2. \A id \in {b.release} \cup b.evidence : Known(id)
    BY <1>2, <1>8, RecordOfWritten DEF ObservationReplays, BoundAs
  <2>3. QED
    BY <1>2, <1>3, <2>1, <2>2 DEF Each, BindingKinds
<1>9. CASE e.type = "FeedbackCase"
  <2>1. Bindings(e) = Each("feedback_observation", {b.observation})
                          \cup Each("feedback_target", {b.target})
    BY <1>9 DEF Bindings
  <2>2. Known(b.observation) /\ Known(b.target)
    BY <1>2, <1>9, RecordOfWritten DEF CaseReplays, BoundAs
  <2>3. QED
    BY <1>2, <1>3, <2>1, <2>2 DEF Each, BindingKinds
<1>10. CASE e.type \notin {"VerificationReceipt", "GateRequest", "GateDecision", "Release",
                           "RuntimeObservation", "FeedbackCase"}
  <2>1. Bindings(e) = {}
    BY <1>10 DEF Bindings
  <2>2. QED
    BY <1>2, <2>1
<1>11. QED
  BY <1>4, <1>5, <1>6, <1>7, <1>8, <1>9, <1>10

LEMMA StateEdgeIs ==
    ASSUME NEW h, NEW i \in Activations(h)
    PROVE  /\ h[i].ev = "bound" => StateEdge(h, i) =
                  Edge(RelOf(h, i).source, RelOf(h, i).target, "qualified_dependency", i)
           /\ h[i].ev = "invalidated" => StateEdge(h, i) =
                  Edge(RelOf(h, i).target, RelOf(h, i).source, "invalidation_cause", i)
           /\ h[i].ev = "superseded" => StateEdge(h, i) =
                  Edge(RelOf(h, i).target, RelOf(h, i).source, "supersession_cause", i)
           /\ h[i].ev \in {"bound", "invalidated", "superseded"}
<1>1. h[i].ev \in {"bound", "invalidated", "superseded"}
  BY DEF Activations, RelationTypeFor
<1>2. h[i].ev = "bound" => StateEdge(h, i) =
          Edge(RelOf(h, i).source, RelOf(h, i).target, "qualified_dependency", i)
  BY DEF StateEdge
<1>3. h[i].ev = "invalidated" => StateEdge(h, i) =
          Edge(RelOf(h, i).target, RelOf(h, i).source, "invalidation_cause", i)
  BY DEF StateEdge
<1>4. h[i].ev = "superseded" => StateEdge(h, i) =
          Edge(RelOf(h, i).target, RelOf(h, i).source, "supersession_cause", i)
  BY DEF StateEdge
<1>5. QED
  BY <1>1, <1>2, <1>3, <1>4

LEMMA EdgesKnown ==
    ASSUME NEW h, Written(h)
    PROVE  /\ IsFiniteSet(ExplainEdges(h))
           /\ \A e \in ExplainEdges(h) :
                  /\ e.from \in RecordIds(h) /\ e.to \in RecordIds(h)
                  /\ e.at \in DOMAIN h /\ e.at \in Nat
                  /\ e = Edge(e.from, e.to, e.kind, e.at)
<1> DEFINE R == RecordIds(h)
           D == 1 .. Len(h)
           All == [from : R, to : R, kind : EdgeKinds, at : D]
<1>1. /\ IsLog(h) /\ Unique(h) /\ Len(h) \in Nat /\ DOMAIN h = D /\ Grows(h, h)
  <2>1. IsLog(h)
    BY DEF Written
  <2>2. QED
    BY <2>1, LogFacts, WrittenUnique DEF Grows
<1>2. ASSUME NEW i \in Activations(h) PROVE StateEdge(h, i) \in All
  <2>1. RelOf(h, i).source \in R /\ RelOf(h, i).target \in R /\ i \in D
    BY <1>1, RelOfStays, KnownRecord DEF Activations
  <2>2. \A x, y \in R, k \in EdgeKinds : Edge(x, y, k, i) \in All
    BY <2>1 DEF Edge
  <2> HIDE DEF R, All
  <2>3. QED
    BY <2>1, <2>2, StateEdgeIs DEF EdgeKinds
<1>3. ASSUME NEW i \in Created(h, "record"), NEW x \in Bindings(h[i])
      PROVE  Edge(h[i].id, x[2], x[1], i) \in All
  <2>1. x[1] \in EdgeKinds /\ x[2] \in R
    BY BindingsKnown DEF EdgeKinds
  <2>2. h[i].id \in R /\ i \in D
    BY <1>1 DEF RecordIds, Created
  <2>3. QED
    BY <2>1, <2>2 DEF Edge
<1>4. ExplainEdges(h) \in SUBSET All
  <2> HIDE DEF All
  <2>1. QED
    BY <1>2, <1>3 DEF ExplainEdges
<1>5. IsFiniteSet(All)
  <2> DEFINE S == (R \X R) \X (EdgeKinds \X D)
             f == [x \in S |-> [from |-> x[1][1], to |-> x[1][2],
                                kind |-> x[2][1], at |-> x[2][2]]]
  <2>1. IsFiniteSet(D)
    BY <1>1, FS_Interval
  <2>2. IsFiniteSet(R)
    <3> DEFINE C == Created(h, "record")
               g == [i \in C |-> h[i].id]
    <3>1. IsFiniteSet(C)
      BY <1>1, <2>1, FS_Subset DEF Created
    <3>2. g \in Surjection(C, R)
      <4>1. R = {h[i].id : i \in C}
        BY DEF RecordIds
      <4> HIDE DEF R, C
      <4>2. QED
        BY <4>1 DEF Surjection
    <3>3. QED
      <4> HIDE DEF R, C, g
      <4>1. QED
        BY <3>1, <3>2, FS_Surjection
  <2>3. IsFiniteSet(EdgeKinds)
    <3>1. \A X, x : IsFiniteSet(X) => IsFiniteSet(X \cup {x})
      BY FS_AddElement
    <3>2. EdgeKinds = (((((((((((({"qualified_dependency"} \cup {"invalidation_cause"})
              \cup {"supersession_cause"}) \cup {"verification_subject"})
              \cup {"verification_evidence"}) \cup {"gate_request_input"})
              \cup {"gate_evaluated_input"}) \cup {"release_subject"}) \cup {"release_gate"})
              \cup {"runtime_release"}) \cup {"runtime_evidence"})
              \cup {"feedback_observation"}) \cup {"feedback_target"})
      BY DEF EdgeKinds, BindingKinds
    <3>3. IsFiniteSet({"qualified_dependency"})
      BY FS_Singleton
    <3>4. QED
      BY <3>1, <3>2, <3>3, Zenon
  <2>4. IsFiniteSet(R \X R) /\ IsFiniteSet(EdgeKinds \X D)
    <3> HIDE DEF R, D
    <3>1. QED
      BY <2>1, <2>2, <2>3, FS_Product
  <2>5. IsFiniteSet(S)
    <3> HIDE DEF R, D
    <3>1. QED
      BY <2>4, FS_Product
  <2>6. f \in Surjection(S, All)
    <3> HIDE DEF R, D
    <3>1. ASSUME NEW x \in S PROVE f[x] \in All
      OBVIOUS
    <3>2. ASSUME NEW y \in All PROVE \E x \in S : f[x] = y
      <4>1. << <<y.from, y.to>>, <<y.kind, y.at>> >> \in S
        OBVIOUS
      <4>2. f[<< <<y.from, y.to>>, <<y.kind, y.at>> >>] = y
        BY <4>1
      <4>3. QED
        BY <4>1, <4>2
    <3>3. f \in [S -> All]
      BY <3>1
    <3> HIDE DEF S, f, All
    <3>4. QED
      BY <3>2, <3>3 DEF Surjection
  <2>7. QED
    <3> HIDE DEF S, f, All
    <3>1. QED
      BY <2>5, <2>6, FS_Surjection
<1>6. IsFiniteSet(ExplainEdges(h))
  <2> HIDE DEF All
  <2>1. QED
    BY <1>4, <1>5, FS_Subset
<1>7. \A e \in All : /\ e.from \in R /\ e.to \in R /\ e.at \in D /\ e.at \in Nat
                     /\ e = Edge(e.from, e.to, e.kind, e.at)
  BY DEF Edge
<1>8. QED
  <2> HIDE DEF All, D
  <2>1. QED
    BY <1>1, <1>4, <1>6, <1>7

LEMMA RecordsFinite ==
    ASSUME NEW h, IsLog(h)
    PROVE  IsFiniteSet(RecordIds(h))
<1> DEFINE C == Created(h, "record")
           R == RecordIds(h)
           g == [i \in C |-> h[i].id]
<1>1. Len(h) \in Nat /\ DOMAIN h = 1 .. Len(h)
  BY LogFacts
<1>2. IsFiniteSet(1 .. Len(h))
  BY <1>1, FS_Interval
<1>3. IsFiniteSet(C)
  BY <1>1, <1>2, FS_Subset DEF Created
<1>4. g \in Surjection(C, R)
  <2>1. R = {h[i].id : i \in C}
    BY DEF RecordIds
  <2> HIDE DEF R, C
  <2>2. QED
    BY <2>1 DEF Surjection
<1>5. QED
  <2> HIDE DEF C, R, g
  <2>1. IsFiniteSet(R)
    BY <1>3, <1>4, FS_Surjection
  <2>2. QED
    BY <2>1 DEF R

LEMMA BackwardsIs ==
    ASSUME NEW e
    PROVE  /\ Backwards(e).from = e.to /\ Backwards(e).to = e.from
           /\ Backwards(e).kind = e.kind /\ Backwards(e).at = e.at
BY DEF Backwards, Edge

LEMMA ExplainSearchable ==
    ASSUME NEW h, Written(h), NEW r \in RecordIds(h)
    PROVE  /\ Searchable(Outgoing(ExplainEdges(h), r), r, {})
           /\ Searchable(Incoming(ExplainEdges(h), r), r, {})
<1> DEFINE edges == ExplainEdges(h)
           X == Mentioned(edges, r)
           out == Outgoing(edges, r)
           in == Incoming(edges, r)
<1>1. /\ IsFiniteSet(edges)
      /\ \A e \in edges : e.from \in RecordIds(h) /\ e.to \in RecordIds(h) /\ e.at \in Nat
  BY EdgesKnown
<1>2. \A e \in edges : Backwards(e).to = e.from /\ Backwards(e).at = e.at
  BY BackwardsIs
<1> HIDE DEF edges
<1>3. IsFiniteSet(X) /\ r \in X
  <2>1. X \in SUBSET RecordIds(h)
    BY <1>1 DEF Mentioned
  <2>2. IsFiniteSet(RecordIds(h))
    BY RecordsFinite DEF Written
  <2>3. QED
    BY <2>1, <2>2, FS_Subset DEF Mentioned
<1>4. DOMAIN out = X /\ DOMAIN in = X
  BY DEF Outgoing, Incoming
<1>5. \A e \in edges : e.from \in X /\ e.to \in X
  BY DEF Mentioned
<1> HIDE DEF X
<1>6. ASSUME NEW x \in X
      PROVE  Dated(out[x]) /\ \A e \in out[x] : e.to \in X
  <2>1. out[x] = {e \in edges : e.from = x}
    BY DEF Outgoing, X
  <2>2. IsFiniteSet(out[x])
    BY <1>1, <2>1, FS_Subset
  <2>3. QED
    BY <1>1, <1>5, <2>1, <2>2 DEF Dated
<1>7. ASSUME NEW x \in X
      PROVE  Dated(in[x]) /\ \A e \in in[x] : e.to \in X
  <2> DEFINE F == {f \in edges : f.to = x}
             B == {Backwards(e) : e \in F}
             g == [e \in F |-> Backwards(e)]
  <2>1. in[x] = B
    BY DEF Incoming, X
  <2>2. IsFiniteSet(F)
    BY <1>1, FS_Subset
  <2>3. g \in Surjection(F, B)
    <3> HIDE DEF F
    <3>1. QED
      BY DEF Surjection
  <2>4. IsFiniteSet(B)
    <3> HIDE DEF F, B, g
    <3>1. QED
      BY <2>2, <2>3, FS_Surjection
  <2>5. \A e \in B : e.at \in Nat /\ e.to \in X
    BY <1>1, <1>2, <1>5
  <2> HIDE DEF B
  <2>6. QED
    BY <2>1, <2>4, <2>5 DEF Dated
<1> HIDE DEF out, in
<1>8. QED
  BY <1>3, <1>4, <1>6, <1>7 DEF Searchable, out, in, edges

LEMMA NeighborsSearchable ==
    ASSUME NEW h, Written(h), NEW r \in RecordIds(h), NEW q, r # q, NEW dir, NEW types
    PROVE  Searchable([id \in RecordIds(h) |-> Neighbors(h, id, dir, types)], r, {q})
<1> DEFINE R == RecordIds(h)
           next == [id \in R |-> Neighbors(h, id, dir, types)]
           D == Created(h, "relation")
           out == [i \in D |-> Step(h, i, "outbound")]
           in == [i \in D |-> Step(h, i, "inbound")]
           All == {out[i] : i \in D} \cup {in[i] : i \in D}
<1>1. IsLog(h) /\ Len(h) \in Nat /\ DOMAIN h = 1 .. Len(h)
  BY LogFacts DEF Written
<1>2. ASSUME NEW i \in D PROVE h[i].source \in R /\ h[i].target \in R /\ i \in Nat
  <2>1. i \in Nat
    BY <1>1 DEF Created
  <2>2. QED
    BY <1>1, <2>1, RelationEnds, KnownRecord
<1>3. IsFiniteSet(D)
  <2>1. IsFiniteSet(1 .. Len(h))
    BY <1>1, FS_Interval
  <2>2. QED
    BY <1>1, <2>1, FS_Subset DEF Created
<1>4. IsFiniteSet(All)
  <2> HIDE DEF D
  <2>1. out \in Surjection(D, {out[i] : i \in D}) /\ in \in Surjection(D, {in[i] : i \in D})
    BY DEF Surjection
  <2> HIDE DEF out, in
  <2>2. IsFiniteSet({out[i] : i \in D}) /\ IsFiniteSet({in[i] : i \in D})
    BY <1>3, <2>1, FS_Surjection
  <2>3. QED
    BY <2>2, FS_Union
<1>5. ASSUME NEW e \in All PROVE e.to \in R /\ e.at \in Nat
  <2> HIDE DEF R, D
  <2>1. CASE e \in {out[i] : i \in D}
    BY <1>2, <2>1 DEF Step
  <2>2. CASE e \in {in[i] : i \in D}
    BY <1>2, <2>2 DEF Step
  <2>3. QED
    BY <2>1, <2>2
<1>6. ASSUME NEW id \in R PROVE next[id] \in SUBSET All
  <2>1. next[id] = Neighbors(h, id, dir, types)
    OBVIOUS
  <2>2. \A e \in Neighbors(h, id, dir, types) :
            \E i \in D : e = Step(h, i, "outbound") \/ e = Step(h, i, "inbound")
    BY DEF Neighbors
  <2> HIDE DEF D, next
  <2>3. QED
    BY <2>1, <2>2
<1> HIDE DEF All
<1>7. ASSUME NEW id \in R PROVE Dated(next[id])
  <2>1. IsFiniteSet(next[id])
    BY <1>4, <1>6, FS_Subset
  <2>2. QED
    BY <1>5, <1>6, <2>1 DEF Dated
<1>8. IsFiniteSet(R)
  BY <1>1, RecordsFinite
<1>9. DOMAIN next = R
  OBVIOUS
<1> HIDE DEF R, next
<1>10. Searchable(next, r, {q})
  BY <1>5, <1>6, <1>7, <1>8, <1>9 DEF Searchable, R
<1>11. QED
  BY <1>10 DEF next, R

-----------------------------------------------------------------------------
(***************************************************************************)
(* A simple path comes to as many records as it has steps, and itself to   *)
(* each of them over steps of its own.  So no simple path is cut off at a  *)
(* depth of the number of records, and what a set of steps leads to is     *)
(* what simple paths of those steps lead to.                               *)
(***************************************************************************)
LEMMA StepsOfLonger ==
    ASSUME NEW T, NEW p \in Seq(T), NEW e \in T
    PROVE  Range(Append(p, e)) = Range(p) \cup {e}
<1>1. PICK z : z = Append(p, e)
  OBVIOUS
<1>2. /\ z \in Seq(T) /\ Len(z) = Len(p) + 1 /\ Len(p) \in Nat
      /\ \A i \in 1 .. Len(p) : z[i] = p[i]
      /\ z[Len(p) + 1] = e
  BY <1>1, AppendProperties
<1>3. DOMAIN z = 1 .. Len(p) + 1 /\ DOMAIN p = 1 .. Len(p)
  BY <1>2
<1>4. \A n \in 1 .. Len(p) + 1 : n = Len(p) + 1 \/ n \in 1 .. Len(p)
  BY <1>2
<1>5. \A n \in 1 .. Len(p) : n \in 1 .. Len(p) + 1
  BY <1>2
<1>6. Len(p) + 1 \in 1 .. Len(p) + 1
  BY <1>2
<1>7. {z[n] : n \in 1 .. Len(p) + 1} = {p[n] : n \in 1 .. Len(p)} \cup {e}
  BY <1>2, <1>4, <1>5, <1>6
<1>8. QED
  BY <1>1, <1>3, <1>7 DEF Range

LEMMA SimpleFacts ==
    ASSUME NEW adjacent, NEW start, NEW until, Searchable(adjacent, start, until),
           NEW n \in Nat, NEW p0 \in SimplePaths(adjacent, start, until, n)
    PROVE  /\ On(start, p0) \in SUBSET DOMAIN adjacent /\ IsFiniteSet(On(start, p0))
           /\ Cardinality(On(start, p0)) = Len(p0) + 1
           /\ EndOf(start, p0) \in On(start, p0)
           /\ \A x \in On(start, p0) : \E q \in SimplePaths(adjacent, start, until, n) :
                  EndOf(start, q) = x /\ Range(q) \subseteq Range(p0)
<1> DEFINE P == SimplePaths(adjacent, start, until, n)
           Fine(p) == /\ On(start, p) \in SUBSET DOMAIN adjacent /\ IsFiniteSet(On(start, p))
                      /\ Cardinality(On(start, p)) = Len(p) + 1
                      /\ EndOf(start, p) \in On(start, p)
                      /\ \A x \in On(start, p) : \E q \in P :
                             EndOf(start, q) = x /\ Range(q) \subseteq Range(p)
           N == {k \in Nat : \A p \in P : Len(p) <= k => Fine(p)}
<1>1. \A p \in P : p \in Seq(StepsOf(adjacent)) /\ Len(p) \in Nat
  BY PathFacts
<1>2. <<>> \in P /\ Fine(<<>>)
  <2>1. <<>> \in P
    BY PathFacts
  <2>2. EndOf(start, <<>>) = start /\ On(start, <<>>) = {start} /\ Len(<<>>) = 0
    BY DEF EndOf, On
  <2>3. start \in DOMAIN adjacent
    BY DEF Searchable
  <2>4. IsFiniteSet({start}) /\ Cardinality({start}) = 1
    BY FS_Singleton
  <2>5. ASSUME NEW x \in On(start, <<>>)
        PROVE  \E q \in P : EndOf(start, q) = x /\ Range(q) \subseteq Range(<<>>)
    <3>1. EndOf(start, <<>>) = x
      BY <2>2
    <3> HIDE DEF P
    <3>2. QED
      BY <2>1, <3>1
  <2>6. /\ On(start, <<>>) \in SUBSET DOMAIN adjacent /\ IsFiniteSet(On(start, <<>>))
        /\ EndOf(start, <<>>) \in On(start, <<>>)
    BY <2>2, <2>3, <2>4
  <2>7. Cardinality(On(start, <<>>)) = Len(<<>>) + 1
    <3>1. Cardinality(On(start, <<>>)) = 1
      BY <2>2, <2>4, Zenon
    <3>2. Len(<<>>) + 1 = 1
      BY <2>2
    <3>3. QED
      BY ONLY <3>1, <3>2
  <2> HIDE DEF P
  <2>8. QED
    BY <2>1, <2>5, <2>6, <2>7
<1>3. ASSUME NEW p \in P, Len(p) <= 0 PROVE Fine(p)
  <2>1. Len(p) = 0 /\ p \in Seq(StepsOf(adjacent))
    BY <1>1, <1>3
  <2>2. p = <<>>
    BY <2>1, EmptySeq
  <2>3. QED
    BY <1>2, <2>2
<1>4. ASSUME NEW k \in N PROVE k + 1 \in N
  <2>1. k \in Nat /\ k + 1 \in Nat
    OBVIOUS
  <2>2. ASSUME NEW z \in P, Len(z) <= k + 1, z # <<>> PROVE Fine(z)
    <3>1. PICK p \in P : \E e \in adjacent[EndOf(start, p)] :
                   /\ EndOf(start, p) \notin until
                   /\ e.to \notin On(start, p)
                   /\ z = Append(p, e)
                   /\ Len(p) < n /\ Len(z) = Len(p) + 1
      BY <2>2, PathCameFrom
    <3>2. PICK e \in adjacent[EndOf(start, p)] :
                   /\ EndOf(start, p) \notin until
                   /\ e.to \notin On(start, p)
                   /\ z = Append(p, e)
                   /\ Len(p) < n /\ Len(z) = Len(p) + 1
      BY <3>1
    <3>3. Len(p) \in Nat /\ Len(p) <= k /\ p \in Seq(StepsOf(adjacent))
      BY <1>1, <2>1, <2>2, <3>2
    <3>4. Fine(p)
      BY <3>3
    <3>5. e \in StepsOf(adjacent) /\ e.to \in DOMAIN adjacent
      BY <3>3, StepsKnown
    <3>6. EndOf(start, z) = e.to /\ On(start, z) = On(start, p) \cup {e.to}
      BY <3>2, <3>3, <3>5, Longer
    <3>7. Range(z) = Range(p) \cup {e}
      BY <3>2, <3>3, <3>5, StepsOfLonger
    <3>8. IsFiniteSet(On(start, z)) /\ Cardinality(On(start, z)) = Len(z) + 1
      <4>1. /\ IsFiniteSet(On(start, p) \cup {e.to})
            /\ Cardinality(On(start, p) \cup {e.to}) = Cardinality(On(start, p)) + 1
        BY <3>2, <3>4, FS_AddElement
      <4>2. QED
        BY <3>2, <3>4, <3>6, <4>1
    <3>9. ASSUME NEW x \in On(start, z)
          PROVE  \E q \in P : EndOf(start, q) = x /\ Range(q) \subseteq Range(z)
      <4>1. CASE x = e.to
        BY <3>6, <4>1
      <4>2. CASE x \in On(start, p)
        BY <3>4, <3>7, <4>2
      <4>3. QED
        BY <3>6, <3>9, <4>1, <4>2
    <3>10. On(start, z) \in SUBSET DOMAIN adjacent /\ EndOf(start, z) \in On(start, z)
      BY <3>4, <3>5, <3>6
    <3>11. QED
      BY <3>8, <3>9, <3>10
  <2> HIDE DEF P, Fine
  <2>3. QED
    BY <1>2, <2>1, <2>2
<1>5. N = Nat
  <2>1. N \in SUBSET Nat /\ 0 \in N
    BY <1>3
  <2> HIDE DEF N
  <2>2. QED
    BY <1>4, <2>1, AllNumbers
<1>6. Fine(p0)
  <2>1. Len(p0) \in N /\ Len(p0) <= Len(p0)
    BY <1>1, <1>5
  <2> HIDE DEF Fine
  <2>2. QED
    BY <2>1
<1>7. QED
  BY <1>6

(***************************************************************************)
(* No path of a search has as many steps as there are records: looking     *)
(* deeper than that finds nothing more.                                    *)
(***************************************************************************)
LEMMA NothingDeeper ==
    ASSUME NEW adjacent, NEW start, NEW until, Searchable(adjacent, start, until),
           NEW n \in Nat
    PROVE  Results(adjacent, start, until, n) \subseteq
               Results(adjacent, start, until, Cardinality(DOMAIN adjacent))
<1> DEFINE d == Cardinality(DOMAIN adjacent)
           P(m) == SimplePaths(adjacent, start, until, m)
<1>1. d \in Nat /\ IsFiniteSet(DOMAIN adjacent)
  BY FS_CardinalityType DEF Searchable
<1>2. ASSUME NEW p \in P(n) PROVE p \in P(d)
  <2>1. Len(p) \in Nat /\ p \in P(Len(p))
    BY PathFacts
  <2>2. Cardinality(On(start, p)) = Len(p) + 1 /\ On(start, p) \in SUBSET DOMAIN adjacent
    BY SimpleFacts
  <2>3. Cardinality(On(start, p)) <= d
    BY <1>1, <2>2, FS_Subset
  <2> HIDE DEF d
  <2>4. Len(p) <= d
    BY <1>1, <2>1, <2>2, <2>3
  <2>5. P(Len(p)) \subseteq P(d)
    BY <1>1, <2>1, <2>4, PathsGrow
  <2> HIDE DEF P
  <2>6. QED
    BY <2>1, <2>5
<1>3. QED
  BY <1>2 DEF Results

LEMMA WalksClosed ==
    ASSUME NEW adjacent, NEW start, Searchable(adjacent, start, {}),
           NEW K, NEW d, d = Cardinality(DOMAIN adjacent),
           NEW p \in SimplePaths(adjacent, start, {}, d), Range(p) \subseteq K,
           NEW e \in adjacent[EndOf(start, p)] \cap K
    PROVE  /\ \E q \in SimplePaths(adjacent, start, {}, d) :
                  EndOf(start, q) = e.to /\ Range(q) \subseteq K
           /\ e.to \notin On(start, p) =>
                  Append(p, e) \in SimplePaths(adjacent, start, {}, d)
<1>1. IsFiniteSet(DOMAIN adjacent) /\ d \in Nat
  BY FS_CardinalityType DEF Searchable
<1>2. /\ p \in Seq(StepsOf(adjacent)) /\ Len(p) \in Nat
  BY <1>1, PathFacts
<1>3. /\ On(start, p) \in SUBSET DOMAIN adjacent /\ Cardinality(On(start, p)) = Len(p) + 1
      /\ \A x \in On(start, p) : \E q \in SimplePaths(adjacent, start, {}, d) :
             EndOf(start, q) = x /\ Range(q) \subseteq Range(p)
  BY <1>1, SimpleFacts
<1>4. Len(p) < d
  <2>1. Cardinality(On(start, p)) <= Cardinality(DOMAIN adjacent)
    BY <1>1, <1>3, FS_Subset
  <2>2. QED
    BY <1>1, <1>2, <1>3, <2>1
<1>5. CASE e.to \in On(start, p)
  BY <1>3, <1>5
<1>6. CASE e.to \notin On(start, p)
  <2>1. Append(p, e) \in SimplePaths(adjacent, start, {}, d)
    BY <1>1, <1>4, <1>6, PathGoesOn
  <2>2. e \in StepsOf(adjacent)
    BY <1>2, StepsKnown
  <2>3. EndOf(start, Append(p, e)) = e.to /\ Range(Append(p, e)) \subseteq K
    BY <1>2, <2>2, Longer, StepsOfLonger
  <2>4. QED
    BY <2>1, <2>3
<1>7. QED
  BY <1>5, <1>6

-----------------------------------------------------------------------------
(***************************************************************************)
(* Timelines.  An entry that names another record is one of four kinds,    *)
(* each with its counterpart on the other record's timeline.               *)
(***************************************************************************)
Pairs(h, edges) ==
    {<<i, h[i].source, h[i].target>> : i \in Created(h, "relation")}
    \cup {<<i, RelOf(h, i).source, RelOf(h, i).target>> : i \in Activations(h)}
    \cup {<<e.at, e.from, e.to>> : e \in edges}

LEMMA EntryIs ==
    ASSUME NEW a, NEW role, NEW ids
    PROVE  Entry(a, role, ids).at = a /\ Entry(a, role, ids).related = ids
BY DEF Entry

LEMMA EntriesPair ==
    ASSUME NEW h, NEW edges, NEW r, NEW x \in Entries(h, edges, r)
    PROVE  \/ x.at = RecordAt(h, r) /\ x.related = {}
           \/ \E y \in Pairs(h, edges) : /\ x.at = y[1]
                                         /\ \/ y[2] = r /\ x.related = {y[3]}
                                            \/ y[3] = r /\ x.related = {y[2]}
<1> DEFINE Good(a, s, t) == /\ x.at = a
                           /\ \/ s = r /\ x.related = {t}
                              \/ t = r /\ x.related = {s}
<1>1. \/ x = Entry(RecordAt(h, r), "record_created", {})
      \/ \E i \in Created(h, "relation") :
             \/ h[i].source = r /\ x = Entry(i, "relation_source", {h[i].target})
             \/ h[i].target = r /\ x = Entry(i, "relation_target", {h[i].source})
      \/ \E i \in Activations(h) :
             \/ RelOf(h, i).source = r /\ x = Entry(i, "state_source", {RelOf(h, i).target})
             \/ RelOf(h, i).target = r /\ x = Entry(i, "state_target", {RelOf(h, i).source})
      \/ \E e \in edges : \/ e.from = r /\ x = Entry(e.at, "binds", {e.to})
                          \/ e.to = r /\ x = Entry(e.at, "bound_by", {e.from})
  BY DEF Entries
<1>2. CASE x = Entry(RecordAt(h, r), "record_created", {})
  BY <1>2, EntryIs
<1>3. CASE \E i \in Created(h, "relation") :
             \/ h[i].source = r /\ x = Entry(i, "relation_source", {h[i].target})
             \/ h[i].target = r /\ x = Entry(i, "relation_target", {h[i].source})
  <2>1. PICK i \in Created(h, "relation") :
             \/ h[i].source = r /\ x = Entry(i, "relation_source", {h[i].target})
             \/ h[i].target = r /\ x = Entry(i, "relation_target", {h[i].source})
    BY <1>3
  <2>2. Good(i, h[i].source, h[i].target)
    <3>1. CASE h[i].source = r /\ x = Entry(i, "relation_source", {h[i].target})
      <4>1. x.at = i /\ x.related = {h[i].target}
        BY <3>1, EntryIs
      <4>2. QED
        BY ONLY <3>1, <4>1
    <3>2. CASE h[i].target = r /\ x = Entry(i, "relation_target", {h[i].source})
      <4>1. x.at = i /\ x.related = {h[i].source}
        BY <3>2, EntryIs
      <4>2. QED
        BY ONLY <3>2, <4>1
    <3>3. QED
      BY <2>1, <3>1, <3>2
  <2>3. PICK y : y = <<i, h[i].source, h[i].target>>
    OBVIOUS
  <2>4. y \in Pairs(h, edges) /\ y[1] = i /\ y[2] = h[i].source /\ y[3] = h[i].target
    BY <2>3 DEF Pairs
  <2>5. QED
    BY <2>2, <2>4
<1>4. CASE \E i \in Activations(h) :
             \/ RelOf(h, i).source = r /\ x = Entry(i, "state_source", {RelOf(h, i).target})
             \/ RelOf(h, i).target = r /\ x = Entry(i, "state_target", {RelOf(h, i).source})
  <2>1. PICK i \in Activations(h) :
             \/ RelOf(h, i).source = r /\ x = Entry(i, "state_source", {RelOf(h, i).target})
             \/ RelOf(h, i).target = r /\ x = Entry(i, "state_target", {RelOf(h, i).source})
    BY <1>4
  <2>2. Good(i, RelOf(h, i).source, RelOf(h, i).target)
    <3>1. CASE RelOf(h, i).source = r /\ x = Entry(i, "state_source", {RelOf(h, i).target})
      <4>1. x.at = i /\ x.related = {RelOf(h, i).target}
        BY <3>1, EntryIs
      <4>2. QED
        BY ONLY <3>1, <4>1
    <3>2. CASE RelOf(h, i).target = r /\ x = Entry(i, "state_target", {RelOf(h, i).source})
      <4>1. x.at = i /\ x.related = {RelOf(h, i).source}
        BY <3>2, EntryIs
      <4>2. QED
        BY ONLY <3>2, <4>1
    <3>3. QED
      BY <2>1, <3>1, <3>2
  <2>3. PICK y : y = <<i, RelOf(h, i).source, RelOf(h, i).target>>
    OBVIOUS
  <2>4. y \in Pairs(h, edges)
        /\ y[1] = i /\ y[2] = RelOf(h, i).source /\ y[3] = RelOf(h, i).target
    BY <2>3 DEF Pairs
  <2>5. QED
    BY <2>2, <2>4
<1>5. CASE \E e \in edges : \/ e.from = r /\ x = Entry(e.at, "binds", {e.to})
                            \/ e.to = r /\ x = Entry(e.at, "bound_by", {e.from})
  <2>1. PICK e \in edges : \/ e.from = r /\ x = Entry(e.at, "binds", {e.to})
                           \/ e.to = r /\ x = Entry(e.at, "bound_by", {e.from})
    BY <1>5
  <2>2. Good(e.at, e.from, e.to)
    <3>1. CASE e.from = r /\ x = Entry(e.at, "binds", {e.to})
      <4>1. x.at = e.at /\ x.related = {e.to}
        BY <3>1, EntryIs
      <4>2. QED
        BY ONLY <3>1, <4>1
    <3>2. CASE e.to = r /\ x = Entry(e.at, "bound_by", {e.from})
      <4>1. x.at = e.at /\ x.related = {e.from}
        BY <3>2, EntryIs
      <4>2. QED
        BY ONLY <3>2, <4>1
    <3>3. QED
      BY <2>1, <3>1, <3>2
  <2>3. PICK y : y = <<e.at, e.from, e.to>>
    OBVIOUS
  <2>4. y \in Pairs(h, edges) /\ y[1] = e.at /\ y[2] = e.from /\ y[3] = e.to
    BY <2>3 DEF Pairs
  <2>5. QED
    BY <2>2, <2>4
<1>6. QED
  BY <1>1, <1>2, <1>3, <1>4, <1>5

LEMMA PairsAreEntries ==
    ASSUME NEW h, NEW edges, NEW y \in Pairs(h, edges)
    PROVE  /\ \E x \in Entries(h, edges, y[2]) : x.at = y[1] /\ x.related = {y[3]}
           /\ \E x \in Entries(h, edges, y[3]) : x.at = y[1] /\ x.related = {y[2]}
<1> DEFINE Has(s, a, t) == \E x \in Entries(h, edges, s) : x.at = a /\ x.related = {t}
<1>1. ASSUME NEW i \in Created(h, "relation")
      PROVE  Has(h[i].source, i, h[i].target) /\ Has(h[i].target, i, h[i].source)
  <2>1. /\ Entry(i, "relation_source", {h[i].target}) \in Entries(h, edges, h[i].source)
        /\ Entry(i, "relation_target", {h[i].source}) \in Entries(h, edges, h[i].target)
    BY DEF Entries
  <2>2. QED
    BY <2>1, EntryIs
<1>2. ASSUME NEW i \in Activations(h)
      PROVE  /\ Has(RelOf(h, i).source, i, RelOf(h, i).target)
             /\ Has(RelOf(h, i).target, i, RelOf(h, i).source)
  <2>1. /\ Entry(i, "state_source", {RelOf(h, i).target})
               \in Entries(h, edges, RelOf(h, i).source)
        /\ Entry(i, "state_target", {RelOf(h, i).source})
               \in Entries(h, edges, RelOf(h, i).target)
    BY DEF Entries
  <2>2. QED
    BY <2>1, EntryIs
<1>3. ASSUME NEW e \in edges
      PROVE  Has(e.from, e.at, e.to) /\ Has(e.to, e.at, e.from)
  <2>1. /\ Entry(e.at, "binds", {e.to}) \in Entries(h, edges, e.from)
        /\ Entry(e.at, "bound_by", {e.from}) \in Entries(h, edges, e.to)
    BY DEF Entries
  <2>2. QED
    BY <2>1, EntryIs
<1> HIDE DEF Has
<1>4. CASE \E i \in Created(h, "relation") : y = <<i, h[i].source, h[i].target>>
  <2>1. PICK i \in Created(h, "relation") : y = <<i, h[i].source, h[i].target>>
    BY <1>4
  <2>2. y[1] = i /\ y[2] = h[i].source /\ y[3] = h[i].target
    BY <2>1
  <2>3. Has(y[2], y[1], y[3]) /\ Has(y[3], y[1], y[2])
    BY <1>1, <2>2
  <2>4. QED
    BY <2>3 DEF Has
<1>5. CASE \E i \in Activations(h) : y = <<i, RelOf(h, i).source, RelOf(h, i).target>>
  <2>1. PICK i \in Activations(h) : y = <<i, RelOf(h, i).source, RelOf(h, i).target>>
    BY <1>5
  <2>2. y[1] = i /\ y[2] = RelOf(h, i).source /\ y[3] = RelOf(h, i).target
    BY <2>1
  <2>3. Has(y[2], y[1], y[3]) /\ Has(y[3], y[1], y[2])
    BY <1>2, <2>2
  <2>4. QED
    BY <2>3 DEF Has
<1>6. CASE \E e \in edges : y = <<e.at, e.from, e.to>>
  <2>1. PICK e \in edges : y = <<e.at, e.from, e.to>>
    BY <1>6
  <2>2. y[1] = e.at /\ y[2] = e.from /\ y[3] = e.to
    BY <2>1
  <2>3. Has(y[2], y[1], y[3]) /\ Has(y[3], y[1], y[2])
    BY <1>3, <2>2
  <2>4. QED
    BY <2>3 DEF Has
<1>7. QED
  BY <1>4, <1>5, <1>6 DEF Pairs

LEMMA PairsKnown ==
    ASSUME NEW h, Written(h), NEW y \in Pairs(h, ExplainEdges(h))
    PROVE  y[1] \in DOMAIN h /\ y[2] \in RecordIds(h) /\ y[3] \in RecordIds(h)
<1>1. IsLog(h) /\ Unique(h) /\ Grows(h, h)
  <2>1. IsLog(h)
    BY DEF Written
  <2>2. Grows(h, h)
    BY <2>1, LogFacts DEF Grows
  <2>3. QED
    BY <2>1, <2>2, WrittenUnique
<1>2. CASE \E i \in Created(h, "relation") : y = <<i, h[i].source, h[i].target>>
  <2>1. PICK i \in Created(h, "relation") : y = <<i, h[i].source, h[i].target>>
    BY <1>2
  <2>2. i \in DOMAIN h /\ HasRecord(h, h[i].source) /\ HasRecord(h, h[i].target)
    BY RelationEnds DEF Created
  <2>3. QED
    BY <1>1, <2>1, <2>2, KnownRecord
<1>3. CASE \E i \in Activations(h) : y = <<i, RelOf(h, i).source, RelOf(h, i).target>>
  <2>1. PICK i \in Activations(h) : y = <<i, RelOf(h, i).source, RelOf(h, i).target>>
    BY <1>3
  <2>2. i \in DOMAIN h /\ HasRecord(h, RelOf(h, i).source) /\ HasRecord(h, RelOf(h, i).target)
    BY <1>1, RelOfStays DEF Activations
  <2>3. QED
    BY <1>1, <2>1, <2>2, KnownRecord
<1>4. CASE \E e \in ExplainEdges(h) : y = <<e.at, e.from, e.to>>
  BY <1>4, EdgesKnown
<1>5. QED
  BY <1>2, <1>3, <1>4 DEF Pairs

LEMMA EntriesMeet ==
    ASSUME NEW h, Written(h), NEW r \in RecordIds(h),
           NEW x \in Entries(h, ExplainEdges(h), r), NEW q \in x.related
    PROVE  /\ q \in RecordIds(h)
           /\ \E f \in Entries(h, ExplainEdges(h), q) : f.at = x.at /\ r \in f.related
<1> DEFINE edges == ExplainEdges(h)
<1> HIDE DEF edges
<1>1. PICK y \in Pairs(h, edges) : /\ x.at = y[1]
                                   /\ \/ y[2] = r /\ x.related = {y[3]}
                                      \/ y[3] = r /\ x.related = {y[2]}
  BY EntriesPair DEF edges
<1>2. y[2] \in RecordIds(h) /\ y[3] \in RecordIds(h)
  BY PairsKnown DEF edges
<1>3. /\ \E f \in Entries(h, edges, y[2]) : f.at = y[1] /\ f.related = {y[3]}
      /\ \E f \in Entries(h, edges, y[3]) : f.at = y[1] /\ f.related = {y[2]}
  BY PairsAreEntries
<1>4. q \in x.related
  OBVIOUS
<1>5. CASE y[2] = r /\ x.related = {y[3]}
  <2>1. q = y[3]
    BY <1>4, <1>5
  <2>2. PICK f \in Entries(h, edges, q) : f.at = y[1] /\ f.related = {r}
    BY ONLY <1>3, <1>5, <2>1
  <2>3. QED
    BY <1>1, <1>2, <2>1, <2>2 DEF edges
<1>6. CASE y[3] = r /\ x.related = {y[2]}
  <2>1. q = y[2]
    BY <1>4, <1>6
  <2>2. PICK f \in Entries(h, edges, q) : f.at = y[1] /\ f.related = {r}
    BY ONLY <1>3, <1>6, <2>1
  <2>3. QED
    BY <1>1, <1>2, <2>1, <2>2 DEF edges
<1>7. QED
  BY <1>1, <1>5, <1>6

LEMMA TimelineIs ==
    ASSUME NEW h, Written(h), NEW r \in RecordIds(h)
    PROVE  Timeline(h, ExplainEdges(h), r, Len(h)).entries = Entries(h, ExplainEdges(h), r)
<1> DEFINE entries == Entries(h, ExplainEdges(h), r)
           places == {e.at : e \in entries}
<1>1. IsLog(h) /\ Unique(h) /\ Len(h) \in Nat /\ DOMAIN h = 1 .. Len(h)
  <2>1. IsLog(h)
    BY DEF Written
  <2>2. Grows(h, h)
    BY <2>1, LogFacts DEF Grows
  <2>3. QED
    BY <2>1, <2>2, LogFacts, WrittenUnique
<1>2. RecordAt(h, r) \in DOMAIN h
  <2>1. PICK i \in Created(h, "record") : r = h[i].id
    BY DEF RecordIds
  <2>2. QED
    BY <1>1, <2>1, RecordAtPlace DEF Created
<1>3. \A e \in entries : e.at \in 1 .. Len(h)
  BY <1>1, <1>2, EntriesPair, PairsKnown
<1>4. Cardinality(places) <= Len(h) /\ Cardinality(places) \in Nat
  <2>1. places \in SUBSET (1 .. Len(h))
    BY <1>3
  <2>2. IsFiniteSet(1 .. Len(h)) /\ Cardinality(1 .. Len(h)) = Len(h)
    <3>1. PICK n \in Nat : n = Len(h)
      BY <1>1
    <3>2. IsFiniteSet(1 .. n) /\ Cardinality(1 .. n) = IF 1 > n THEN 0 ELSE n - 1 + 1
      BY FS_Interval
    <3>3. Cardinality(1 .. n) = n
      BY <3>2
    <3>4. QED
      BY <3>1, <3>2, <3>3
  <2> HIDE DEF places
  <2>3. QED
    BY <2>1, <2>2, FS_Subset, FS_CardinalityType
<1>5. ~(Cardinality(places) > Len(h))
  <2> HIDE DEF places
  <2>1. QED
    BY <1>1, <1>4
<1>6. Timeline(h, ExplainEdges(h), r, Len(h)) = [refused |-> FALSE, entries |-> entries]
  BY <1>5 DEF Timeline
<1>7. QED
  BY <1>6

-----------------------------------------------------------------------------
(***************************************************************************)
(* What simple paths over the steps of K lead to is the least set that     *)
(* holds the start and goes on over every step of K.                       *)
(***************************************************************************)
Gets(adjacent, start, K) ==
    {EndOf(start, p) :
        p \in {q \in SimplePaths(adjacent, start, {}, Cardinality(DOMAIN adjacent)) :
                  Range(q) \subseteq K}}

GoesOnIn(adjacent, K, C) == \A x \in C : \A e \in adjacent[x] : e \in K => e.to \in C

LEMMA GetsIsClosed ==
    ASSUME NEW adjacent, NEW start, Searchable(adjacent, start, {}), NEW K
    PROVE  /\ start \in Gets(adjacent, start, K)
           /\ Gets(adjacent, start, K) \subseteq DOMAIN adjacent
           /\ GoesOnIn(adjacent, K, Gets(adjacent, start, K))
<1> DEFINE d == Cardinality(DOMAIN adjacent)
           P == SimplePaths(adjacent, start, {}, d)
           G == Gets(adjacent, start, K)
<1>1. d \in Nat
  BY FS_CardinalityType DEF Searchable
<1>2. <<>> \in P /\ \A p \in P : EndOf(start, p) \in DOMAIN adjacent
  <2>1. <<>> \in P /\ \A p \in P : p \in Seq(StepsOf(adjacent))
    <3> HIDE DEF d
    <3>1. QED
      BY <1>1, PathFacts
  <2> HIDE DEF P
  <2>2. QED
    BY <2>1, StepsKnown
<1>3. \A x : x \in G <=> \E p \in P : Range(p) \subseteq K /\ EndOf(start, p) = x
  BY DEF Gets
<1>4. start \in G
  <2>1. Range(<<>>) \subseteq K /\ EndOf(start, <<>>) = start
    BY DEF Range, EndOf
  <2> HIDE DEF P, G
  <2>2. QED
    BY <1>2, <1>3, <2>1
<1>5. ASSUME NEW x \in G, NEW e \in adjacent[x], e \in K
      PROVE  e.to \in G
  <2>1. PICK p \in P : Range(p) \subseteq K /\ EndOf(start, p) = x
    BY <1>3
  <2>2. \E q \in P : EndOf(start, q) = e.to /\ Range(q) \subseteq K
    <3>1. PICK k : k = d
      OBVIOUS
    <3>2. e \in adjacent[EndOf(start, p)] \cap K
      BY <1>5, <2>1
    <3>3. p \in SimplePaths(adjacent, start, {}, k) /\ k = Cardinality(DOMAIN adjacent)
      BY <2>1, <3>1
    <3>4. \E q \in SimplePaths(adjacent, start, {}, k) :
              EndOf(start, q) = e.to /\ Range(q) \subseteq K
      BY ONLY Searchable(adjacent, start, {}), <2>1, <3>2, <3>3, WalksClosed
    <3>5. QED
      BY <3>1, <3>4
  <2> HIDE DEF P, G
  <2>3. QED
    BY <1>3, <2>2
<1>6. G \subseteq DOMAIN adjacent
  <2> HIDE DEF P, G
  <2>1. QED
    BY <1>2, <1>3
<1> HIDE DEF G
<1>7. QED
  BY <1>4, <1>5, <1>6 DEF G, GoesOnIn

LEMMA GetsIsLeast ==
    ASSUME NEW adjacent, NEW start, Searchable(adjacent, start, {}), NEW K,
           NEW C, start \in C, GoesOnIn(adjacent, K, C)
    PROVE  Gets(adjacent, start, K) \subseteq C
<1> DEFINE d == Cardinality(DOMAIN adjacent)
           P == SimplePaths(adjacent, start, {}, d)
           T == {n \in Nat : \A p \in P :
                                Len(p) = n /\ Range(p) \subseteq K => EndOf(start, p) \in C}
<1>1. d \in Nat
  BY FS_CardinalityType DEF Searchable
<1>2. \A p \in P : p \in Seq(StepsOf(adjacent)) /\ Len(p) \in Nat
  <2> HIDE DEF d
  <2>1. QED
    BY <1>1, PathFacts
<1>3. 0 \in T
  <2>1. ASSUME NEW p \in P, Len(p) = 0 PROVE EndOf(start, p) \in C
    <3>1. p = <<>>
      BY <1>2, <2>1, EmptySeq
    <3>2. QED
      BY <3>1 DEF EndOf
  <2>2. QED
    BY <2>1
<1>4. ASSUME NEW n \in T PROVE n + 1 \in T
  <2>1. SUFFICES ASSUME NEW z \in P, Len(z) = n + 1, Range(z) \subseteq K
                 PROVE  EndOf(start, z) \in C
    OBVIOUS
  <2>2. z # <<>>
    BY <2>1, <1>4
  <2>3. PICK p \in P : \E e \in adjacent[EndOf(start, p)] :
            z = Append(p, e) /\ Len(z) = Len(p) + 1
    <3> HIDE DEF d, T
    <3>1. \E p \in P : \E e \in adjacent[EndOf(start, p)] :
              /\ EndOf(start, p) \notin {} /\ e.to \notin On(start, p)
              /\ z = Append(p, e) /\ Len(p) < d /\ Len(z) = Len(p) + 1
      BY <1>1, <2>1, <2>2, PathCameFrom
    <3> HIDE DEF P
    <3>2. QED
      BY <3>1
  <2>4. PICK e \in adjacent[EndOf(start, p)] : z = Append(p, e) /\ Len(z) = Len(p) + 1
    BY <2>3
  <2>5. p \in Seq(StepsOf(adjacent)) /\ e \in StepsOf(adjacent) /\ Len(p) \in Nat
    <3> HIDE DEF P
    <3>1. QED
      BY <1>2, <2>3, <2>4, StepsKnown
  <2>6. Len(p) = n
    BY <2>1, <2>4, <2>5, <1>4
  <2>7. Range(z) = Range(p) \cup {e} /\ EndOf(start, z) = e.to
    BY <2>4, <2>5, StepsOfLonger, Longer
  <2>8. EndOf(start, p) \in C
    BY <2>1, <2>3, <2>6, <2>7, <1>4
  <2>9. e \in K
    BY <2>1, <2>7
  <2>10. QED
    BY <2>4, <2>7, <2>8, <2>9 DEF GoesOnIn
<1>5. T = Nat
  <2>1. T \in SUBSET Nat
    OBVIOUS
  <2> HIDE DEF T
  <2>2. QED
    BY <1>3, <1>4, <2>1, AllNumbers
<1>6. \A p \in P : Range(p) \subseteq K => EndOf(start, p) \in C
  <2> HIDE DEF P
  <2>1. QED
    BY <1>2, <1>5
<1>7. QED
  <2> HIDE DEF P
  <2>1. QED
    BY <1>6 DEF Gets, P

LEMMA GetsOther ==
    ASSUME NEW adjacent, NEW start, Searchable(adjacent, start, {}), NEW K
    PROVE  {p[Len(p)].to : p \in {q \in SimplePaths(adjacent, start, {}, Cardinality(DOMAIN adjacent))
                                           \ {<<>>} : Range(q) \subseteq K}}
               = Gets(adjacent, start, K) \ {start}
<1> DEFINE d == Cardinality(DOMAIN adjacent)
           P == SimplePaths(adjacent, start, {}, d)
<1>1. d \in Nat
  BY FS_CardinalityType DEF Searchable
<1>2. \A p \in P : p \in Seq(StepsOf(adjacent))
  <2> HIDE DEF d
  <2>1. QED
    BY <1>1, PathFacts
<1>3. ASSUME NEW z \in P, z # <<>>
      PROVE  EndOf(start, z) = z[Len(z)].to /\ EndOf(start, z) # start
  <2>1. PICK p \in P : \E e \in adjacent[EndOf(start, p)] :
            e.to \notin On(start, p) /\ z = Append(p, e)
    <3> HIDE DEF d
    <3>1. QED
      BY <1>1, <1>3, PathCameFrom
  <2>2. PICK e \in adjacent[EndOf(start, p)] : e.to \notin On(start, p) /\ z = Append(p, e)
    BY <2>1
  <2>3. p \in Seq(StepsOf(adjacent)) /\ e \in StepsOf(adjacent)
    <3> HIDE DEF P
    <3>1. QED
      BY <1>2, <2>1, <2>2, StepsKnown
  <2>4. EndOf(start, z) = e.to
    BY <2>2, <2>3, Longer
  <2>5. QED
    BY <1>3, <2>2, <2>4 DEF EndOf, On
<1> HIDE DEF P
<1>4. EndOf(start, <<>>) = start
  BY DEF EndOf
<1>5. QED
  BY <1>3, <1>4 DEF Gets, P

-----------------------------------------------------------------------------
(***************************************************************************)
(* Dependence and explanation.  A bound dependency is an explanation edge  *)
(* of a kind of its own, so a why over those edges goes where staleness    *)
(* comes from.                                                             *)
(***************************************************************************)
LEMMA ActivationsHaveEdges ==
    ASSUME NEW h, NEW i \in Activations(h)
    PROVE  StateEdge(h, i) \in ExplainEdges(h)
BY DEF ExplainEdges

LEMMA BindingHasEdge ==
    ASSUME NEW h, NEW i \in Created(h, "record"), NEW x \in Bindings(h[i])
    PROVE  Edge(h[i].id, x[2], x[1], i) \in ExplainEdges(h)
BY DEF ExplainEdges

LEMMA DependencyHasEdge ==
    ASSUME NEW h, NEW x, NEW y, <<x, y>> \in DependsOn(h)
    PROVE  \E e \in ExplainEdges(h) :
               e.from = x /\ e.to = y /\ e.kind = "qualified_dependency"
<1>1. PICK i \in Created(h, "bound") : <<x, y>> = <<RelOf(h, i).source, RelOf(h, i).target>>
  BY DEF DependsOn
<1>2. i \in Activations(h) /\ h[i].ev = "bound"
  BY DEF Created, Activations, RelationTypeFor
<1>3. StateEdge(h, i) \in ExplainEdges(h) /\ StateEdge(h, i) = Edge(x, y, "qualified_dependency", i)
  BY <1>1, <1>2, ActivationsHaveEdges, StateEdgeIs
<1>4. QED
  BY <1>3 DEF Edge

LEMMA EdgeIsDependency ==
    ASSUME NEW h, Written(h), NEW e \in ExplainEdges(h), e.kind = "qualified_dependency"
    PROVE  <<e.from, e.to>> \in DependsOn(h)
<1>1. CASE \E i \in Activations(h) : e = StateEdge(h, i)
  <2>1. PICK i \in Activations(h) : e = StateEdge(h, i)
    BY <1>1
  <2>2. h[i].ev \in {"bound", "invalidated", "superseded"}
    BY StateEdgeIs
  <2>3. h[i].ev # "invalidated" /\ h[i].ev # "superseded"
    BY <2>1, StateEdgeIs DEF Edge
  <2>4. h[i].ev = "bound"
    BY <2>2, <2>3
  <2>5. e = Edge(RelOf(h, i).source, RelOf(h, i).target, "qualified_dependency", i)
    BY <2>1, <2>4, StateEdgeIs
  <2>6. i \in Created(h, "bound") /\ e.from = RelOf(h, i).source /\ e.to = RelOf(h, i).target
    BY <2>4, <2>5 DEF Created, Activations, Edge
  <2>7. QED
    BY <2>6 DEF DependsOn
<1>2. CASE \E i \in Created(h, "record") : \E x \in Bindings(h[i]) :
               e = Edge(h[i].id, x[2], x[1], i)
  <2>1. PICK i \in Created(h, "record") : \E x \in Bindings(h[i]) :
            e = Edge(h[i].id, x[2], x[1], i)
    BY <1>2
  <2>2. PICK x \in Bindings(h[i]) : e = Edge(h[i].id, x[2], x[1], i)
    BY <2>1
  <2>3. x[1] \in BindingKinds /\ e.kind = x[1]
    BY <2>1, <2>2, BindingsKnown DEF Edge
  <2>4. QED
    BY <2>3 DEF BindingKinds
<1>3. QED
  BY <1>1, <1>2 DEF ExplainEdges

Dependencies(h) == {e \in ExplainEdges(h) : e.kind = "qualified_dependency"}

DependsOver(h, r) == Gets(Outgoing(ExplainEdges(h), r), r, Dependencies(h))

LEMMA DependsOverIsClosed ==
    ASSUME NEW h, Written(h), NEW r \in RecordIds(h)
    PROVE  /\ r \in DependsOver(h, r)
           /\ \A e \in ExplainEdges(h) : /\ e.kind = "qualified_dependency"
                                         /\ e.from \in DependsOver(h, r)
                                         => e.to \in DependsOver(h, r)
           /\ \A d \in DependsOn(h) : d[1] \in DependsOver(h, r) => d[2] \in DependsOver(h, r)
           /\ DependsOver(h, r) \subseteq RecordIds(h)
<1> DEFINE edges == ExplainEdges(h)
           out == Outgoing(edges, r)
           W == DependsOver(h, r)
<1>1. Searchable(out, r, {})
  BY ExplainSearchable
<1>2. /\ r \in W /\ W \subseteq DOMAIN out /\ GoesOnIn(out, Dependencies(h), W)
  <2> HIDE DEF out
  <2>1. QED
    BY <1>1, GetsIsClosed DEF DependsOver, out, edges
<1>3. DOMAIN out = Mentioned(edges, r) /\ \A x \in Mentioned(edges, r) : out[x] = {e \in edges : e.from = x}
  BY DEF Outgoing
<1>4. Mentioned(edges, r) \subseteq RecordIds(h)
  BY EdgesKnown DEF Mentioned
<1> HIDE DEF W, out
<1>5. ASSUME NEW e \in edges, e.kind = "qualified_dependency", e.from \in W
      PROVE  e.to \in W
  <2>1. e \in out[e.from] /\ e \in Dependencies(h)
    BY <1>2, <1>3, <1>5 DEF Dependencies
  <2>2. QED
    BY <1>2, <1>5, <2>1 DEF GoesOnIn
<1>6. ASSUME NEW d \in DependsOn(h), d[1] \in W PROVE d[2] \in W
  <2>1. d = <<d[1], d[2]>>
    BY DEF DependsOn
  <2>2. PICK e \in edges : e.from = d[1] /\ e.to = d[2] /\ e.kind = "qualified_dependency"
    BY <2>1, DependencyHasEdge
  <2>3. QED
    BY <1>5, <1>6, <2>2
<1>7. QED
  BY <1>2, <1>3, <1>4, <1>5, <1>6 DEF W

LEMMA DependsOverIsLeast ==
    ASSUME NEW h, Written(h), NEW r \in RecordIds(h), NEW C, r \in C,
           \A d \in DependsOn(h) : d[1] \in C => d[2] \in C
    PROVE  DependsOver(h, r) \subseteq C
<1> DEFINE edges == ExplainEdges(h)
           out == Outgoing(edges, r)
           D == C \cap DOMAIN out
<1>1. Searchable(out, r, {})
  BY ExplainSearchable
<1>2. DOMAIN out = Mentioned(edges, r) /\ \A x \in Mentioned(edges, r) : out[x] = {e \in edges : e.from = x}
  BY DEF Outgoing
<1>3. ASSUME NEW x \in D, NEW e \in out[x], e \in Dependencies(h)
      PROVE  e.to \in D
  <2>1. e \in edges /\ e.from = x /\ e.kind = "qualified_dependency"
    <3> HIDE DEF out
    <3>1. x \in Mentioned(edges, r)
      BY <1>2
    <3>2. e \in edges /\ e.from = x
      BY <1>2, <1>3, <3>1
    <3>3. QED
      BY <1>3, <3>2 DEF Dependencies
  <2>2. e.to \in Mentioned(edges, r)
    BY <2>1 DEF Mentioned
  <2>3. <<x, e.to>> \in DependsOn(h)
    BY <2>1, EdgeIsDependency
  <2>4. e.to \in C
    BY <2>3
  <2>5. QED
    BY <1>2, <2>2, <2>4
<1>4. r \in D
  BY <1>2 DEF Mentioned
<1>5. GoesOnIn(out, Dependencies(h), D)
  <2> HIDE DEF D, out
  <2>1. QED
    BY <1>3 DEF GoesOnIn
<1>6. Gets(out, r, Dependencies(h)) \subseteq D
  <2> HIDE DEF D, out
  <2>1. QED
    BY <1>1, <1>4, <1>5, GetsIsLeast
<1>7. QED
  BY <1>6 DEF DependsOver

LEMMA DependsOverIsReaching ==
    ASSUME NEW h, Written(h), NEW r \in RecordIds(h), NEW q
    PROVE  q \in DependsOver(h, r) <=> r \in Reaching(DependsOn(h), q)
<1> DEFINE D == DependsOn(h)
           W == DependsOver(h, r)
<1>1. IsFiniteSet(D)
  BY DependsFinite DEF Written
<1>2. \A x : /\ x \in Reaching(D, x)
             /\ ClosedUnder(D, Reaching(D, x))
             /\ \A C : x \in C /\ ClosedUnder(D, C) => Reaching(D, x) \subseteq C
  <2> HIDE DEF D
  <2>1. QED
    BY <1>1, ReachingIsLeastClosed
<1>3. r \in W /\ \A d \in D : d[1] \in W => d[2] \in W
  BY DependsOverIsClosed
<1>4. ASSUME q \in W PROVE r \in Reaching(D, q)
  <2> DEFINE C == {x \in W : r \in Reaching(D, x)}
  <2>1. ASSUME NEW d \in D, d[1] \in C PROVE d[2] \in C
    <3>1. d[1] \in Reaching(D, d[2])
      BY <1>2 DEF ClosedUnder
    <3>2. Reaching(D, d[1]) \subseteq Reaching(D, d[2])
      BY <1>2, <3>1
    <3>3. QED
      BY <1>3, <2>1, <3>2
  <2>2. r \in C
    BY <1>2, <1>3
  <2> HIDE DEF C
  <2>3. W \subseteq C
    BY <2>1, <2>2, DependsOverIsLeast
  <2>4. QED
    BY <1>4, <2>3 DEF C
<1>5. ASSUME r \in Reaching(D, q) PROVE q \in W
  <2> DEFINE C == ({q} \cup {d[1] : d \in D}) \ W
  <2>1. SUFFICES ASSUME q \notin W PROVE FALSE
    OBVIOUS
  <2>2. \A d \in D : d[2] \in C => d[1] \in C
    BY <1>3
  <2>3. q \in C
    BY <2>1
  <2> HIDE DEF C, W, D
  <2>4. r \in C
    BY <1>2, <1>5, <2>2, <2>3 DEF ClosedUnder
  <2>5. QED
    BY <1>3, <2>4 DEF C
<1>6. QED
  BY <1>4, <1>5

-----------------------------------------------------------------------------
(***************************************************************************)
(* The activations that take a record's standing away, and what is behind  *)
(* them.                                                                   *)
(***************************************************************************)
Losses(h, q) ==
    {i \in Created(h, "invalidated") \cup Created(h, "superseded") : RelOf(h, i).target = q}

LEMMA StateIsMadeOf ==
    ASSUME NEW h, IsLog(h), NEW r \in RecordIds(h)
    PROVE  /\ States(h)[r].invalidations \cup States(h)[r].superseded = Losses(h, r)
           /\ Usable(States(h)[r]) <=> Losses(h, r) = {} /\ RootsOf(h, r) = {}
           /\ States(h)[r] = [invalidations |-> States(h)[r].invalidations,
                              superseded    |-> States(h)[r].superseded,
                              causes        |-> States(h)[r].causes]
<1> DEFINE by(ev) == {i \in Created(h, ev) : RelOf(h, i).target = r}
<1>1. PICK s, c : s = States(h)[r] /\ c = s.causes
  OBVIOUS
<1>2. s = [invalidations |-> by("invalidated"), superseded |-> by("superseded"), causes |-> c]
  BY <1>1 DEF States
<1>3. by("invalidated") \cup by("superseded") = Losses(h, r)
  BY DEF Losses
<1> HIDE DEF by
<1>4. s.invalidations = by("invalidated") /\ s.superseded = by("superseded")
  BY <1>2
<1>5. c = {} <=> RootsOf(h, r) = {}
  <2>1. c = {CauseFrom(h, r, i) : i \in RootsOf(h, r)}
    BY <1>1, CausesAre
  <2>2. QED
    BY <2>1
<1>6. Usable(s) <=> by("invalidated") = {} /\ by("superseded") = {} /\ c = {}
  BY <1>1, <1>4 DEF Usable
<1>7. QED
  BY <1>1, <1>2, <1>3, <1>4, <1>5, <1>6

LEMMA LossesAndRoots ==
    ASSUME NEW h, IsLog(h)
    PROVE  /\ \A i \in Roots(h) : i \in Losses(h, RelOf(h, i).target)
           /\ \A q : Losses(h, q) # {} => \E i \in Roots(h) : RelOf(h, i).target = q
<1>1. ASSUME NEW i \in Roots(h) PROVE i \in Losses(h, RelOf(h, i).target)
  BY DEF Roots, IsRoot, Losses, Created
<1>2. ASSUME NEW q, Losses(h, q) # {}
      PROVE  \E i \in Roots(h) : RelOf(h, i).target = q
  <2> DEFINE T == {i \in Created(h, "invalidated") : RelOf(h, i).target = q}
  <2>1. CASE T = {}
    <3>1. PICK i \in Losses(h, q) : TRUE
      BY <1>2
    <3>2. i \in Created(h, "superseded") /\ RelOf(h, i).target = q
      BY <2>1 DEF Losses
    <3>3. QED
      BY <3>2 DEF Roots, IsRoot, Created
  <2>2. CASE T # {}
    <3>1. T \in SUBSET Nat
      BY LogFacts DEF Created
    <3>2. PICK m \in T : \A k \in T : m <= k
      <4> HIDE DEF T
      <4>1. QED
        BY <2>2, <3>1, LeastNumber
    <3>3. \A j \in Created(h, "invalidated") : j < m => RelOf(h, j).target # q
      <4>1. \A j \in T : ~(j < m)
        BY <3>1, <3>2
      <4>2. QED
        BY <4>1
    <3>4. m \in DOMAIN h /\ h[m].ev = "invalidated" /\ RelOf(h, m).target = q
      BY <3>2 DEF Created
    <3>5. QED
      BY <3>3, <3>4 DEF Roots, IsRoot
  <2>3. QED
    BY <2>1, <2>2
<1>3. QED
  BY <1>1, <1>2

(***************************************************************************)
(* The roots a record is stale from are the records that why leads to over *)
(* dependencies and that lost their standing.                              *)
(***************************************************************************)
LEMMA RootsAreDependedOn ==
    ASSUME NEW h, Written(h), NEW r \in RecordIds(h)
    PROVE  {RelOf(h, i).target : i \in RootsOf(h, r)}
               = {q \in DependsOver(h, r) \ {r} : Losses(h, q) # {}}
<1>1. IsLog(h)
  BY DEF Written
<1>2. ASSUME NEW i \in RootsOf(h, r), NEW q, q = RelOf(h, i).target
      PROVE  q \in DependsOver(h, r) \ {r} /\ Losses(h, q) # {}
  <2>1. i \in Roots(h) /\ r \in Reaching(DependsOn(h), q) /\ r # q
    BY <1>2 DEF RootsOf, StaleFrom
  <2>2. QED
    BY <1>1, <1>2, <2>1, DependsOverIsReaching, LossesAndRoots
<1>3. ASSUME NEW q \in DependsOver(h, r) \ {r}, Losses(h, q) # {}
      PROVE  \E i \in RootsOf(h, r) : RelOf(h, i).target = q
  <2>1. r \in StaleFrom(h, q)
    BY DependsOverIsReaching DEF StaleFrom
  <2>2. PICK i \in Roots(h) : RelOf(h, i).target = q
    BY <1>1, <1>3, LossesAndRoots
  <2>3. QED
    BY <2>1, <2>2 DEF RootsOf
<1>4. QED
  BY <1>2, <1>3

LEMMA LossHasEdge ==
    ASSUME NEW h, NEW q, NEW i \in Losses(h, q)
    PROVE  /\ StateEdge(h, i) \in ExplainEdges(h)
           /\ StateEdge(h, i).from = q /\ StateEdge(h, i).to = RelOf(h, i).source
<1>1. i \in Activations(h) /\ h[i].ev \in {"invalidated", "superseded"} /\ RelOf(h, i).target = q
  BY DEF Losses, Created, Activations, RelationTypeFor
<1>2. \/ StateEdge(h, i) = Edge(q, RelOf(h, i).source, "invalidation_cause", i)
      \/ StateEdge(h, i) = Edge(q, RelOf(h, i).source, "supersession_cause", i)
  BY <1>1, StateEdgeIs
<1>3. QED
  BY <1>1, <1>2, ActivationsHaveEdges DEF Edge

LEMMA LossIsExplained ==
    ASSUME NEW h, Written(h), NEW r \in RecordIds(h),
           NEW out, out = Outgoing(ExplainEdges(h), r),
           NEW d, d = Cardinality(DOMAIN out),
           NEW p \in SimplePaths(out, r, {}, d), NEW i \in Losses(h, EndOf(r, p))
    PROVE  \/ RelOf(h, i).source \in On(r, p)
           \/ Append(p, StateEdge(h, i)) \in SimplePaths(out, r, {}, d)
<1> DEFINE e == StateEdge(h, i)
           edges == ExplainEdges(h)
<1>1. e \in edges /\ e.from = EndOf(r, p) /\ e.to = RelOf(h, i).source
  BY LossHasEdge
<1> HIDE DEF e
<1>2. Searchable(out, r, {}) /\ d \in Nat
  BY ExplainSearchable, FS_CardinalityType DEF Searchable
<1>3. e \in out[EndOf(r, p)]
  <2>1. EndOf(r, p) \in Mentioned(edges, r)
    BY <1>1 DEF Mentioned
  <2>2. out[EndOf(r, p)] = {f \in edges : f.from = EndOf(r, p)}
    BY <2>1 DEF Outgoing
  <2>3. QED
    BY <1>1, <2>2
<1>4. PICK K : K = Range(p) \cup {e}
  OBVIOUS
<1>5. e.to \notin On(r, p) => Append(p, e) \in SimplePaths(out, r, {}, d)
  BY <1>2, <1>3, <1>4, WalksClosed
<1>6. QED
  BY <1>1, <1>5 DEF e

-----------------------------------------------------------------------------
(***************************************************************************)
(* Impact goes against every edge, so it reaches whatever depends on what  *)
(* it reached.                                                             *)
(***************************************************************************)
ImpactOver(h, q) ==
    LET in == Incoming(ExplainEdges(h), q) IN Gets(in, q, StepsOf(in))

LEMMA ImpactIsClosed ==
    ASSUME NEW h, Written(h), NEW q \in RecordIds(h)
    PROVE  /\ q \in ImpactOver(h, q)
           /\ \A e \in ExplainEdges(h) : e.to \in ImpactOver(h, q) => e.from \in ImpactOver(h, q)
<1> DEFINE edges == ExplainEdges(h)
           in == Incoming(edges, q)
           W == Gets(in, q, StepsOf(in))
<1>1. Searchable(in, q, {})
  BY ExplainSearchable
<1>2. q \in W /\ W \subseteq DOMAIN in /\ GoesOnIn(in, StepsOf(in), W)
  <2> HIDE DEF in
  <2>1. QED
    BY <1>1, GetsIsClosed
<1>3. DOMAIN in = Mentioned(edges, q)
      /\ \A x \in Mentioned(edges, q) : in[x] = {Backwards(e) : e \in {f \in edges : f.to = x}}
  BY DEF Incoming
<1> HIDE DEF W, in
<1>4. ASSUME NEW e \in edges, e.to \in W PROVE e.from \in W
  <2>1. e.to \in DOMAIN in /\ Backwards(e) \in in[e.to]
    BY <1>2, <1>3, <1>4
  <2>2. Backwards(e) \in StepsOf(in)
    BY <2>1 DEF StepsOf
  <2>3. Backwards(e).to \in W
    BY <1>2, <1>4, <2>1, <2>2 DEF GoesOnIn
  <2>4. QED
    BY <2>3, BackwardsIs
<1>5. W = ImpactOver(h, q)
  BY DEF ImpactOver, W, in
<1>6. QED
  BY <1>2, <1>4, <1>5

LEMMA DependentsAreImpact ==
    ASSUME NEW h, Written(h), NEW q \in RecordIds(h)
    PROVE  Reaching(DependsOn(h), q) \subseteq ImpactOver(h, q)
<1> DEFINE W == ImpactOver(h, q)
           D == DependsOn(h)
<1>1. q \in W /\ \A e \in ExplainEdges(h) : e.to \in W => e.from \in W
  BY ImpactIsClosed
<1> HIDE DEF W
<1>2. ASSUME NEW d \in D, d[2] \in W PROVE d[1] \in W
  <2>1. d = <<d[1], d[2]>>
    BY DEF DependsOn
  <2>2. PICK e \in ExplainEdges(h) : e.from = d[1] /\ e.to = d[2]
    BY <2>1, DependencyHasEdge
  <2>3. QED
    BY <1>1, <1>2, <2>2
<1>3. IsFiniteSet(D)
  BY DependsFinite DEF Written
<1> HIDE DEF D
<1>4. ClosedUnder(D, W)
  BY <1>2 DEF ClosedUnder
<1>5. \A C : q \in C /\ ClosedUnder(D, C) => Reaching(D, q) \subseteq C
  BY <1>3, ReachingIsLeastClosed
<1>6. QED
  BY <1>1, <1>4, <1>5 DEF W, D

Covered(h, r) == \E q \in RecordIds(h) : Losses(h, q) # {} /\ r \in ImpactOver(h, q)

LEMMA RootIsKnown ==
    ASSUME NEW h, Written(h), NEW q, Losses(h, q) # {}
    PROVE  q \in RecordIds(h)
<1>1. PICK i \in Losses(h, q) : TRUE
  OBVIOUS
<1>2. i \in Activations(h) /\ RelOf(h, i).target = q
  BY DEF Losses, Created, Activations, RelationTypeFor
<1>3. IsLog(h) /\ Unique(h) /\ Grows(h, h)
  <2>1. IsLog(h)
    BY DEF Written
  <2>2. Grows(h, h)
    BY <2>1, LogFacts DEF Grows
  <2>3. QED
    BY <2>1, <2>2, WrittenUnique
<1>4. QED
  BY <1>2, <1>3, RelOfStays, KnownRecord

LEMMA UnusableIsCovered ==
    ASSUME NEW h, Written(h), NEW r \in RecordIds(h), ~Usable(States(h)[r])
    PROVE  Covered(h, r)
<1>1. Losses(h, r) # {} \/ RootsOf(h, r) # {}
  BY StateIsMadeOf DEF Written
<1>2. CASE Losses(h, r) # {}
  BY <1>2, ImpactIsClosed DEF Covered
<1>3. CASE RootsOf(h, r) # {}
  <2>1. PICK i \in RootsOf(h, r) : TRUE
    BY <1>3
  <2>2. PICK q : q = RelOf(h, i).target
    OBVIOUS
  <2>3. i \in Roots(h) /\ r \in Reaching(DependsOn(h), q)
    BY <2>2 DEF RootsOf, StaleFrom
  <2>4. Losses(h, q) # {}
    BY <2>2, <2>3, LossesAndRoots DEF Written
  <2>5. q \in RecordIds(h)
    BY <2>4, RootIsKnown
  <2>6. QED
    BY <2>3, <2>4, <2>5, DependentsAreImpact DEF Covered
<1>4. QED
  BY <1>1, <1>2, <1>3

LEMMA BehindIsCovered ==
    ASSUME NEW h, Written(h), NEW e \in ExplainEdges(h), Covered(h, e.to)
    PROVE  Covered(h, e.from)
BY ImpactIsClosed DEF Covered

(***************************************************************************)
(* A state that is no longer what it was is that of a record that is no    *)
(* longer usable.                                                          *)
(***************************************************************************)
LEMMA UsableIsUnchanged ==
    ASSUME NEW p, Written(p), NEW h, Written(h), Grows(p, h), NEW x \in RecordIds(p),
           Usable(States(h)[x])
    PROVE  States(h)[x] = States(p)[x]
<1>1. x \in RecordIds(h) /\ Unique(h) /\ IsLog(p) /\ IsLog(h)
  BY RecordIdStays, WrittenUnique DEF Grows
<1>2. Usable(States(p)[x])
  BY <1>1, UnusableStays
<1>3. ASSUME NEW k, IsLog(k), x \in RecordIds(k), Usable(States(k)[x])
      PROVE  States(k)[x] = [invalidations |-> {}, superseded |-> {}, causes |-> {}]
  <2>1. PICK s : s = States(k)[x]
    OBVIOUS
  <2>2. s = [invalidations |-> s.invalidations, superseded |-> s.superseded,
             causes |-> s.causes]
    BY <1>3, <2>1, StateIsMadeOf
  <2>3. s.invalidations = {} /\ s.superseded = {} /\ s.causes = {}
    BY <1>3, <2>1 DEF Usable
  <2>4. QED
    BY <2>1, <2>2, <2>3
<1>4. QED
  BY <1>1, <1>2, <1>3

LEMMA StaleDecisionIsCovered ==
    ASSUME NEW h, Written(h), NEW d, IsOfType(h, d, "GateDecision"),
           ~DecisionFresh(h, States(h), d)
    PROVE  Covered(h, d)
<1>1. IsLog(h) /\ Unique(h) /\ HasRecord(h, d) /\ d \in RecordIds(h)
  BY WrittenUnique, KnownRecord DEF Written, IsOfType
<1> DEFINE q == Body(h, d).request
<1>2. PICK p : /\ Written(p) /\ Grows(p, h) /\ MayEvaluate(p, q)
               /\ Body(h, d) = Evaluate(p, States(p), q)
  BY EvaluatedBefore
<1> HIDE DEF q
<1>3. PICK sp, sh : sp = States(p) /\ sh = States(h)
  OBVIOUS
<1>4. Body(h, d).inputs = [x \in Inputs(p, q) |-> sp[x]]
  BY <1>2, <1>3 DEF Evaluate
<1>5. CASE ~Usable(sh[d])
  BY <1>1, <1>3, <1>5, UnusableIsCovered
<1>6. CASE Usable(sh[d])
  <2>1. PICK x \in Inputs(p, q) : sh[x] # sp[x]
    <3>1. ~DecisionFresh(h, sh, d)
      BY <1>3
    <3>2. QED
      BY <1>4, <1>6, <3>1 DEF DecisionFresh
  <2>2. x \in RecordIds(p) /\ x \in RecordIds(h)
    BY <1>2, <2>1, InputsKnown, RecordIdStays
  <2>3. ~Usable(States(h)[x])
    BY <1>2, <1>3, <2>1, <2>2, UsableIsUnchanged
  <2>4. Covered(h, x)
    BY <2>2, <2>3, UnusableIsCovered
  <2>5. PICK i : i = RecordAt(h, d)
    OBVIOUS
  <2>6. /\ i \in Created(h, "record") /\ h[i].id = d /\ h[i].type = "GateDecision"
        /\ h[i].body = Body(h, d)
    BY <1>1, <2>5, RecordFacts DEF Record, Body, IsOfType
  <2>7. <<"gate_evaluated_input", x>> \in Bindings(h[i])
    <3>1. Bindings(h[i]) = Each("gate_evaluated_input", DOMAIN h[i].body.inputs)
      BY <2>6 DEF Bindings
    <3>2. x \in DOMAIN h[i].body.inputs
      BY <1>4, <2>6
    <3>3. QED
      BY <3>1, <3>2 DEF Each
  <2>8. Edge(d, x, "gate_evaluated_input", i) \in ExplainEdges(h)
    <3>1. PICK y : y = <<"gate_evaluated_input", x>>
      OBVIOUS
    <3>2. Edge(h[i].id, y[2], y[1], i) \in ExplainEdges(h)
      BY <2>6, <2>7, <3>1, BindingHasEdge
    <3>3. QED
      BY <2>6, <3>1, <3>2
  <2>9. PICK e \in ExplainEdges(h) : e.from = d /\ e.to = x
    BY <2>8 DEF Edge
  <2>10. QED
    BY <2>4, <2>9, BehindIsCovered
<1>7. QED
  BY <1>5, <1>6

LEMMA StaleReleaseIsCovered ==
    ASSUME NEW h, Written(h), NEW r, IsOfType(h, r, "Release"),
           ~ReleaseFresh(h, States(h), r)
    PROVE  Covered(h, r)
<1> DEFINE i == RecordAt(h, r)
           p == Prefix(h, i - 1)
           d == Body(h, r).decision
<1>1. IsLog(h) /\ HasRecord(h, r) /\ h[i].type = "Release" /\ Body(h, r) = h[i].body
  BY DEF Written, IsOfType, Record, Body
<1>2. /\ i \in DOMAIN h /\ h[i].ev = "record" /\ i \in Created(h, "record") /\ h[i].id = r
      /\ r \in RecordIds(h)
  BY <1>1, RecordFacts, KnownRecord DEF Created, Record
<1>3. Written(p) /\ Grows(p, h) /\ Unique(h) /\ Fits(p, h[i])
  BY <1>2, AtPlace, WrittenUnique
<1> HIDE DEF i, p
<1>4. ReleaseAuthorized(p, States(p), Body(h, r))
  BY <1>1, <1>2, <1>3 DEF Fits, RecordFits, MayRelease
<1>5. IsOfType(p, d, "GateDecision") /\ Body(p, d).outcome = "permit"
  BY <1>4 DEF ReleaseAuthorized
<1>6. IsOfType(h, d, "GateDecision") /\ Body(h, d).outcome = "permit"
  BY <1>3, <1>5, RecordStays DEF IsOfType
<1>7. CASE ~Usable(States(h)[r])
  BY <1>2, <1>7, UnusableIsCovered
<1>8. CASE Usable(States(h)[r])
  <2>1. ~DecisionFresh(h, States(h), d)
    BY <1>6, <1>8 DEF ReleaseFresh
  <2> HIDE DEF d
  <2>2. Covered(h, d)
    BY <1>6, <2>1, StaleDecisionIsCovered
  <2>3. PICK y : y = <<"release_gate", d>>
    OBVIOUS
  <2>4. y \in Bindings(h[i])
    <3>1. Bindings(h[i]) = Each("release_subject", {h[i].body.subject})
                               \cup Each("release_gate", {h[i].body.decision})
      BY <1>1 DEF Bindings
    <3>2. h[i].body.decision = d
      BY <1>1 DEF d
    <3>3. QED
      BY <2>3, <3>1, <3>2 DEF Each
  <2>5. Edge(h[i].id, y[2], y[1], i) \in ExplainEdges(h)
    BY <1>2, <2>4, BindingHasEdge
  <2>6. PICK e \in ExplainEdges(h) : e.from = r /\ e.to = d
    BY <1>2, <2>3, <2>5 DEF Edge
  <2>7. QED
    BY <2>2, <2>6, BehindIsCovered
<1>9. QED
  BY <1>7, <1>8

-----------------------------------------------------------------------------
(***************************************************************************)
(* The event that makes a record unusable relates two records that the     *)
(* record depends on, itself included: it takes a root away, or it binds   *)
(* the last dependency of a path to one.                                   *)
(***************************************************************************)
LEMMA ActivationHasEntries ==
    ASSUME NEW h, NEW i \in Activations(h), NEW q \in {RelOf(h, i).source, RelOf(h, i).target}
    PROVE  \E x \in Entries(h, ExplainEdges(h), q) : x.at = i
<1>1. q = RelOf(h, i).source =>
          Entry(i, "state_source", {RelOf(h, i).target}) \in Entries(h, ExplainEdges(h), q)
  BY DEF Entries
<1>2. q = RelOf(h, i).target =>
          Entry(i, "state_target", {RelOf(h, i).source}) \in Entries(h, ExplainEdges(h), q)
  BY DEF Entries
<1>3. QED
  BY <1>1, <1>2, EntryIs

LEMMA LossWas ==
    ASSUME NEW p, Written(p), NEW h, Grows(p, h), Unique(h), NEW q, NEW i \in Losses(h, q),
           i <= Len(p)
    PROVE  i \in Losses(p, q)
<1>1. PICK ev \in {"invalidated", "superseded"} : i \in Created(h, ev)
  BY DEF Losses
<1>2. i \in Created(p, ev)
  BY <1>1, ActivationWas
<1>3. ev \in DOMAIN RelationTypeFor
  BY DEF RelationTypeFor
<1>4. RelOf(h, i) = RelOf(p, i)
  BY <1>2, <1>3, ActivationStays
<1>5. QED
  BY <1>1, <1>2, <1>4 DEF Losses

LEMMA DependencyWas ==
    ASSUME NEW p, Written(p), NEW h, Grows(p, h), Unique(h), NEW i \in Created(h, "bound"),
           i <= Len(p)
    PROVE  <<RelOf(h, i).source, RelOf(h, i).target>> \in DependsOn(p)
<1>1. i \in Created(p, "bound") /\ "bound" \in DOMAIN RelationTypeFor
  BY ActivationWas DEF RelationTypeFor
<1>2. RelOf(h, i) = RelOf(p, i)
  BY <1>1, ActivationStays
<1>3. QED
  BY <1>1, <1>2 DEF DependsOn

LEMMA NewLossIsRecorded ==
    ASSUME NEW p, Written(p), NEW h, Written(h), Grows(p, h), Len(h) = Len(p) + 1,
           NEW r \in RecordIds(p), Usable(States(p)[r]), ~Usable(States(h)[r])
    PROVE  \E q \in DependsOver(h, r) : \E x \in Entries(h, ExplainEdges(h), q) : x.at = Len(h)
<1> DEFINE W == DependsOver(h, r)
           Here(q) == \E x \in Entries(h, ExplainEdges(h), q) : x.at = Len(h)
<1>1. /\ IsLog(p) /\ IsLog(h) /\ Unique(p) /\ Unique(h) /\ r \in RecordIds(h)
      /\ Len(p) \in Nat /\ DOMAIN h = 1 .. Len(h)
  BY WrittenUnique, RecordIdStays, LogFacts DEF Grows
<1>2. Losses(p, r) = {} /\ RootsOf(p, r) = {}
  BY <1>1, StateIsMadeOf
<1>3. Losses(h, r) # {} \/ RootsOf(h, r) # {}
  BY <1>1, StateIsMadeOf
<1>4. r \in W /\ \A d \in DependsOn(h) : d[1] \in W => d[2] \in W
  BY <1>1, DependsOverIsClosed
<1>5. \A i \in DOMAIN h : i <= Len(p) \/ i = Len(h)
  BY <1>1
<1>6. ASSUME NEW q, NEW i \in Losses(h, q)
      PROVE  i \in Activations(h) /\ RelOf(h, i).target = q /\ i \in DOMAIN h
  BY DEF Losses, Created, Activations, RelationTypeFor
<1>7. ASSUME NEW q, NEW i \in Losses(h, q), i = Len(h) PROVE Here(q)
  BY <1>6, <1>7, ActivationHasEntries
<1> HIDE DEF Here
<1>8. CASE Losses(h, r) # {}
  <2>1. PICK i \in Losses(h, r) : TRUE
    BY <1>8
  <2>2. ~(i <= Len(p))
    BY <1>1, <1>2, LossWas
  <2>3. Here(r)
    BY <1>5, <1>6, <1>7, <2>2
  <2>4. QED
    BY <1>4, <2>3 DEF Here
<1>9. CASE RootsOf(h, r) # {}
  <2>1. PICK i \in RootsOf(h, r) : TRUE
    BY <1>9
  <2>2. PICK t : t = RelOf(h, i).target
    OBVIOUS
  <2>3. i \in Roots(h) /\ r \in Reaching(DependsOn(h), t) /\ r # t
    BY <2>1, <2>2 DEF RootsOf, StaleFrom
  <2>4. i \in Losses(h, t)
    BY <1>1, <2>2, <2>3, LossesAndRoots
  <2>5. CASE ~(i <= Len(p))
    <3>1. Here(t)
      BY <1>5, <1>6, <1>7, <2>4, <2>5
    <3>2. t \in W
      BY <1>1, <2>3, DependsOverIsReaching
    <3>3. QED
      BY <3>1, <3>2 DEF Here
  <2>6. CASE i <= Len(p)
    <3> DEFINE R == Reaching(DependsOn(p), t)
    <3>1. r \notin R
      <4>1. PICK j \in Roots(p) : RelOf(p, j).target = t
        BY <1>1, <2>4, <2>6, LossWas, LossesAndRoots
      <4>2. QED
        BY <1>2, <2>3, <4>1 DEF RootsOf, StaleFrom
    <3>2. t \in R /\ ClosedUnder(DependsOn(p), R)
      BY <1>1, DependsFinite, ReachingIsLeastClosed
    <3> HIDE DEF R
    <3>3. \E d \in DependsOn(h) : d \notin DependsOn(p) /\ d[1] \in W
      <4>1. SUFFICES ASSUME \A d \in DependsOn(h) : d[1] \in W => d \in DependsOn(p)
                     PROVE  FALSE
        OBVIOUS
      <4> DEFINE C == R \cup ({d[1] : d \in DependsOn(h)} \ W)
      <4>2. ASSUME NEW d \in DependsOn(h), d[2] \in C PROVE d[1] \in C
        <5>1. CASE d[1] \in W
          <6>1. d \in DependsOn(p) /\ d[2] \in R
            BY <1>4, <4>1, <4>2, <5>1
          <6>2. QED
            BY <3>2, <6>1 DEF ClosedUnder
        <5>2. CASE d[1] \notin W
          BY <5>2
        <5>3. QED
          BY <5>1, <5>2
      <4>3. t \in C
        BY <3>2
      <4> HIDE DEF C
      <4>4. Reaching(DependsOn(h), t) \subseteq C
        <5>1. IsFiniteSet(DependsOn(h))
          BY <1>1, DependsFinite
        <5>2. ClosedUnder(DependsOn(h), C)
          BY <4>2 DEF ClosedUnder
        <5>3. QED
          BY <4>3, <5>1, <5>2, ReachingIsLeastClosed
      <4>5. r \in C
        BY <2>3, <4>4
      <4>6. QED
        BY <1>4, <3>1, <4>5 DEF C
    <3>4. PICK d \in DependsOn(h) : d \notin DependsOn(p) /\ d[1] \in W
      BY <3>3
    <3>5. PICK k \in Created(h, "bound") : d = <<RelOf(h, k).source, RelOf(h, k).target>>
      BY DEF DependsOn
    <3>6. ~(k <= Len(p))
      BY <1>1, <3>4, <3>5, DependencyWas
    <3>7. k \in Activations(h) /\ k \in DOMAIN h
      BY DEF Created, Activations, RelationTypeFor
    <3>8. k = Len(h)
      BY <1>5, <3>6, <3>7
    <3>9. RelOf(h, k).source \in W
      BY <3>4, <3>5
    <3>10. \E x \in Entries(h, ExplainEdges(h), RelOf(h, k).source) : x.at = k
      BY <3>7, ActivationHasEntries
    <3>11. QED
      BY <3>8, <3>9, <3>10
  <2>7. QED
    BY <2>5, <2>6
<1>10. QED
  BY <1>3, <1>8, <1>9

-----------------------------------------------------------------------------
(***************************************************************************)
(* The answer to a search, and to one that is asked for everything.        *)
(***************************************************************************)
LEMMA AnswerIsExact ==
    ASSUME NEW adjacent, NEW start, NEW until, Searchable(adjacent, start, until),
           NEW b \in QueryBounds
    PROVE  IsExact(Search(adjacent, start, until, b), adjacent, start, until, b)
<1> DEFINE looks == Looks(adjacent, start, until, b.depth)
<1>1. PICK reply, results : /\ reply = Search(adjacent, start, until, b)
                            /\ results = Results(adjacent, start, until, b.depth)
  OBVIOUS
<1>2. /\ reply.refused <=>
             Cardinality(results) > b.results \/ Cardinality(looks) > b.expansions
      /\ ~reply.refused => Lists(reply.paths, results)
  BY <1>1, SearchAnswers
<1>3. ASSUME Lists(reply.paths, results)
      PROVE  Range(reply.paths) = results /\ Len(reply.paths) = Cardinality(results)
  <2>1. PICK q : q = reply.paths
    OBVIOUS
  <2>2. /\ q \in Seq(results) /\ DOMAIN q = 1 .. Len(q)
        /\ \A x \in results : \E n \in 1 .. Len(q) : q[n] = x
    BY <1>3, <2>1 DEF Lists
  <2>3. Range(q) = results
    BY <2>2 DEF Range
  <2>4. QED
    BY <1>3, <2>1, <2>3, ListsSize
<1>4. CASE Cardinality(results) > b.results \/ Cardinality(looks) > b.expansions
  BY <1>1, <1>2, <1>4 DEF IsExact
<1>5. CASE ~(Cardinality(results) > b.results \/ Cardinality(looks) > b.expansions)
  BY <1>1, <1>2, <1>3, <1>5 DEF IsExact
<1>6. QED
  BY <1>4, <1>5

LEMMA EnoughIs ==
    ASSUME NEW adjacent, NEW start, Searchable(adjacent, start, {})
    PROVE  /\ Enough(adjacent, start) \in QueryBounds
           /\ ~Search(adjacent, start, {}, Enough(adjacent, start)).refused
           /\ Range(Search(adjacent, start, {}, Enough(adjacent, start)).paths) =
                  SimplePaths(adjacent, start, {}, Cardinality(DOMAIN adjacent)) \ {<<>>}
<1> DEFINE d == Cardinality(DOMAIN adjacent)
           results == Results(adjacent, start, {}, d)
           looks == Looks(adjacent, start, {}, d)
           b == Enough(adjacent, start)
<1>1. d \in Nat
  BY FS_CardinalityType DEF Searchable
<1>2. IsFiniteSet(results) /\ IsFiniteSet(looks)
  <2> DEFINE any == [depth |-> d, results |-> 1, expansions |-> 1]
  <2>1. any \in QueryBounds /\ any.depth = d
    BY <1>1 DEF QueryBounds
  <2> HIDE DEF any, d
  <2>2. QED
    BY <2>1, WholeSearch
<1>3. Cardinality(results) \in Nat /\ Cardinality(looks) \in Nat
  BY <1>2, FS_CardinalityType
<1>4. /\ b = [depth |-> d, results |-> AtLeastOne(Cardinality(results)),
              expansions |-> AtLeastOne(Cardinality(looks))]
  BY DEF Enough
<1> HIDE DEF b, d, looks
<1>5. \A n \in Nat : AtLeastOne(n) \in Nat \ {0} /\ ~(n > AtLeastOne(n))
  BY DEF AtLeastOne
<1>6. b \in QueryBounds /\ b.depth = d
      /\ ~(Cardinality(results) > b.results) /\ ~(Cardinality(looks) > b.expansions)
  <2> HIDE DEF results
  <2>1. QED
    BY <1>1, <1>3, <1>4, <1>5 DEF QueryBounds
<1>7. IsExact(Search(adjacent, start, {}, b), adjacent, start, {}, b)
  BY <1>6, AnswerIsExact
<1>8. /\ ~Search(adjacent, start, {}, b).refused
      /\ Range(Search(adjacent, start, {}, b).paths) = results
  <2> HIDE DEF results
  <2>1. QED
    BY <1>6, <1>7 DEF IsExact, results, looks
<1>9. results = SimplePaths(adjacent, start, {}, d) \ {<<>>}
  BY DEF Results
<1>10. QED
  BY <1>6, <1>8, <1>9 DEF b, d

(***************************************************************************)
(* why and impact give every simple path over the recorded edges of up to  *)
(* the depth asked for, or they are refused because there are too many.    *)
(* Longer paths are left out without a word (feedback.py).                 *)
(***************************************************************************)
THEOREM SpecExplanationIsExact == Spec => []ExplanationIsExact
<1>1. IInv => ExplanationIsExact
  <2> SUFFICES ASSUME IInv, NEW r \in RecordIds(log)
               PROVE  LET out == Outgoing(ExplainEdges(log), r)
                          in  == Incoming(ExplainEdges(log), r)
                      IN  /\ \A b \in {Enough(out, r)} \cup Bounds[scenario].queries :
                                 IsExact(Why(ExplainEdges(log), r, b), out, r, {}, b)
                          /\ \A b \in {Enough(in, r)} \cup Bounds[scenario].queries :
                                 IsExact(Impact(ExplainEdges(log), r, b), in, r, {}, b)
    BY DEF ExplanationIsExact
  <2> DEFINE edges == ExplainEdges(log)
             out == Outgoing(edges, r)
             in  == Incoming(edges, r)
  <2>1. Written(log) /\ scenario \in DOMAIN Scenario
    BY DEF IInv, Shape
  <2>2. Searchable(out, r, {}) /\ Searchable(in, r, {})
    BY <2>1, ExplainSearchable
  <2>3. Bounds[scenario].queries \subseteq QueryBounds
    BY <2>1, BoundsAssumption
  <2> HIDE DEF out, in
  <2>4. Enough(out, r) \in QueryBounds /\ Enough(in, r) \in QueryBounds
    BY <2>2, EnoughIs
  <2>5. \A b \in QueryBounds : /\ IsExact(Search(out, r, {}, b), out, r, {}, b)
                               /\ IsExact(Search(in, r, {}, b), in, r, {}, b)
    BY <2>2, AnswerIsExact
  <2>6. \A b : /\ Why(edges, r, b) = Search(out, r, {}, b)
               /\ Impact(edges, r, b) = Search(in, r, {}, b)
    BY DEF Why, Impact, out, in
  <2> HIDE DEF edges
  <2>7. QED
    BY <2>3, <2>4, <2>5, <2>6 DEF out, in, edges
<1>2. QED
  BY <1>1, Invariance, PTL

(***************************************************************************)
(* The provenance paths between two records are all the simple paths that  *)
(* end at the second, up to the depth asked for, or the query is refused.  *)
(* Longer paths are left out without a word (graph.py).                    *)
(***************************************************************************)
THEOREM SpecProvenanceIsExact == Spec => []ProvenanceIsExact
<1>1. IInv => ProvenanceIsExact
  <2> DEFINE types == {log[i].type : i \in Created(log, "relation")}
             next(dir) == [id \in RecordIds(log) |-> Neighbors(log, id, dir, types)]
  <2> SUFFICES ASSUME IInv, NEW r \in RecordIds(log), NEW q \in RecordIds(log),
                      NEW dir \in Directions, NEW b \in Bounds[scenario].provenance
               PROVE  IF r = q
                      THEN ProvenancePaths(log, r, q, dir, types, b)
                               = [refused |-> FALSE, paths |-> << <<>> >>]
                      ELSE IsExact(ProvenancePaths(log, r, q, dir, types, b),
                                   next(dir), r, {q}, b)
    BY DEF ProvenanceIsExact
  <2>1. Written(log) /\ scenario \in DOMAIN Scenario
    BY DEF IInv, Shape
  <2>2. b \in QueryBounds
    BY <2>1, BoundsAssumption
  <2>3. CASE r = q
    BY <2>3 DEF ProvenancePaths
  <2>4. CASE r # q
    <3>1. Searchable(next(dir), r, {q})
      BY <2>1, <2>4, NeighborsSearchable
    <3>2. ProvenancePaths(log, r, q, dir, types, b) = Search(next(dir), r, {q}, b)
      BY <2>4 DEF ProvenancePaths
    <3> HIDE DEF next, types
    <3>3. IsExact(Search(next(dir), r, {q}, b), next(dir), r, {q}, b)
      BY <2>2, <3>1, AnswerIsExact
    <3>4. QED
      BY <2>4, <3>2, <3>3
  <2>5. QED
    BY <2>3, <2>4
<1>2. QED
  BY <1>1, Invariance, PTL

(***************************************************************************)
(* Asked as deep as there are records, and for enough results and work,    *)
(* why and impact (feedback.py) answer, and leave out no simple path of    *)
(* whatever length.                                                        *)
(***************************************************************************)
THEOREM SpecWideAnswersAreWhole ==
    Spec => [](LET edges == ExplainEdges(log) IN
               \A r \in RecordIds(log) :
                   LET out == Outgoing(edges, r)
                       in  == Incoming(edges, r)
                   IN  /\ ~Why(edges, r, Enough(out, r)).refused
                       /\ \A n \in Nat : Results(out, r, {}, n) \subseteq WhyAll(edges, r)
                       /\ ~Impact(edges, r, Enough(in, r)).refused
                       /\ \A n \in Nat : Results(in, r, {}, n) \subseteq ImpactAll(edges, r))
<1> DEFINE edges == ExplainEdges(log)
           out(r) == Outgoing(edges, r)
           in(r)  == Incoming(edges, r)
           Whole == \A r \in RecordIds(log) :
                        /\ ~Why(edges, r, Enough(out(r), r)).refused
                        /\ \A n \in Nat : Results(out(r), r, {}, n) \subseteq WhyAll(edges, r)
                        /\ ~Impact(edges, r, Enough(in(r), r)).refused
                        /\ \A n \in Nat : Results(in(r), r, {}, n) \subseteq ImpactAll(edges, r)
<1>1. ASSUME NEW adjacent, NEW r, Searchable(adjacent, r, {})
      PROVE  /\ ~Search(adjacent, r, {}, Enough(adjacent, r)).refused
             /\ \A n \in Nat : Results(adjacent, r, {}, n) \subseteq
                                   Range(Search(adjacent, r, {}, Enough(adjacent, r)).paths)
  <2>1. /\ ~Search(adjacent, r, {}, Enough(adjacent, r)).refused
        /\ Range(Search(adjacent, r, {}, Enough(adjacent, r)).paths) =
               SimplePaths(adjacent, r, {}, Cardinality(DOMAIN adjacent)) \ {<<>>}
    BY <1>1, EnoughIs
  <2>2. \A n \in Nat : Results(adjacent, r, {}, n) \subseteq
                            Results(adjacent, r, {}, Cardinality(DOMAIN adjacent))
    BY <1>1, NothingDeeper
  <2>3. Results(adjacent, r, {}, Cardinality(DOMAIN adjacent)) \subseteq
            SimplePaths(adjacent, r, {}, Cardinality(DOMAIN adjacent)) \ {<<>>}
    BY DEF Results
  <2>4. QED
    BY <2>1, <2>2, <2>3
<1>2. IInv => Whole
  <2> SUFFICES ASSUME IInv, NEW r \in RecordIds(log)
               PROVE  /\ ~Why(edges, r, Enough(out(r), r)).refused
                      /\ \A n \in Nat : Results(out(r), r, {}, n) \subseteq WhyAll(edges, r)
                      /\ ~Impact(edges, r, Enough(in(r), r)).refused
                      /\ \A n \in Nat : Results(in(r), r, {}, n) \subseteq ImpactAll(edges, r)
    OBVIOUS
  <2>1. Searchable(out(r), r, {}) /\ Searchable(in(r), r, {})
    BY ExplainSearchable DEF IInv
  <2>2. /\ Why(edges, r, Enough(out(r), r)) = Search(out(r), r, {}, Enough(out(r), r))
        /\ WhyAll(edges, r) = Range(Search(out(r), r, {}, Enough(out(r), r)).paths)
        /\ Impact(edges, r, Enough(in(r), r)) = Search(in(r), r, {}, Enough(in(r), r))
        /\ ImpactAll(edges, r) = Range(Search(in(r), r, {}, Enough(in(r), r)).paths)
    BY DEF Why, WhyAll, Impact, ImpactAll
  <2> HIDE DEF edges, out, in
  <2>3. QED
    BY <1>1, <2>1, <2>2
<1>3. QED
  BY <1>2, Invariance, PTL

(***************************************************************************)
(* An event that relates two records is on both their timelines: whichever *)
(* way it relates them, each is an end of the same pair.                   *)
(***************************************************************************)
THEOREM SpecTimelinesAgree == Spec => []TimelinesAgree
<1>1. IInv => TimelinesAgree
  <2> DEFINE edges == ExplainEdges(log)
             line(r) == Timeline(log, edges, r, Len(log)).entries
  <2> SUFFICES ASSUME IInv, NEW r \in RecordIds(log), NEW e \in line(r), NEW q \in e.related
               PROVE  \E f \in line(q) : f.at = e.at /\ r \in f.related
    BY DEF TimelinesAgree
  <2>1. Written(log)
    BY DEF IInv
  <2>2. e \in Entries(log, edges, r)
    BY <2>1, TimelineIs
  <2>3. q \in RecordIds(log)
        /\ \E f \in Entries(log, edges, q) : f.at = e.at /\ r \in f.related
    BY <2>1, <2>2, EntriesMeet
  <2>4. line(q) = Entries(log, edges, q)
    BY <2>1, <2>3, TimelineIs
  <2>5. QED
    BY <2>3, <2>4
<1>2. QED
  BY <1>1, Invariance, PTL

-----------------------------------------------------------------------------
(***************************************************************************)
(* What why and impact answer when they are asked for everything.          *)
(***************************************************************************)
WhyPaths(h, r) ==
    LET out == Outgoing(ExplainEdges(h), r) IN SimplePaths(out, r, {}, Cardinality(DOMAIN out))

ImpactPaths(h, q) ==
    LET in == Incoming(ExplainEdges(h), q) IN SimplePaths(in, q, {}, Cardinality(DOMAIN in))

LEMMA WhyAllIs ==
    ASSUME NEW h, Written(h), NEW r \in RecordIds(h)
    PROVE  /\ WhyAll(ExplainEdges(h), r) = WhyPaths(h, r) \ {<<>>}
           /\ {p[Len(p)].to : p \in {q \in WhyPaths(h, r) \ {<<>>} : Range(q) \subseteq Dependencies(h)}}
                  = DependsOver(h, r) \ {r}
<1> DEFINE out == Outgoing(ExplainEdges(h), r)
<1>1. Searchable(out, r, {})
  BY ExplainSearchable
<1>2. WhyAll(ExplainEdges(h), r) = Range(Search(out, r, {}, Enough(out, r)).paths)
  BY DEF WhyAll, Why
<1>3. WhyPaths(h, r) = SimplePaths(out, r, {}, Cardinality(DOMAIN out))
      /\ DependsOver(h, r) = Gets(out, r, Dependencies(h))
  BY DEF WhyPaths, DependsOver
<1> HIDE DEF out
<1>4. Range(Search(out, r, {}, Enough(out, r)).paths) =
          SimplePaths(out, r, {}, Cardinality(DOMAIN out)) \ {<<>>}
  BY <1>1, EnoughIs
<1>5. {p[Len(p)].to : p \in {q \in SimplePaths(out, r, {}, Cardinality(DOMAIN out)) \ {<<>>} :
                                Range(q) \subseteq Dependencies(h)}}
          = Gets(out, r, Dependencies(h)) \ {r}
  BY <1>1, GetsOther
<1>6. QED
  BY <1>2, <1>3, <1>4, <1>5

LEMMA ImpactAllIs ==
    ASSUME NEW h, Written(h), NEW q \in RecordIds(h)
    PROVE  Reached(ImpactAll(ExplainEdges(h), q)) = ImpactOver(h, q) \ {q}
<1> DEFINE in == Incoming(ExplainEdges(h), q)
           P == SimplePaths(in, q, {}, Cardinality(DOMAIN in))
<1>1. Searchable(in, q, {})
  BY ExplainSearchable
<1>2. ImpactAll(ExplainEdges(h), q) = Range(Search(in, q, {}, Enough(in, q)).paths)
  BY DEF ImpactAll, Impact
<1>3. ImpactOver(h, q) = Gets(in, q, StepsOf(in))
  BY DEF ImpactOver
<1> HIDE DEF in
<1>4. ImpactAll(ExplainEdges(h), q) = P \ {<<>>}
  BY <1>1, <1>2, EnoughIs
<1>5. {p[Len(p)].to : p \in {z \in P \ {<<>>} : Range(z) \subseteq StepsOf(in)}}
          = Gets(in, q, StepsOf(in)) \ {q}
  BY <1>1, GetsOther
<1>6. \A z \in P : Range(z) \subseteq StepsOf(in)
  <2>1. Cardinality(DOMAIN in) \in Nat
    BY <1>1, FS_CardinalityType DEF Searchable
  <2>2. \A z \in P : z \in Seq(StepsOf(in))
    BY <1>1, <2>1, PathFacts
  <2> HIDE DEF P
  <2>3. QED
    BY <2>2 DEF Range
<1> HIDE DEF P
<1>7. {z \in P \ {<<>>} : Range(z) \subseteq StepsOf(in)} = P \ {<<>>}
  BY <1>6
<1>8. QED
  BY <1>3, <1>4, <1>5, <1>7 DEF Reached

LEMMA StalenessExplained ==
    ASSUME NEW h, Written(h), NEW r \in RecordIds(h),
           NEW why, why = WhyAll(ExplainEdges(h), r),
           NEW depends, depends = {p \in why : \A n \in DOMAIN p : p[n].kind = "qualified_dependency"}
    PROVE  /\ {RelOf(h, cause.root).target : cause \in States(h)[r].causes}
                  = {q \in Reached(depends) : LosesStanding(States(h)[q]) # {}}
           /\ \A p \in depends : \A i \in LosesStanding(States(h)[EndOf(r, p)]) :
                  RelOf(h, i).source \in On(r, p) \/ Append(p, StateEdge(h, i)) \in why
<1>1. IsLog(h)
  BY DEF Written
<1> DEFINE out == Outgoing(ExplainEdges(h), r)
<1>2. PICK P : P = WhyPaths(h, r)
  OBVIOUS
<1>3. PICK d : d = Cardinality(DOMAIN out)
  OBVIOUS
<1>4. Searchable(out, r, {}) /\ d \in Nat /\ P = SimplePaths(out, r, {}, d)
  BY <1>2, <1>3, ExplainSearchable, FS_CardinalityType DEF Searchable, WhyPaths
<1>5. why = P \ {<<>>}
  BY <1>2, WhyAllIs
<1>6. \A p \in P : p \in Seq(StepsOf(out)) /\ EndOf(r, p) \in DOMAIN out
  <2> HIDE DEF out
  <2>1. \A p \in P : p \in Seq(StepsOf(out))
    BY <1>4, PathFacts
  <2>2. QED
    BY <1>4, <2>1, StepsKnown
<1>7. StepsOf(out) \subseteq ExplainEdges(h)
  BY DEF StepsOf, Outgoing
<1>8. DOMAIN out \subseteq RecordIds(h)
  BY EdgesKnown DEF Outgoing, Mentioned
<1>9. \A q \in RecordIds(h) : LosesStanding(States(h)[q]) = Losses(h, q)
  BY <1>1, StateIsMadeOf DEF LosesStanding
<1> HIDE DEF out
<1>10. depends = {p \in P \ {<<>>} : Range(p) \subseteq Dependencies(h)}
  <2>1. ASSUME NEW p \in P
        PROVE  (\A n \in DOMAIN p : p[n].kind = "qualified_dependency")
                   <=> Range(p) \subseteq Dependencies(h)
    <3>1. \A n \in DOMAIN p : p[n] \in ExplainEdges(h)
      BY <1>6, <1>7
    <3>2. QED
      BY <3>1 DEF Range, Dependencies
  <2>2. QED
    BY <1>5, <2>1
<1>11. Reached(depends) = DependsOver(h, r) \ {r}
  BY <1>2, <1>10, WhyAllIs DEF Reached
<1>12. DependsOver(h, r) \subseteq RecordIds(h)
  BY DependsOverIsClosed
<1>13. {RelOf(h, cause.root).target : cause \in States(h)[r].causes}
           = {RelOf(h, i).target : i \in RootsOf(h, r)}
  <2>1. PICK causes : causes = States(h)[r].causes
    OBVIOUS
  <2>2. {c.root : c \in causes} = RootsOf(h, r)
    BY <1>1, <2>1, CausesAreReaching DEF RootsOf
  <2>3. QED
    BY <2>1, <2>2
<1>14. {RelOf(h, cause.root).target : cause \in States(h)[r].causes}
           = {q \in Reached(depends) : LosesStanding(States(h)[q]) # {}}
  <2>1. {RelOf(h, i).target : i \in RootsOf(h, r)}
            = {q \in DependsOver(h, r) \ {r} : Losses(h, q) # {}}
    BY RootsAreDependedOn
  <2>2. QED
    BY <1>9, <1>11, <1>12, <1>13, <2>1
<1>15. ASSUME NEW p \in depends, NEW i \in LosesStanding(States(h)[EndOf(r, p)])
       PROVE  RelOf(h, i).source \in On(r, p) \/ Append(p, StateEdge(h, i)) \in why
  <2>1. p \in SimplePaths(out, r, {}, d) /\ EndOf(r, p) \in RecordIds(h)
    BY <1>4, <1>6, <1>8, <1>10
  <2>2. i \in Losses(h, EndOf(r, p))
    BY <1>9, <2>1
  <2>3. \/ RelOf(h, i).source \in On(r, p)
        \/ Append(p, StateEdge(h, i)) \in SimplePaths(out, r, {}, d)
    BY <1>3, <2>1, <2>2, LossIsExplained DEF out
  <2>4. Append(p, StateEdge(h, i)) # <<>>
    <3>1. p \in Seq(StepsOf(out)) /\ p \in Seq(StepsOf(out) \cup {StateEdge(h, i)})
      BY <1>6, <1>10
    <3>2. QED
      BY <3>1, Longer
  <2>5. QED
    BY <1>4, <1>5, <2>3, <2>4
<1>16. QED
  BY <1>14, <1>15

(***************************************************************************)
(* A record is stale because of exactly the roots that its why leads to,   *)
(* and why goes on to what took each of them away.                         *)
(***************************************************************************)
THEOREM SpecStalenessIsExplained == Spec => []StalenessIsExplained
<1>1. IInv => StalenessIsExplained
  <2> SUFFICES ASSUME IInv, NEW r \in RecordIds(log)
               PROVE  LET why     == WhyAll(ExplainEdges(log), r)
                          depends == {p \in why :
                                        \A n \in DOMAIN p : p[n].kind = "qualified_dependency"}
                      IN  /\ {RelOf(log, cause.root).target : cause \in States(log)[r].causes}
                                 = {q \in Reached(depends) : LosesStanding(States(log)[q]) # {}}
                          /\ \A p \in depends : \A i \in LosesStanding(States(log)[EndOf(r, p)]) :
                                 \/ RelOf(log, i).source \in On(r, p)
                                 \/ Append(p, StateEdge(log, i)) \in why
    BY DEF StalenessIsExplained
  <2>1. Written(log)
    BY DEF IInv
  <2>2. QED
    BY <2>1, StalenessExplained
<1>2. QED
  BY <1>1, Invariance, PTL

LEMMA StaleIsCovered ==
    ASSUME NEW h, Written(h)
    PROVE  /\ \A i \in Records(h, "GateDecision") :
                  ~DecisionFresh(h, States(h), h[i].id) => Covered(h, h[i].id)
           /\ \A i \in Records(h, "Release") :
                  ~ReleaseFresh(h, States(h), h[i].id) => Covered(h, h[i].id)
<1>1. IsLog(h) /\ Unique(h)
  BY WrittenUnique DEF Written
<1>2. ASSUME NEW type, NEW i \in Records(h, type) PROVE IsOfType(h, h[i].id, type)
  <2>1. i \in Created(h, "record") /\ h[i].type = type
    BY DEF Records
  <2>2. QED
    BY <1>1, <2>1, RecordAtPlace DEF IsOfType
<1>3. QED
  BY <1>2, StaleDecisionIsCovered, StaleReleaseIsCovered

LEMMA NothingHidden ==
    ASSUME NEW h, Written(h)
    PROVE  LET states   == States(h)
               edges    == ExplainEdges(h)
               lost     == {q \in RecordIds(h) : LosesStanding(states[q]) # {}}
               impact   == [q \in lost |-> Reached(ImpactAll(edges, q))]
               roots(r) == {RelOf(h, cause.root).target : cause \in states[r].causes}
               stale    == {d \in {h[i].id : i \in Records(h, "GateDecision")} :
                               ~DecisionFresh(h, states, d)}
                               \cup {v \in {h[i].id : i \in Records(h, "Release")} :
                                        ~ReleaseFresh(h, states, v)}
           IN  /\ \A r \in RecordIds(h) : \A q \in roots(r) : r \in impact[q]
               /\ stale \subseteq lost \cup UNION {impact[q] : q \in lost}
<1> DEFINE states == States(h)
           lost == {q \in RecordIds(h) : LosesStanding(states[q]) # {}}
           impact == [q \in lost |-> Reached(ImpactAll(ExplainEdges(h), q))]
           covered == lost \cup UNION {impact[q] : q \in lost}
<1>1. /\ \A r \in RecordIds(h) : \A cause \in states[r].causes :
             r \in impact[RelOf(h, cause.root).target]
      /\ \A x : Covered(h, x) => x \in covered
  <2>1. lost = {q \in RecordIds(h) : Losses(h, q) # {}}
    <3>1. \A q \in RecordIds(h) : LosesStanding(states[q]) = Losses(h, q)
      BY StateIsMadeOf DEF LosesStanding, Written
    <3> HIDE DEF states
    <3>2. QED
      BY <3>1
  <2>2. \A q \in lost : impact[q] = Reached(ImpactAll(ExplainEdges(h), q))
    <3> HIDE DEF lost
    <3>1. QED
      OBVIOUS
  <2> HIDE DEF lost, impact
  <2>3. \A q \in lost : impact[q] = ImpactOver(h, q) \ {q}
    BY <2>1, <2>2, ImpactAllIs
  <2>4. ASSUME NEW r \in RecordIds(h), NEW cause \in states[r].causes
        PROVE  r \in impact[RelOf(h, cause.root).target]
    <3>1. cause.root \in RootsOf(h, r)
      BY CausesAreReaching DEF RootsOf, Written
    <3>2. PICK q : q = RelOf(h, cause.root).target
      OBVIOUS
    <3>3. cause.root \in Roots(h) /\ r \in Reaching(DependsOn(h), q) /\ r # q
      BY <3>1, <3>2 DEF RootsOf, StaleFrom
    <3>4. q \in RecordIds(h) /\ q \in lost
      BY <2>1, <3>2, <3>3, LossesAndRoots, RootIsKnown DEF Written
    <3>5. r \in ImpactOver(h, q)
      BY <3>3, <3>4, DependentsAreImpact
    <3>6. QED
      BY <2>3, <3>2, <3>3, <3>4, <3>5
  <2>5. ASSUME NEW x, Covered(h, x)
        PROVE  x \in lost \cup UNION {impact[q] : q \in lost}
    <3>1. PICK q \in lost : x \in ImpactOver(h, q)
      BY <2>1, <2>5 DEF Covered
    <3>2. x = q \/ x \in impact[q]
      BY <2>3, <3>1
    <3>3. QED
      BY <3>1, <3>2
  <2>6. QED
    BY <2>4, <2>5
<1>2. /\ \A i \in Records(h, "GateDecision") :
             ~DecisionFresh(h, states, h[i].id) => Covered(h, h[i].id)
      /\ \A i \in Records(h, "Release") :
             ~ReleaseFresh(h, states, h[i].id) => Covered(h, h[i].id)
  BY StaleIsCovered
<1> HIDE DEF states, lost, impact, covered
<1>3. \A r \in RecordIds(h) :
          \A q \in {RelOf(h, cause.root).target : cause \in states[r].causes} : r \in impact[q]
  BY <1>1
<1>4. {d \in {h[i].id : i \in Records(h, "GateDecision")} : ~DecisionFresh(h, states, d)}
          \cup {v \in {h[i].id : i \in Records(h, "Release")} : ~ReleaseFresh(h, states, v)}
          \subseteq covered
  BY <1>1, <1>2
<1>5. QED
  BY <1>3, <1>4 DEF states, lost, impact, covered

(***************************************************************************)
(* Whatever lost its standing or its freshness lost it to a record whose   *)
(* impact lists it.                                                        *)
(***************************************************************************)
THEOREM SpecImpactIsCovered == Spec => []ImpactIsCovered
<1>1. IInv => ImpactIsCovered
  <2>1. IInv => Written(log)
    BY DEF IInv
  <2>2. Written(log) => ImpactIsCovered
    BY NothingHidden DEF ImpactIsCovered, Decisions, Releases
  <2>3. QED
    BY <2>1, <2>2
<1>2. QED
  BY <1>1, Invariance, PTL

(***************************************************************************)
(* The event that made a record unusable is on its timeline or on that of  *)
(* a record its why leads to.                                              *)
(***************************************************************************)
LEMMA NewLossIsOnTimeline ==
    ASSUME NEW p, Written(p), NEW h, Written(h), Grows(p, h), Len(h) = Len(p) + 1,
           NEW r \in RecordIds(p), Usable(States(p)[r]), ~Usable(States(h)[r])
    PROVE  \E q \in {r} \cup Reached(WhyAll(ExplainEdges(h), r)) :
               \E e \in Entries(h, ExplainEdges(h), q) : e.at = Len(h)
<1>1. r \in RecordIds(h)
  BY RecordIdStays
<1>2. PICK q \in DependsOver(h, r) : \E e \in Entries(h, ExplainEdges(h), q) : e.at = Len(h)
  BY NewLossIsRecorded
<1>3. PICK P : P = WhyPaths(h, r)
  OBVIOUS
<1>4. WhyAll(ExplainEdges(h), r) = P \ {<<>>}
      /\ {p1[Len(p1)].to : p1 \in {z \in P \ {<<>>} : Range(z) \subseteq Dependencies(h)}}
             = DependsOver(h, r) \ {r}
  BY <1>1, <1>3, WhyAllIs
<1>5. q \in {r} \cup Reached(WhyAll(ExplainEdges(h), r))
  BY <1>2, <1>4 DEF Reached
<1>6. QED
  BY <1>2, <1>5

(***************************************************************************)
(* The event that takes the standing of a record is on its timeline or on  *)
(* that of a record its why leads to (feedback.py: timeline, why).         *)
(***************************************************************************)
THEOREM SpecLossesAreOnTimelines == Spec => []LossesAreOnTimelines
<1>1. IInv => LossesAreOnTimelines
  <2> SUFFICES ASSUME IInv, log # <<>>,
                      NEW r \in {q \in RecordIds(Front(log)) :
                                   Usable(States(Front(log))[q]) /\ ~Usable(States(log)[q])}
               PROVE  \E q \in {r} \cup Reached(WhyAll(ExplainEdges(log), r)) :
                          \E e \in Entries(log, ExplainEdges(log), q) : e.at = Len(log)
    BY DEF LossesAreOnTimelines
  <2>1. Written(log) /\ IsLog(log)
    BY DEF IInv, Written
  <2>2. Len(log) \in Nat /\ Len(log) - 1 \in 0 .. Len(log)
    BY <2>1, SameLog, LogFacts DEF IsLog
  <2>3. Front(log) = Prefix(log, Len(log) - 1)
    BY DEF Front, Prefix
  <2>4. PICK p : p = Front(log)
    OBVIOUS
  <2>5. Written(p) /\ Grows(p, log) /\ Len(p) = Len(log) - 1
    BY <2>1, <2>2, <2>3, <2>4, WrittenPrefix, PrefixGrows, PrefixFacts
  <2>6. Len(log) = Len(p) + 1
    BY <2>2, <2>5
  <2>7. QED
    BY <2>1, <2>4, <2>5, <2>6, NewLossIsOnTimeline
<1>2. QED
  BY <1>1, Invariance, PTL

=============================================================================
