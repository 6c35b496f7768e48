--------------------------- MODULE CreditMemoProofs ---------------------------
(***************************************************************************)
(* Proofs about CreditMemo and the circuit it calls through, for any       *)
(* number of processes and administrators, any threshold and limit, and    *)
(* any admitted fault.                                                     *)
(***************************************************************************)
EXTENDS CreditMemo, TLAPS, SequenceTheorems

Pc == {"idle", "batch", "other", "look", "ready", "create", "created", "record", "failing"}
Push == [pc : Pc, batch : BOOLEAN, listed : BOOLEAN]
CallPc == {"none", "before", "called", "succeeding", "failing", "returned", "threw",
           "rejected"}
Call == [pc : CallPc, probe : BOOLEAN, todo : Seq(Update)]
Circuit == [state : {"CLOSED", "OPEN", "HALF_OPEN"}, failures : 0 .. Threshold,
            inFlight : -MaxFlight .. MaxFlight, completed : -MaxFlight .. MaxFlight,
            openedAt : {"unset", "now", "past"}]

(* The types of the circuit and its calls; only a call that is changing the  *)
(* circuit has writes to do.                                                 *)
BreakerTyped ==
  /\ circuit \in Circuit
  /\ call \in [Caller -> Call]
  /\ \A c \in Caller :
       call[c].todo # <<>> => call[c].pc \in {"before", "succeeding", "failing"}

TypeInv == TypeOK /\ BreakerTyped

(* The call that made a memo, until the audit log has it.                    *)
Made(w) ==
  \/ At(w, "create") /\ call[w].pc \in {"succeeding", "returned"}
  \/ push[w].pc \in {"created", "record"}

(* Whoever says that there is a memo is right.                               *)
MemoBacked ==
  /\ audit => memos > 0
  /\ \A w \in Caller : Made(w) => memos > 0

SyncedInv == TypeInv /\ MemoBacked /\ SyncedIsPosted

-----------------------------------------------------------------------------
(* The circuit's types.                                                      *)

LEMMA CappedTyped == \A n \in Int : Capped(n) \in -MaxFlight .. MaxFlight
BY BreakerConstantsOK DEF Capped

LEMMA BlankTyped == Blank \in Circuit /\ NoCall \in Call
<1>1. 0 \in -MaxFlight .. MaxFlight /\ 0 \in 0 .. Threshold
  BY BreakerConstantsOK
<1>2. <<>> \in Seq(Update)
  OBVIOUS
<1>3. QED
  BY <1>1, <1>2 DEF Blank, NoCall, Circuit, Call, CallPc

LEMMA EffectTyped ==
  ASSUME circuit \in Circuit, NEW u \in Update
  PROVE  Effect(u) \in Circuit
<1>1. /\ circuit.inFlight \in Int /\ circuit.completed \in Int
      /\ circuit.failures \in 0 .. Threshold /\ Threshold \in Nat \ {0}
      /\ 0 \in -MaxFlight .. MaxFlight /\ 0 \in 0 .. Threshold
  BY BreakerConstantsOK DEF Circuit
<1>2. /\ Capped(circuit.inFlight + 1) \in -MaxFlight .. MaxFlight
      /\ Capped(circuit.inFlight - 1) \in -MaxFlight .. MaxFlight
      /\ Capped(circuit.completed + 1) \in -MaxFlight .. MaxFlight
  BY <1>1, CappedTyped
<1>3. (IF circuit.failures < Threshold THEN circuit.failures + 1 ELSE circuit.failures)
        \in 0 .. Threshold
  BY <1>1
<1>4. CASE u \in {"half", "open", "stamp"}
  BY <1>4 DEF Effect, Circuit
<1>5. CASE u \in {"enter", "leave", "complete"}
  BY <1>2, <1>5 DEF Effect, Circuit
<1>6. CASE u \in {"zero", "clear"}
  BY <1>1, <1>6 DEF Effect, Circuit
<1>7. CASE u = "count"
  BY <1>3, <1>7 DEF Effect, Circuit
<1>8. CASE u = "close"
  BY <1>8, BlankTyped DEF Effect, Circuit
<1>9. QED
  BY <1>4, <1>5, <1>6, <1>7, <1>8 DEF Update

LEMMA EnteredTyped ==
  ASSUME circuit \in Circuit
  PROVE  /\ Entered \in Call /\ Entered.pc \in {"rejected", "called", "before"}
         /\ Entered.todo # <<>> => Entered.pc = "before"
<1>1. /\ <<>> \in Seq(Update) /\ <<"enter">> \in Seq(Update)
      /\ <<"half", "zero", "enter">> \in Seq(Update)
  BY DEF Update
<1>2. CASE Shut \/ circuit.state = "CLOSED"
  BY <1>1, <1>2 DEF Entered, NoCall, Call, CallPc
<1>3. CASE ~Shut /\ circuit.state = "HALF_OPEN"
  BY <1>1, <1>3 DEF Entered, NoCall, Call, CallPc
<1>4. CASE ~Shut /\ circuit.state = "OPEN"
  BY <1>1, <1>4 DEF Entered, NoCall, Call, CallPc
<1>5. QED
  BY <1>2, <1>3, <1>4 DEF Circuit

(* The actions of the circuit, as they change circuit and call.              *)
LEMMA EnterTyped ==
  ASSUME BreakerTyped, NEW w \in Caller, Enter(w)
  PROVE  /\ BreakerTyped'
         /\ call[w] = NoCall /\ \A v \in Caller \ {w} : call'[v] = call[v]
         /\ call'[w].pc \in {"rejected", "called", "before"}
<1>1. circuit \in Circuit /\ call \in [Caller -> Call]
  BY DEF BreakerTyped
<1>2. call' = [call EXCEPT ![w] = Entered] /\ UNCHANGED circuit /\ call[w] = NoCall
  BY DEF Enter
<1>3. QED
  BY <1>1, <1>2, EnteredTyped DEF BreakerTyped

LEMMA AnswerTyped ==
  ASSUME BreakerTyped, NEW w \in Caller, NEW ok \in BOOLEAN, Answer(w, ok)
  PROVE  /\ BreakerTyped' /\ \A v \in Caller \ {w} : call'[v] = call[v]
         /\ call[w].pc = "called" /\ UNCHANGED circuit
         /\ call'[w].pc = IF ok THEN "succeeding" ELSE "failing"
<1> DEFINE todo == CASE call[w].probe /\ ok   -> <<"leave", "complete">>
                     [] call[w].probe /\ ~ok  -> <<"leave", "count">>
                     [] ~call[w].probe /\ ok  -> <<"clear">>
                     [] ~call[w].probe /\ ~ok -> <<"count">>
           pc == IF ok THEN "succeeding" ELSE "failing"
<1>1. call' = [call EXCEPT ![w] = [call[w] EXCEPT !.pc = pc, !.todo = todo]]
  BY DEF Answer, BreakerTyped
<1>2. call[w] \in Call /\ call[w].probe \in BOOLEAN
  BY DEF BreakerTyped, Call
<1>3. todo \in Seq(Update)
  <2>1. /\ <<"leave", "complete">> \in Seq(Update) /\ <<"leave", "count">> \in Seq(Update)
        /\ <<"clear">> \in Seq(Update) /\ <<"count">> \in Seq(Update)
    BY DEF Update
  <2>2. QED
    BY <1>2, <2>1
<1>4. pc \in CallPc
  BY DEF CallPc
<1> HIDE DEF todo, pc
<1>5. [call[w] EXCEPT !.pc = pc, !.todo = todo] \in Call
  BY <1>2, <1>3, <1>4 DEF Call
<1>6. /\ [call[w] EXCEPT !.pc = pc, !.todo = todo].pc = pc
      /\ pc = (IF ok THEN "succeeding" ELSE "failing")
  BY <1>2 DEF Call, pc
<1>7. pc \in {"succeeding", "failing"}
  BY <1>6
<1>8. call[w].pc = "called" /\ UNCHANGED circuit
  BY DEF Answer
<1>9. QED
  BY <1>1, <1>5, <1>6, <1>7, <1>8 DEF BreakerTyped

LEMMA WriteTyped ==
  ASSUME BreakerTyped, NEW w \in Caller, Write(w)
  PROVE  /\ BreakerTyped' /\ \A v \in Caller \ {w} : call'[v] = call[v]
         /\ call[w].pc \in {"before", "succeeding", "failing"}
         /\ call'[w].pc \in {call[w].pc, After(call[w].pc)}
<1> DEFINE u    == Head(call[w].todo)
           more == Consequence(w, u)
           todo == Tail(call[w].todo) \o more
           pc   == IF todo = <<>> THEN After(call[w].pc) ELSE call[w].pc
<1>1. /\ call[w] \in Call /\ call[w].todo \in Seq(Update) /\ call[w].todo # <<>>
      /\ call[w].pc \in {"before", "succeeding", "failing"}
  BY DEF BreakerTyped, Call, Write
<1>2. u \in Update /\ Tail(call[w].todo) \in Seq(Update)
  BY <1>1, HeadTailProperties
<1>3. more \in Seq(Update)
  <2>1. /\ <<>> \in Seq(Update) /\ <<"close">> \in Seq(Update)
        /\ <<"open", "stamp", "zero">> \in Seq(Update)
    BY DEF Update
  <2>2. QED
    BY <2>1 DEF Consequence
<1> HIDE DEF u, more
<1>4. todo \in Seq(Update)
  BY <1>2, <1>3, ConcatProperties
<1>5. /\ pc \in CallPc /\ pc \in {call[w].pc, After(call[w].pc)}
      /\ todo # <<>> => pc = call[w].pc
  BY <1>1 DEF After, CallPc
<1>6. call' = [call EXCEPT ![w] = [call[w] EXCEPT !.todo = todo, !.pc = pc]] /\ circuit' = Effect(u)
  BY <1>1 DEF Write, u, more, BreakerTyped
<1> HIDE DEF todo, pc
<1>7. [call[w] EXCEPT !.todo = todo, !.pc = pc] \in Call
  BY <1>1, <1>4, <1>5 DEF Call
<1>8. /\ [call[w] EXCEPT !.todo = todo, !.pc = pc].pc = pc
      /\ [call[w] EXCEPT !.todo = todo, !.pc = pc].todo = todo
  BY <1>1 DEF Call
<1>9. QED
  BY <1>1, <1>2, <1>5, <1>6, <1>7, <1>8, EffectTyped DEF BreakerTyped

LEMMA ForgetTyped ==
  ASSUME BreakerTyped, NEW w \in Caller, Forget(w)
  PROVE  /\ BreakerTyped' /\ \A v \in Caller \ {w} : call'[v] = call[v]
         /\ call'[w] = NoCall
BY BlankTyped DEF BreakerTyped, Forget, NoCall

LEMMA TimeTyped ==
  ASSUME BreakerTyped, Elapse \/ Expire \/ Reset
  PROVE  BreakerTyped' /\ UNCHANGED call
<1>1. "close" \in Update
  BY DEF Update
<1>2. [circuit EXCEPT !.openedAt = "past"] \in Circuit
  BY DEF BreakerTyped, Circuit
<1>3. QED
  BY <1>1, <1>2, BlankTyped, EffectTyped DEF BreakerTyped, Elapse, Expire, Reset

-----------------------------------------------------------------------------
(* The types of the rest.                                                    *)
Refund == [status : {"NONE", "PENDING", "SYNCED", "FAILED"}, number : BOOLEAN]

(* All but the calls and who makes them.                                     *)
RestTyped ==
  /\ refund \in Refund
  /\ audit \in BOOLEAN /\ memos \in 0 .. 2 /\ harm \in BOOLEAN
  /\ ingest \in [busy : BOOLEAN, number : BOOLEAN]
  /\ ingests \in 0 .. MaxIngests /\ crashes \in 0 .. MaxCrashes

LEMMA TypeParts ==
  TypeInv <=> /\ BreakerTyped /\ RestTyped /\ push \in [Caller -> Push]
              /\ \A w \in Caller : call[w] # NoCall => push[w].pc \in {"other", "create"}
BY DEF TypeInv, TypeOK, BreakerTypeOK, BreakerTyped, RestTyped, Push, Pc, Refund, Circuit, Call,
       CallPc

LEMMA TypePartsNext ==
  TypeInv' <=> /\ BreakerTyped' /\ RestTyped' /\ push' \in [Caller -> Push]
               /\ \A w \in Caller : call'[w] # NoCall => push'[w].pc \in {"other", "create"}
BY DEF TypeInv, TypeOK, BreakerTypeOK, BreakerTyped, RestTyped, Push, Pc, Refund, Circuit, Call,
       CallPc

(* One caller moves: where to, and with which call.                          *)
LEMMA CallerTyped ==
  ASSUME TypeInv, NEW w \in Caller, BreakerTyped', \A v \in Caller \ {w} : call'[v] = call[v],
         NEW p \in Push, push' = [push EXCEPT ![w] = p],
         call'[w] = NoCall \/ p.pc \in {"other", "create"}, RestTyped'
  PROVE  TypeInv'
<1>1. push' \in [Caller -> Push] /\ push'[w] = p /\ \A v \in Caller \ {w} : push'[v] = push[v]
  BY TypeParts
<1>2. QED
  BY <1>1, TypeParts, TypePartsNext

LEMMA GoTyped ==
  ASSUME TypeInv, NEW w \in Caller, NEW pc \in Pc, Go(w, pc), BreakerTyped',
         \A v \in Caller \ {w} : call'[v] = call[v],
         call'[w] = NoCall \/ pc \in {"other", "create"}, RestTyped'
  PROVE  TypeInv'
<1>1. [push[w] EXCEPT !.pc = pc] \in Push /\ [push[w] EXCEPT !.pc = pc].pc = pc
  BY TypeParts DEF Push
<1>2. push' = [push EXCEPT ![w] = [push[w] EXCEPT !.pc = pc]]
  BY DEF Go
<1>3. QED
  BY <1>1, <1>2, CallerTyped

LEMMA ReturnTyped ==
  ASSUME TypeInv, NEW w \in Caller, Return(w), BreakerTyped',
         \A v \in Caller \ {w} : call'[v] = call[v], call'[w] = NoCall, RestTyped'
  PROVE  TypeInv'
<1> DEFINE p == IF push[w].batch THEN [push[w] EXCEPT !.pc = "batch"] ELSE NoPush
<1>1. p \in Push
  BY TypeParts DEF Push, Pc, NoPush
<1>2. push' = [push EXCEPT ![w] = p]
  BY TypeParts DEF Return
<1> HIDE DEF p
<1>3. QED
  BY <1>1, <1>2, CallerTyped

(* A caller outside a call makes none.                                       *)
LEMMA Uncalled ==
  ASSUME TypeInv, NEW w \in Caller, push[w].pc \notin {"other", "create"}
  PROVE  call[w] = NoCall
BY TypeParts

LEMMA InitTyped == Init => TypeInv
<1> SUFFICES ASSUME Init PROVE TypeInv
  OBVIOUS
<1>1. BreakerTyped
  BY BlankTyped DEF Init, BreakerInit, BreakerTyped, NoCall
<1>2. ingests \in 0 .. MaxIngests /\ crashes \in 0 .. MaxCrashes
  BY MemoConstantsOK DEF Init
<1>3. refund \in Refund /\ ingest \in [busy : BOOLEAN, number : BOOLEAN]
  BY DEF Init, Refund, NoIngest
<1>4. RestTyped
  <2>1. audit \in BOOLEAN /\ harm \in BOOLEAN
    BY DEF Init
  <2>2. memos \in 0 .. 2
    BY DEF Init
  <2>3. QED
    BY <1>2, <1>3, <2>1, <2>2 DEF RestTyped
<1>5. push \in [Caller -> Push]
  BY DEF Init, NoPush, Push, Pc
<1>6. \A w \in Caller : call[w] = NoCall
  BY DEF Init, BreakerInit
<1>7. QED
  BY <1>1, <1>4, <1>5, <1>6, TypeParts

(* The steps that leave every call alone.                                    *)
LEMMA QuietTyped ==
  ASSUME TypeInv, NEW w \in Caller,
         \/ List(w) \/ PushOne(w) \/ TakeMine(w) \/ Finish(w) \/ Unready(w) \/ Duplicate(w)
         \/ NotPosted(w) \/ SaveSynced(w) \/ Record(w) \/ SaveLost(w) \/ MarkFailed(w) \/ MarkLost(w)
  PROVE  TypeInv'
<1>1. /\ BreakerTyped /\ RestTyped /\ push \in [Caller -> Push] /\ push[w] \in Push
      /\ NoPush \in Push
  BY TypeParts DEF NoPush, Push, Pc
<1>2. ASSUME UNCHANGED <<circuit, call>> PROVE BreakerTyped'
  BY <1>1, <1>2 DEF BreakerTyped
<1>3. UNCHANGED <<circuit, call>> /\ call[w] = NoCall
  BY Uncalled DEF List, PushOne, TakeMine, Finish, Unready, Duplicate, NotPosted, SaveSynced,
     Record, SaveLost, MarkFailed, MarkLost, At, NoPush
<1>4. RestTyped'
  <2>1. UNCHANGED <<memos, ingest, ingests, crashes>>
    BY DEF List, PushOne, TakeMine, Finish, Unready, Duplicate, NotPosted, SaveSynced, Record,
       SaveLost, MarkFailed, MarkLost
  <2>2. refund' \in Refund
    <3>1. \/ refund' = refund
          \/ refund' = [refund EXCEPT !.status = "SYNCED"]
          \/ refund' = [refund EXCEPT !.status = "FAILED"]
          \/ refund' = [status |-> "SYNCED", number |-> TRUE]
      BY DEF List, PushOne, TakeMine, Finish, Unready, Duplicate, NotPosted, SaveSynced, Record,
         SaveLost, MarkFailed, MarkLost
    <3>2. refund \in Refund
      BY <1>1 DEF RestTyped
    <3>3. \A status \in {"SYNCED", "FAILED"} : [refund EXCEPT !.status = status] \in Refund
      BY <3>2 DEF Refund
    <3>4. [status |-> "SYNCED", number |-> TRUE] \in Refund
      BY DEF Refund
    <3>5. QED
      BY <3>1, <3>2, <3>3, <3>4
  <2>3. audit' = audit \/ audit' = TRUE
    BY DEF List, PushOne, TakeMine, Finish, Unready, Duplicate, NotPosted, SaveSynced, Record,
       SaveLost, MarkFailed, MarkLost
  <2>4. harm' = harm \/ harm' = TRUE \/ harm' = (harm \/ ~Alone(w))
    BY DEF List, PushOne, TakeMine, Finish, Unready, Duplicate, NotPosted, SaveSynced, Record,
       SaveLost, MarkFailed, MarkLost
  <2>5. audit' \in BOOLEAN /\ harm' \in BOOLEAN
    <3>1. (harm \/ ~Alone(w)) \in BOOLEAN
      OBVIOUS
    <3>2. audit \in BOOLEAN /\ harm \in BOOLEAN
      BY <1>1 DEF RestTyped
    <3>3. QED
      BY <2>3, <2>4, <3>1, <3>2, Zenon
  <2>6. QED
    BY <1>1, <2>1, <2>2, <2>5 DEF RestTyped
<1>5. CASE List(w)
  <2>1. [pc |-> "batch", batch |-> TRUE, listed |-> refund.status = "PENDING"] \in Push
    BY DEF Push, Pc
  <2>2. QED
    BY <1>2, <1>3, <1>4, <1>5, <2>1, CallerTyped DEF List
<1>6. CASE TakeMine(w)
  <2>1. [push[w] EXCEPT !.pc = "look", !.listed = FALSE] \in Push
    BY <1>1 DEF Push, Pc
  <2>2. push' = [push EXCEPT ![w] = [push[w] EXCEPT !.pc = "look", !.listed = FALSE]]
    BY <1>1, <1>6 DEF TakeMine
  <2>3. QED
    BY <1>2, <1>3, <1>4, <2>1, <2>2, CallerTyped
<1>7. CASE Finish(w) \/ MarkLost(w)
  BY <1>1, <1>2, <1>3, <1>4, <1>7, CallerTyped DEF Finish, MarkLost
<1>8. CASE PushOne(w) \/ Unready(w) \/ NotPosted(w) \/ SaveSynced(w) \/ SaveLost(w)
  <2>1. \E pc \in Pc : Go(w, pc)
    BY <1>8 DEF PushOne, Unready, NotPosted, SaveSynced, SaveLost, Pc
  <2>2. QED
    BY <1>2, <1>3, <1>4, <2>1, GoTyped
<1>9. CASE Duplicate(w) \/ Record(w) \/ MarkFailed(w)
  <2>1. Return(w)
    BY <1>9 DEF Duplicate, Record, MarkFailed
  <2>2. QED
    BY <1>2, <1>3, <1>4, <2>1, ReturnTyped
<1>10. QED
  BY <1>5, <1>6, <1>7, <1>8, <1>9

(* The steps of a call.                                                      *)
LEMMA CallTyped ==
  ASSUME TypeInv, NEW w \in Caller,
         \/ TakeOther(w) \/ OtherAnswered(w, TRUE) \/ OtherAnswered(w, FALSE) \/ OtherDone(w)
         \/ Create(w) \/ Post(w) \/ Refuse(w) \/ ReplyLost(w) \/ BookKeep(w)
         \/ Created(w) \/ NotCreated(w) \/ Crash(w)
  PROVE  TypeInv'
<1>1. /\ BreakerTyped /\ RestTyped /\ push \in [Caller -> Push] /\ push[w] \in Push
      /\ NoPush \in Push
  BY TypeParts DEF NoPush, Push, Pc
<1>2. CASE TakeOther(w) \/ Create(w)
  <2>1. Enter(w) /\ UNCHANGED <<refund, audit, memos, ingest, ingests, crashes, harm>>
    BY <1>2 DEF TakeOther, Create
  <2>2. RestTyped'
    BY <1>1, <2>1 DEF RestTyped
  <2>3. BreakerTyped' /\ \A v \in Caller \ {w} : call'[v] = call[v]
    BY <1>1, <2>1, EnterTyped
  <2>4. \E pc \in {"other", "create"} : Go(w, pc)
    BY <1>2 DEF TakeOther, Create
  <2>5. {"other", "create"} \subseteq Pc
    BY DEF Pc
  <2>6. QED
    BY <2>2, <2>3, <2>4, <2>5, GoTyped
<1>3. CASE OtherAnswered(w, TRUE) \/ OtherAnswered(w, FALSE) \/ Post(w) \/ Refuse(w) \/ ReplyLost(w)
  <2>1. /\ \E ok \in BOOLEAN : Answer(w, ok)
        /\ UNCHANGED <<refund, audit, push, ingest, ingests, crashes>>
        /\ push[w].pc \in {"other", "create"}
    BY <1>3 DEF OtherAnswered, Post, Refuse, ReplyLost, At
  <2>2. RestTyped'
    <3>1. memos' \in 0 .. 2
      <4>1. memos' = memos \/ NewMemo
        BY <1>3 DEF OtherAnswered, Post, Refuse, ReplyLost
      <4>2. memos \in 0 .. 2
        BY <1>1 DEF RestTyped
      <4>3. QED
        BY <4>1, <4>2 DEF NewMemo
    <3>2. harm' \in BOOLEAN
      BY <1>1, <1>3 DEF RestTyped, OtherAnswered, Post, Refuse, ReplyLost
    <3>3. QED
      BY <1>1, <2>1, <3>1, <3>2 DEF RestTyped
  <2>3. BreakerTyped' /\ \A v \in Caller \ {w} : call'[v] = call[v]
    BY <1>1, <2>1, AnswerTyped
  <2>4. push' = [push EXCEPT ![w] = push[w]]
    BY <1>1, <2>1
  <2>5. QED
    BY <1>1, <2>1, <2>2, <2>3, <2>4, CallerTyped
<1>4. CASE BookKeep(w)
  <2>1. Write(w) /\ UNCHANGED <<refund, audit, memos, push, ingest, ingests, crashes, harm>>
    BY <1>4 DEF BookKeep
  <2>2. RestTyped'
    BY <1>1, <2>1 DEF RestTyped
  <2>3. /\ BreakerTyped' /\ \A v \in Caller \ {w} : call'[v] = call[v]
        /\ call[w] # NoCall
    <3>1. NoCall.pc = "none"
      BY DEF NoCall
    <3>2. QED
      BY <1>1, <2>1, <3>1, WriteTyped
  <2>4. push' = [push EXCEPT ![w] = push[w]] /\ push[w].pc \in {"other", "create"}
    BY <1>1, <2>1, <2>3, TypeParts
  <2>5. QED
    BY <1>1, <2>2, <2>3, <2>4, CallerTyped
<1>5. CASE OtherDone(w) \/ Created(w) \/ NotCreated(w) \/ Crash(w)
  <2>1. Forget(w)
    BY <1>5 DEF OtherDone, Created, NotCreated, Crash
  <2>2. BreakerTyped' /\ call'[w] = NoCall /\ \A v \in Caller \ {w} : call'[v] = call[v]
    BY <1>1, <2>1, ForgetTyped
  <2>3. CASE OtherDone(w)
    <3>1. RestTyped' /\ Return(w)
      BY <1>1, <2>3 DEF OtherDone, RestTyped
    <3>2. QED
      BY <2>2, <3>1, ReturnTyped
  <2>4. CASE Created(w) \/ NotCreated(w)
    <3>1. RestTyped' /\ \E pc \in Pc : Go(w, pc)
      BY <1>1, <2>4 DEF Created, NotCreated, RestTyped, Pc
    <3>2. QED
      BY <2>2, <3>1, GoTyped
  <2>5. CASE Crash(w)
    <3>1. UNCHANGED <<refund, audit, memos, ingest, ingests>> /\ harm' \in BOOLEAN
      BY <1>1, <2>5 DEF Crash, RestTyped, At
    <3>2. crashes' \in 0 .. MaxCrashes
      BY <1>1, <2>5, MemoConstantsOK DEF Crash, RestTyped
    <3>3. RestTyped'
      BY <1>1, <3>1, <3>2 DEF RestTyped
    <3>4. push' = [push EXCEPT ![w] = NoPush]
      BY <2>5 DEF Crash
    <3>5. QED
      BY <1>1, <2>2, <3>3, <3>4, CallerTyped
  <2>6. QED
    BY <1>5, <2>3, <2>4, <2>5
<1>6. QED
  BY <1>2, <1>3, <1>4, <1>5

LEMMA AroundTyped ==
  ASSUME TypeInv,
         IngestRead \/ IngestSave \/ CircuitElapses \/ CircuitExpires \/ CircuitReset \/ UNCHANGED vars
  PROVE  TypeInv'
<1>1. BreakerTyped /\ RestTyped /\ push \in [Caller -> Push]
  BY TypeParts
<1>2. UNCHANGED <<push, call>>
  BY <1>1, TimeTyped DEF IngestRead, IngestSave, CircuitElapses, CircuitExpires, CircuitReset,
     Around, vars
<1>3. BreakerTyped'
  <2>1. CASE Elapse \/ Expire \/ Reset
    BY <1>1, <2>1, TimeTyped
  <2>2. CASE UNCHANGED circuit
    BY <1>1, <1>2, <2>2 DEF BreakerTyped
  <2>3. QED
    BY <2>1, <2>2 DEF IngestRead, IngestSave, CircuitElapses, CircuitExpires, CircuitReset, vars
<1>4. RestTyped'
  <2>1. CASE IngestRead
    <3>1. ingests' \in 0 .. MaxIngests
      BY <1>1, <2>1, MemoConstantsOK DEF IngestRead, RestTyped
    <3>2. refund.number \in BOOLEAN
      BY <1>1 DEF RestTyped, Refund
    <3>3. ingest' \in [busy : BOOLEAN, number : BOOLEAN]
      BY <2>1, <3>2 DEF IngestRead
    <3>4. QED
      BY <1>1, <2>1, <3>1, <3>3 DEF IngestRead, RestTyped
  <2>2. CASE IngestSave
    <3>1. ingest.number \in BOOLEAN
      BY <1>1 DEF RestTyped
    <3>2. [status |-> "PENDING", number |-> ingest.number] \in Refund
      BY <3>1 DEF Refund
    <3>3. NoIngest \in [busy : BOOLEAN, number : BOOLEAN]
      BY DEF NoIngest
    <3>4. harm' \in BOOLEAN
      BY <2>2 DEF IngestSave
    <3>5. QED
      BY <1>1, <2>2, <3>2, <3>3, <3>4 DEF IngestSave, RestTyped
  <2>3. CASE UNCHANGED <<refund, audit, memos, ingest, ingests, crashes, harm>>
    BY <1>1, <2>3 DEF RestTyped
  <2>4. QED
    BY <2>1, <2>2, <2>3 DEF CircuitElapses, CircuitExpires, CircuitReset, Around, vars
<1>5. QED
  BY <1>1, <1>2, <1>3, <1>4, TypeParts, TypePartsNext

LEMMA CallersAre == Cron \subseteq Caller /\ Clerk \subseteq Caller
BY MemoConstantsOK

LEMMA NextTyped == TypeInv /\ [Next]_vars => TypeInv'
BY AroundTyped, QuietTyped, CallTyped, CallersAre DEF Next, Proceed, AutoPush, ProcessPending

(* The state keeps its types, whatever the constants; and a call is open     *)
(* only while a push waits for it.                                           *)
THEOREM MemoTypeCorrect == Spec => []TypeOK
<1>1. TypeInv => TypeOK
  BY DEF TypeInv
<1>2. QED
  BY <1>1, InitTyped, NextTyped, PTL DEF Spec

-----------------------------------------------------------------------------
(* How the steps move the caller that takes them; what the properties need.  *)

InHand == {"ready", "create", "created", "record"}

LEMMA GoMoves ==
  ASSUME TypeInv, NEW w \in Caller, NEW pc, Go(w, pc)
  PROVE  push'[w].pc = pc /\ \A v \in Caller \ {w} : push'[v] = push[v]
<1>1. push \in [Caller -> Push]
  BY TypeParts
<1>2. QED
  BY <1>1 DEF Go, Push

LEMMA ReturnMoves ==
  ASSUME TypeInv, NEW w \in Caller,
         Return(w) \/ push' = [push EXCEPT ![w] = NoPush]
  PROVE  push'[w].pc \in {"batch", "idle"} /\ \A v \in Caller \ {w} : push'[v] = push[v]
<1>1. push \in [Caller -> Push]
  BY TypeParts
<1>2. QED
  BY <1>1 DEF Return, NoPush, Push

(* The other callers stay where they are.                                    *)
LEMMA OthersStay ==
  ASSUME TypeInv, NEW w \in Caller, List(w) \/ PushOne(w) \/ TakeOther(w) \/ Proceed(w) \/ Crash(w)
  PROVE  \A v \in Caller \ {w} : push'[v] = push[v] /\ call'[v] = call[v]
<1>1. push \in [Caller -> Push] /\ BreakerTyped
  BY TypeParts
<1>2. \A v \in Caller \ {w} : push'[v] = push[v]
  BY <1>1, GoMoves, ReturnMoves
     DEF List, PushOne, TakeOther, Proceed, Crash, OtherAnswered, OtherDone, TakeMine, Finish, Unready,
         Duplicate, NotPosted, Create, Post, Refuse, ReplyLost, BookKeep, Created, NotCreated,
         SaveSynced, Record, SaveLost, MarkFailed, MarkLost
<1>3. \/ UNCHANGED call \/ Enter(w) \/ Answer(w, TRUE) \/ Answer(w, FALSE) \/ Write(w)
      \/ Forget(w)
  BY DEF List, PushOne, TakeOther, Proceed, Crash, OtherAnswered, OtherDone, TakeMine, Finish, Unready,
         Duplicate, NotPosted, Create, Post, Refuse, ReplyLost, BookKeep, Created, NotCreated,
         SaveSynced, Record, SaveLost, MarkFailed, MarkLost
<1>4. \A v \in Caller \ {w} : call'[v] = call[v]
  BY <1>1, <1>3, EnterTyped, AnswerTyped, WriteTyped, ForgetTyped
<1>5. QED
  BY <1>2, <1>4

(* A step that begins nothing: the caller holds no memo afterwards.          *)
LEMMA Drops ==
  ASSUME TypeInv, NEW w \in Caller,
         \/ List(w) \/ PushOne(w) \/ TakeMine(w) \/ Finish(w) \/ Unready(w) \/ Duplicate(w)
         \/ Record(w) \/ SaveLost(w) \/ MarkFailed(w) \/ MarkLost(w) \/ Crash(w)
         \/ TakeOther(w) \/ OtherDone(w) \/ NotCreated(w)
  PROVE  push'[w].pc \notin InHand /\ UNCHANGED memos
<1>1. push \in [Caller -> Push]
  BY TypeParts
<1>2. UNCHANGED memos
  BY DEF List, PushOne, TakeMine, Finish, Unready, Duplicate, Record, SaveLost, MarkFailed, MarkLost,
         Crash, TakeOther, OtherDone, NotCreated
<1>3. CASE List(w)
  BY <1>1, <1>3 DEF List, InHand
<1>4. CASE TakeMine(w)
  BY <1>1, <1>4 DEF TakeMine, InHand, Push
<1>5. CASE PushOne(w) \/ Unready(w) \/ SaveLost(w) \/ TakeOther(w) \/ NotCreated(w)
  BY <1>5, GoMoves DEF PushOne, Unready, SaveLost, TakeOther, NotCreated, InHand
<1>6. CASE Finish(w) \/ Duplicate(w) \/ Record(w) \/ MarkFailed(w) \/ MarkLost(w) \/ Crash(w)
           \/ OtherDone(w)
  BY <1>6, ReturnMoves
     DEF Finish, Duplicate, Record, MarkFailed, MarkLost, Crash, OtherDone, InHand
<1>7. QED
  BY <1>2, <1>3, <1>4, <1>5, <1>6

(* The caller goes on with its push, and has a memo only if it had one.      *)
LEMMA Carries ==
  ASSUME TypeInv, NEW w \in Caller,
         \/ NotPosted(w) \/ Create(w) \/ Refuse(w) \/ BookKeep(w) \/ Created(w) \/ SaveSynced(w)
         \/ OtherAnswered(w, TRUE) \/ OtherAnswered(w, FALSE)
  PROVE  /\ UNCHANGED memos /\ (Made(w)' => Made(w))
         /\ push'[w].pc \in InHand => NotPosted(w) \/ push[w].pc \in InHand
<1>1. push \in [Caller -> Push] /\ BreakerTyped
  BY TypeParts
<1>2. CASE NotPosted(w)
  BY <1>2, GoMoves DEF NotPosted, Made, At, InHand
<1>3. CASE Create(w)
  <2>1. call'[w].pc \in {"rejected", "called", "before"}
    BY <1>1, <1>3, EnterTyped DEF Create
  <2>2. QED
    BY <1>3, <2>1, GoMoves DEF Create, Made, At, InHand
<1>4. CASE Refuse(w)
  <2>1. call'[w].pc = "failing"
    BY <1>1, <1>4, AnswerTyped DEF Refuse
  <2>2. QED
    BY <1>4, <2>1 DEF Refuse, Made, At, InHand
<1>5. CASE BookKeep(w)
  <2>1. /\ call[w].pc \in {"before", "succeeding", "failing"}
        /\ call'[w].pc \in {call[w].pc, After(call[w].pc)}
    BY <1>1, <1>5, WriteTyped DEF BookKeep
  <2>2. call'[w].pc \in {"succeeding", "returned"} => call[w].pc = "succeeding"
    BY <2>1 DEF After
  <2>3. QED
    BY <1>5, <2>2 DEF BookKeep, Made, At, InHand
<1>6. CASE Created(w)
  BY <1>6, GoMoves DEF Created, Made, At, InHand
<1>7. CASE SaveSynced(w)
  BY <1>7, GoMoves DEF SaveSynced, Made, At, InHand
<1>8. CASE OtherAnswered(w, TRUE) \/ OtherAnswered(w, FALSE)
  BY <1>8 DEF OtherAnswered, Made, At, InHand
<1>9. QED
  BY <1>2, <1>3, <1>4, <1>5, <1>6, <1>7, <1>8

(* Steps of nobody's push.                                                   *)
LEMMA Stays ==
  ASSUME TypeInv,
         IngestRead \/ IngestSave \/ CircuitElapses \/ CircuitExpires \/ CircuitReset \/ UNCHANGED vars
  PROVE  /\ UNCHANGED <<push, call, audit, memos>>
         /\ UNCHANGED <<refund, harm>> \/ IngestSave
<1>1. BreakerTyped
  BY TypeParts
<1>2. QED
  BY <1>1, TimeTyped DEF IngestRead, IngestSave, CircuitElapses, CircuitExpires, CircuitReset,
     Around, vars

LEMMA BackedInit == Init => MemoBacked /\ SyncedIsPosted
<1> SUFFICES ASSUME Init PROVE MemoBacked /\ SyncedIsPosted
  OBVIOUS
<1>1. audit = FALSE /\ refund.status \in {"NONE", "PENDING"}
  BY DEF Init
<1>2. \A w \in Caller : push[w].pc = "idle"
  BY DEF Init, NoPush
<1>3. QED
  BY <1>1, <1>2 DEF MemoBacked, Made, At, SyncedIsPosted

LEMMA BackedStep ==
  ASSUME SyncedInv, [Next]_vars
  PROVE  MemoBacked' /\ SyncedIsPosted'
<1>1. TypeInv /\ memos \in 0 .. 2 /\ refund \in Refund
  BY TypeParts DEF SyncedInv, RestTyped
<1>2. CASE IngestRead \/ IngestSave \/ CircuitElapses \/ CircuitExpires \/ CircuitReset
           \/ UNCHANGED vars
  <2>1. UNCHANGED <<push, call, audit, memos>> /\ (UNCHANGED refund \/ IngestSave)
    BY <1>1, <1>2, Stays
  <2>2. refund'.status = "SYNCED" => refund.status = "SYNCED"
    BY <2>1 DEF IngestSave
  <2>3. QED
    BY <2>1, <2>2 DEF SyncedInv, MemoBacked, Made, At, SyncedIsPosted
<1>3. ASSUME NEW w \in Caller, List(w) \/ PushOne(w) \/ TakeOther(w) \/ Proceed(w) \/ Crash(w)
      PROVE  MemoBacked' /\ SyncedIsPosted'
  <2>1. \A v \in Caller \ {w} : push'[v] = push[v] /\ call'[v] = call[v]
    BY <1>1, <1>3, OthersStay
  <2>2. /\ memos > 0 => memos' > 0
        /\ Made(w)' => Made(w) \/ memos' > 0
    <3>1. CASE Post(w) \/ ReplyLost(w)
      <4>1. memos' = 1 \/ memos' = 2
        BY <3>1 DEF Post, ReplyLost, NewMemo
      <4>2. QED
        BY <4>1
    <3>2. CASE ~Post(w) /\ ~ReplyLost(w)
      BY <1>1, <1>3, <3>2, Drops, Carries DEF Proceed, Made, At, InHand
    <3>3. QED
      BY <3>1, <3>2
  <2>3. audit' => audit \/ Made(w)
    BY <1>3 DEF Proceed, List, PushOne, TakeOther, Crash, OtherAnswered, OtherDone, TakeMine, Finish,
       Unready, Duplicate, NotPosted, Create, Post, Refuse, ReplyLost, BookKeep, Created,
       NotCreated, SaveSynced, Record, SaveLost, MarkFailed, MarkLost, Made, At
  <2>4. refund'.status = "SYNCED" => refund.status = "SYNCED" \/ audit \/ Made(w)
    BY <1>1, <1>3 DEF Proceed, List, PushOne, TakeOther, Crash, OtherAnswered, OtherDone, TakeMine,
       Finish, Unready, Duplicate, NotPosted, Create, Post, Refuse, ReplyLost, BookKeep, Created,
       NotCreated, SaveSynced, Record, SaveLost, MarkFailed, MarkLost, Made, At, Refund
  <2>5. \A v \in Caller : Made(v)' => memos' > 0
    BY <2>1, <2>2 DEF SyncedInv, MemoBacked, Made, At
  <2>6. QED
    BY <2>2, <2>3, <2>4, <2>5 DEF SyncedInv, MemoBacked, SyncedIsPosted
<1>4. QED
  BY <1>2, <1>3, CallersAre DEF Next, AutoPush, ProcessPending

(* A refund shown as SYNCED has a credit memo in Oracle: for any processes   *)
(* and administrators that overlap or die, lost answers and records.         *)
THEOREM SyncedHasMemo == Spec => []SyncedIsPosted
<1>1. Init => SyncedInv
  BY InitTyped, BackedInit DEF SyncedInv
<1>2. SyncedInv /\ [Next]_vars => SyncedInv'
  BY NextTyped, BackedStep DEF SyncedInv
<1>3. SyncedInv => SyncedIsPosted
  BY DEF SyncedInv
<1>4. QED
  BY <1>1, <1>2, <1>3, PTL DEF Spec

-----------------------------------------------------------------------------
(* MemoOnce and SyncedHasNumber: nothing harmful has happened.               *)

(* One push at most is between its look at the audit log and its record, and *)
(* none once the log has the refund; a memo is recorded or in such a push.   *)
OneInHand ==
  ~harm =>
    /\ \A v, w \in Caller : push[v].pc \in InHand /\ push[w].pc \in InHand => v = w
    /\ audit => \A w \in Caller : push[w].pc \notin InHand
    /\ memos <= 1
    /\ memos > 0 => audit \/ \E w \in Caller : Made(w)

(* Whoever says that the memo is recorded has seen its number saved.         *)
Numbered ==
  ~harm =>
    /\ audit \/ (\E w \in Caller : At(w, "record")) => refund.number
    /\ refund.status = "SYNCED" => refund.number

OnceInv == TypeInv /\ OneInHand /\ Numbered

LEMMA OnceInit == Init => OneInHand /\ Numbered
<1> SUFFICES ASSUME Init PROVE OneInHand /\ Numbered
  OBVIOUS
<1>1. audit = FALSE /\ memos = 0 /\ refund.status \in {"NONE", "PENDING"}
  BY DEF Init
<1>2. \A w \in Caller : push[w].pc = "idle"
  BY DEF Init, NoPush
<1>3. QED
  BY <1>1, <1>2 DEF OneInHand, Numbered, InHand, At

LEMMA MadeInHand ==
  ASSUME NEW w \in Caller, Made(w)
  PROVE  push[w].pc \in InHand
BY DEF Made, At, InHand

(* Once something harmful happened, it did.                                  *)
LEMMA HarmStays ==
  ASSUME TypeInv, [Next]_vars, harm
  PROVE  harm'
<1>1. harm \in BOOLEAN
  BY TypeParts DEF RestTyped
<1>2. CASE IngestRead \/ IngestSave \/ CircuitElapses \/ CircuitExpires \/ CircuitReset
           \/ UNCHANGED vars
  <2>1. harm' = harm \/ IngestSave
    BY <1>2, Stays
  <2>2. CASE IngestSave
    BY <2>2 DEF IngestSave
  <2>3. QED
    BY <1>1, <2>1, <2>2, Zenon
<1>3. ASSUME NEW w \in Caller, List(w) \/ PushOne(w) \/ TakeOther(w) \/ Proceed(w) \/ Crash(w)
      PROVE  harm'
  <2>1. harm' = harm \/ harm' = TRUE \/ NotPosted(w) \/ Crash(w)
    BY <1>3 DEF Proceed, List, PushOne, TakeOther, OtherAnswered, OtherDone, TakeMine, Finish,
       Unready, Duplicate, Create, Post, Refuse, ReplyLost, BookKeep, Created,
       NotCreated, SaveSynced, Record, SaveLost, MarkFailed, MarkLost
  <2>2. CASE NotPosted(w)
    BY <2>2 DEF NotPosted
  <2>3. CASE Crash(w)
    BY <2>3 DEF Crash
  <2>4. QED
    BY <2>1, <2>2, <2>3, Zenon
<1>4. QED
  BY <1>2, <1>3, CallersAre DEF Next, AutoPush, ProcessPending

(* A memo that is not yet recorded stays in hand, or harm is noted.          *)
LEMMA Keeps ==
  ASSUME TypeInv, NEW w \in Caller,
         List(w) \/ PushOne(w) \/ TakeOther(w) \/ Proceed(w) \/ Crash(w), ~Record(w), Made(w)
  PROVE  Made(w)' \/ harm'
<1>1. push \in [Caller -> Push] /\ BreakerTyped
  BY TypeParts
<1>2. /\ push[w].pc \in {"create", "created", "record"}
      /\ push[w].pc = "create" => call[w].pc \in {"succeeding", "returned"}
  BY DEF Made, At
<1>3. BookKeep(w) \/ Created(w) \/ SaveSynced(w) \/ SaveLost(w) \/ Crash(w)
  <2>1. ~Post(w) /\ ~Refuse(w) /\ ~ReplyLost(w) /\ ~NotCreated(w)
    BY <1>1, <1>2, AnswerTyped DEF Post, Refuse, ReplyLost, NotCreated, At
  <2>2. ~List(w) /\ ~PushOne(w)
    BY <1>2 DEF List, PushOne, NoPush
  <2>3. QED
    BY <1>2, <2>1, <2>2 DEF Proceed, TakeOther, OtherAnswered, OtherDone, TakeMine, Finish, Unready,
       Duplicate, NotPosted, Create, MarkFailed, MarkLost, At
<1>4. CASE BookKeep(w)
  <2>1. push' = push /\ (At(w, "create") => call'[w].pc \in {"succeeding", "returned"})
    BY <1>1, <1>2, <1>4, WriteTyped DEF BookKeep, After, At
  <2>2. QED
    BY <1>2, <2>1 DEF Made, At
<1>5. CASE Created(w) \/ SaveSynced(w)
  BY <1>5, GoMoves DEF Created, SaveSynced, Made
<1>6. CASE SaveLost(w) \/ Crash(w)
  BY <1>2, <1>6 DEF SaveLost, Crash, At
<1>7. QED
  BY <1>3, <1>4, <1>5, <1>6

LEMMA HandsStep ==
  ASSUME OnceInv, [Next]_vars
  PROVE  OneInHand'
<1>1. TypeInv /\ memos \in 0 .. 2
  BY TypeParts DEF OnceInv, RestTyped
<1>2. SUFFICES ASSUME ~harm'
               PROVE  OneInHand'
  BY DEF OneInHand
<1>3. /\ ~harm
      /\ \A v, w \in Caller : push[v].pc \in InHand /\ push[w].pc \in InHand => v = w
      /\ audit => \A w \in Caller : push[w].pc \notin InHand
      /\ memos <= 1
      /\ memos > 0 => audit \/ \E w \in Caller : Made(w)
  BY <1>1, <1>2, HarmStays DEF OnceInv, OneInHand
<1>4. CASE IngestRead \/ IngestSave \/ CircuitElapses \/ CircuitExpires \/ CircuitReset
           \/ UNCHANGED vars
  <2>1. UNCHANGED <<push, call, audit, memos>>
    BY <1>1, <1>4, Stays
  <2>2. \A w \in Caller : Made(w) => Made(w)'
    BY <2>1 DEF Made, At
  <2>3. QED
    BY <1>3, <2>1, <2>2 DEF OneInHand
<1>5. ASSUME NEW w \in Caller, List(w) \/ PushOne(w) \/ TakeOther(w) \/ Proceed(w) \/ Crash(w)
      PROVE  OneInHand'
  <2>1. \A v \in Caller \ {w} : /\ push'[v] = push[v] /\ call'[v] = call[v]
                               /\ (Made(v) <=> Made(v)')
    BY <1>1, <1>5, OthersStay DEF Made, At
  <2>2. CASE Record(w)
    <3>1. push[w].pc \in InHand /\ push'[w].pc \notin InHand /\ UNCHANGED memos /\ audit' = TRUE
      BY <1>1, <2>2, Drops DEF Record, At, InHand
    <3>2. \A v \in Caller : push'[v].pc \notin InHand
      BY <1>3, <2>1, <3>1
    <3>3. QED
      BY <1>3, <3>1, <3>2 DEF OneInHand
  <2>3. CASE Post(w)
    <3>1. push[w].pc = "create" /\ call[w].pc = "called" /\ call'[w].pc = "succeeding"
          /\ UNCHANGED <<push, audit>>
      BY <1>1, <2>3, AnswerTyped, TypeParts DEF Post, At
    <3>2. push[w].pc \in InHand /\ ~Made(w) /\ Made(w)'
      BY <3>1 DEF InHand, Made, At
    <3>3. ~audit /\ \A v \in Caller : ~Made(v)
      BY <1>3, <3>2, MadeInHand
    <3>4. memos = 0
      BY <1>1, <1>3, <3>3
    <3>5. memos' = 1
      BY <2>3, <3>4 DEF Post, NewMemo
    <3>6. QED
      BY <1>3, <3>1, <3>2, <3>5 DEF OneInHand
  <2>4. CASE ReplyLost(w)
    BY <1>2, <2>4 DEF ReplyLost
  <2>5. CASE NotPosted(w)
    <3>1. push'[w].pc = "ready" /\ UNCHANGED <<audit, memos>> /\ ~audit /\ Alone(w)
      BY <1>1, <1>2, <2>5, GoMoves DEF NotPosted
    <3>2. \A v \in Caller : push'[v].pc \in InHand => v = w
      BY <2>1, <3>1 DEF Alone, InHand
    <3>3. ~Made(w)
      BY <2>5 DEF NotPosted, Made, At
    <3>4. QED
      BY <1>3, <2>1, <3>1, <3>2, <3>3 DEF OneInHand
  <2>6. CASE ~Record(w) /\ ~Post(w) /\ ~ReplyLost(w) /\ ~NotPosted(w)
    <3>1. UNCHANGED audit
      BY <1>5, <2>6 DEF Proceed, List, PushOne, TakeOther, Crash, OtherAnswered, OtherDone, TakeMine,
         Finish, Unready, Duplicate, Create, Refuse, BookKeep, Created, NotCreated, SaveSynced,
         SaveLost, MarkFailed, MarkLost
    <3>2. UNCHANGED memos /\ (push'[w].pc \in InHand => push[w].pc \in InHand)
      BY <1>1, <1>5, <2>6, Drops, Carries DEF Proceed
    <3>3. Made(w) => Made(w)'
      BY <1>1, <1>2, <1>5, <2>6, Keeps
    <3>4. /\ \A v \in Caller : push'[v].pc \in InHand => push[v].pc \in InHand
          /\ \A v \in Caller : Made(v) => Made(v)'
      BY <2>1, <3>2, <3>3
    <3>5. QED
      BY <1>3, <3>1, <3>2, <3>4 DEF OneInHand
  <2>7. QED
    BY <2>2, <2>3, <2>4, <2>5, <2>6
<1>6. QED
  BY <1>4, <1>5, CallersAre DEF Next, AutoPush, ProcessPending

LEMMA NumberStep ==
  ASSUME OnceInv, [Next]_vars
  PROVE  Numbered'
<1>1. TypeInv /\ refund \in Refund
  BY TypeParts DEF OnceInv, RestTyped
<1>2. SUFFICES ASSUME ~harm'
               PROVE  Numbered'
  BY DEF Numbered
<1>3. /\ audit \/ (\E w \in Caller : At(w, "record")) => refund.number
      /\ refund.status = "SYNCED" => refund.number
  BY <1>1, <1>2, HarmStays DEF OnceInv, Numbered
<1>4. CASE IngestRead \/ IngestSave \/ CircuitElapses \/ CircuitExpires \/ CircuitReset
           \/ UNCHANGED vars
  <2>1. UNCHANGED <<push, audit>> /\ (UNCHANGED refund \/ IngestSave)
    BY <1>1, <1>4, Stays
  <2>2. CASE UNCHANGED refund
    BY <1>3, <2>1, <2>2 DEF Numbered, At
  <2>3. CASE IngestSave
    <3>1. refund.number = ingest.number
      BY <1>2, <2>3 DEF IngestSave
    <3>2. refund'.number = refund.number /\ refund'.status = "PENDING"
      BY <2>3, <3>1 DEF IngestSave
    <3>3. QED
      BY <1>3, <2>1, <3>2 DEF Numbered, At
  <2>4. QED
    BY <2>1, <2>2, <2>3
<1>5. ASSUME NEW w \in Caller, List(w) \/ PushOne(w) \/ TakeOther(w) \/ Proceed(w) \/ Crash(w)
      PROVE  Numbered'
  <2>1. \A v \in Caller \ {w} : At(v, "record")' => At(v, "record")
    BY <1>1, <1>5, OthersStay DEF At
  <2>2. CASE SaveSynced(w)
    <3>1. refund'.number = TRUE
      BY <2>2 DEF SaveSynced
    <3>2. QED
      BY <3>1 DEF Numbered
  <2>3. CASE Record(w)
    <3>1. refund.number /\ UNCHANGED refund
      BY <1>3, <2>3 DEF Record
    <3>2. QED
      BY <3>1 DEF Numbered
  <2>4. CASE ~SaveSynced(w) /\ ~Record(w)
    <3>1. UNCHANGED audit
      BY <1>5, <2>4 DEF Proceed, List, PushOne, TakeOther, Crash, OtherAnswered, OtherDone, TakeMine,
         Finish, Unready, Duplicate, NotPosted, Create, Post, Refuse, ReplyLost, BookKeep, Created,
         NotCreated, SaveLost, MarkFailed, MarkLost
    <3>2. /\ refund'.number = refund.number
          /\ refund'.status = "SYNCED" => refund.status = "SYNCED" \/ audit
      BY <1>1, <1>5, <2>4 DEF Proceed, List, PushOne, TakeOther, Crash, OtherAnswered, OtherDone,
         TakeMine, Finish, Unready, Duplicate, NotPosted, Create, Post, Refuse, ReplyLost, BookKeep,
         Created, NotCreated, SaveLost, MarkFailed, MarkLost, Refund
    <3>3. At(w, "record")' => At(w, "record")
      <4>1. CASE Post(w) \/ ReplyLost(w)
        BY <4>1 DEF Post, ReplyLost, At
      <4>2. CASE NotPosted(w) \/ Create(w) \/ Created(w)
        BY <1>1, <4>2, GoMoves DEF NotPosted, Create, Created, At
      <4>3. CASE Refuse(w) \/ BookKeep(w) \/ OtherAnswered(w, TRUE) \/ OtherAnswered(w, FALSE)
        BY <4>3 DEF Refuse, BookKeep, OtherAnswered, At
      <4>4. QED
        BY <1>1, <1>5, <2>4, <4>1, <4>2, <4>3, Drops DEF Proceed, InHand, At
    <3>4. QED
      BY <1>3, <2>1, <3>1, <3>2, <3>3 DEF Numbered
  <2>5. QED
    BY <2>2, <2>3, <2>4
<1>6. QED
  BY <1>4, <1>5, CallersAre DEF Next, AutoPush, ProcessPending

LEMMA OnceInvariant == Spec => []OnceInv
<1>1. Init => OnceInv
  BY InitTyped, OnceInit DEF OnceInv
<1>2. OnceInv /\ [Next]_vars => OnceInv'
  BY NextTyped, HandsStep, NumberStep DEF OnceInv
<1>3. QED
  BY <1>1, <1>2, PTL DEF Spec

(* A refund gets one credit memo, unless something harmful happened.         *)
THEOREM OneMemo == Spec => []MemoOnce
<1>1. OnceInv => MemoOnce
  BY TypeParts DEF OnceInv, OneInHand, MemoOnce, RestTyped
<1>2. QED
  BY <1>1, OnceInvariant, PTL

(* A SYNCED refund shows its memo's number, under the same proviso.          *)
THEOREM SyncedIsNumbered == Spec => []SyncedHasNumber
<1>1. OnceInv => SyncedHasNumber
  BY DEF OnceInv, Numbered, SyncedHasNumber
<1>2. QED
  BY <1>1, OnceInvariant, PTL
===============================================================================
