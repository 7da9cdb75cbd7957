---------------------------- MODULE BatcherProofs ---------------------------
(***************************************************************************)
(* Batcher implements WriteService, for any requests, capacity and sizes   *)
(* of a batch: however the goroutines of Submit, the loop and Stop are     *)
(* scheduled, accepted writes leave one queue in their turn, and no answer *)
(* is given twice or to the wrong request.                                 *)
(***************************************************************************)
EXTENDS Batcher, SequenceTheorems, TLAPS

In(r, s) == \E k \in 1..Len(s) : s[k] = r
Distinct(s) == \A i, j \in 1..Len(s) : s[i] = s[j] => i = j

-----------------------------------------------------------------------------
(* The inductive invariant.                                                *)

(* What the loop holds at each of its places.                              *)
Places ==
  /\ at \in {"first", "drain", "done"} => batch = <<>>
  /\ at \in {"collect", "flush"} => batch # <<>>
  /\ at \notin {"flush", "answer"} => tried = 0 /\ good = {}
  /\ at = "flush" => tried <= Len(batch)
  /\ at = "answer" => Len(answers) = Len(batch)
  /\ at # "answer" => answers = <<>>

(* A request is in one place of the batch or of the channel, and then its  *)
(* Submit waits for an answer that has not been given.                     *)
OnePlace ==
  /\ Distinct(batch) /\ Distinct(reqCh)
  /\ \A r \in Requests : ~(In(r, batch) /\ In(r, reqCh))
Pending ==
  \A r \in Requests : In(r, batch) \/ In(r, reqCh) =>
    submits[r] = "accepted" /\ response[r] = "none"
Delivered ==
  \A r \in Requests : response[r] # "none" => submits[r] = "accepted"

(* A success is reported of a statement that was executed.                 *)
GoodLogged == at = "flush" => \A k \in good : k <= Len(batch) /\ In(batch[k], log)
AnswersLogged ==
  at = "answer" => \A k \in 1..Len(batch) : answers[k] = "ok" => In(batch[k], log)
ResponseLogged == \A r \in Requests : response[r] = "ok" => In(r, log)

Inv == /\ TypeOK /\ Places /\ OnePlace /\ Pending /\ Delivered
       /\ GoodLogged /\ AnswersLogged /\ ResponseLogged
-----------------------------------------------------------------------------
(* Sequences.                                                              *)

LEMMA InAppend ==
  ASSUME NEW S, NEW s \in Seq(S), NEW x \in S, NEW r
  PROVE  In(r, Append(s, x)) <=> In(r, s) \/ r = x
<1>1. /\ Len(Append(s, x)) = Len(s) + 1
      /\ \A k \in 1..Len(s) : Append(s, x)[k] = s[k]
      /\ Append(s, x)[Len(s) + 1] = x
  OBVIOUS
<1> QED BY <1>1 DEF In

LEMMA InTail ==
  ASSUME NEW S, NEW s \in Seq(S), s # <<>>, NEW r
  PROVE  In(r, s) <=> In(r, Tail(s)) \/ r = Head(s)
<1>1. /\ Len(s) \in Nat \ {0} /\ Len(Tail(s)) = Len(s) - 1 /\ Head(s) = s[1]
      /\ \A k \in 1..Len(Tail(s)) : Tail(s)[k] = s[k + 1]
  OBVIOUS
<1>2. ASSUME NEW k \in 1..Len(s), s[k] = r, r # Head(s) PROVE In(r, Tail(s))
  <2>1. k - 1 \in 1..Len(Tail(s)) /\ Tail(s)[k - 1] = r
    BY <1>1, <1>2
  <2> QED BY <2>1 DEF In
<1>3. ASSUME NEW k \in 1..Len(Tail(s)), Tail(s)[k] = r PROVE In(r, s)
  <2>1. k + 1 \in 1..Len(s) /\ s[k + 1] = r
    BY <1>1, <1>3
  <2> QED BY <2>1 DEF In
<1>4. r = Head(s) => In(r, s)
  BY <1>1 DEF In
<1> QED BY <1>2, <1>3, <1>4 DEF In

LEMMA DistinctAppend ==
  ASSUME NEW S, NEW s \in Seq(S), NEW x \in S, Distinct(s), ~In(x, s)
  PROVE  Distinct(Append(s, x))
<1>1. /\ Len(Append(s, x)) = Len(s) + 1
      /\ \A k \in 1..Len(s) : Append(s, x)[k] = s[k]
      /\ Append(s, x)[Len(s) + 1] = x
  OBVIOUS
<1> QED BY <1>1 DEF In, Distinct

LEMMA DistinctTail ==
  ASSUME NEW S, NEW s \in Seq(S), s # <<>>, Distinct(s)
  PROVE  Distinct(Tail(s)) /\ ~In(Head(s), Tail(s))
<1>1. /\ Len(s) \in Nat \ {0} /\ Len(Tail(s)) = Len(s) - 1 /\ Head(s) = s[1]
      /\ \A k \in 1..Len(Tail(s)) : Tail(s)[k] = s[k + 1]
  OBVIOUS
<1>2. ASSUME NEW i \in 1..Len(Tail(s)), NEW j \in 1..Len(Tail(s)), Tail(s)[i] = Tail(s)[j]
      PROVE  i = j
  <2>1. i + 1 \in 1..Len(s) /\ j + 1 \in 1..Len(s) /\ s[i + 1] = s[j + 1]
    BY <1>1, <1>2
  <2> QED BY <2>1 DEF Distinct
<1>3. ASSUME NEW k \in 1..Len(Tail(s)), Tail(s)[k] = Head(s) PROVE FALSE
  <2>1. k + 1 \in 1..Len(s) /\ 1 \in 1..Len(s) /\ s[k + 1] = s[1]
    BY <1>1, <1>3
  <2>2. k + 1 = 1
    BY <2>1 DEF Distinct
  <2> QED BY <2>2
<1> QED BY <1>2, <1>3 DEF Distinct, In

LEMMA HeadOfSeq ==
  ASSUME NEW S, NEW s \in Seq(S), s # <<>>
  PROVE  /\ Head(s) \in S /\ Tail(s) \in Seq(S) /\ Len(s) \in Nat \ {0}
         /\ Len(Tail(s)) = Len(s) - 1 /\ In(Head(s), s)
<1>1. Head(s) = s[1] /\ Len(s) \in Nat \ {0} /\ Len(Tail(s)) = Len(s) - 1
  OBVIOUS
<1> QED BY <1>1 DEF In

-----------------------------------------------------------------------------
(* The invariant holds initially, and no step breaks it.                   *)

LEMMA InitInv == Init => Inv
<1> SUFFICES ASSUME Init PROVE Inv
  OBVIOUS
<1>1. TypeOK
  <2>1. maxBatch \in Nat \ {0}
    BY BatcherAssumption DEF Init
  <2>2. /\ submits \in [Requests -> {"new", "accepted", "refused"} \cup Answered]
        /\ response \in [Requests -> {"none"} \cup Answered]
    BY DEF Init
  <2>3. tried \in 0..maxBatch /\ good \subseteq 1..tried
    BY <2>1 DEF Init
  <2>4. /\ reqCh \in Seq(Requests) /\ Len(reqCh) <= Capacity
        /\ batch \in Seq(Requests) /\ Len(batch) <= maxBatch
        /\ answers \in Seq(Answered) /\ log \in Seq(Requests)
    BY <2>1, BatcherAssumption DEF Init
  <2> QED BY <2>2, <2>3, <2>4 DEF Init, TypeOK
<1>2. Places /\ OnePlace /\ Pending /\ Delivered
  BY DEF Init, Places, OnePlace, Pending, Delivered, In, Distinct
<1>3. GoodLogged /\ AnswersLogged /\ ResponseLogged
  BY DEF Init, GoodLogged, AnswersLogged, ResponseLogged
<1> QED BY <1>1, <1>2, <1>3 DEF Inv

LEMMA SubmitInv == ASSUME Inv, NEW r \in Requests, Submit(r) PROVE Inv'
<1> USE DEF channels, database
<1>0. /\ reqCh \in Seq(Requests) /\ batch \in Seq(Requests)
      /\ reqCh' = Append(reqCh, r) /\ batch' = batch
      /\ submits \in [Requests -> {"new", "accepted", "refused"} \cup Answered]
      /\ submits[r] = "new" /\ submits' = [submits EXCEPT ![r] = "accepted"]
      /\ UNCHANGED <<response, at, tried, good, answers, log>>
  BY DEF Inv, TypeOK, Submit
<1>1. ~In(r, reqCh) /\ ~In(r, batch) /\ response[r] = "none"
  <2>1. response[r] # "none" => submits[r] = "accepted"
    BY DEF Inv, Delivered
  <2>2. In(r, reqCh) \/ In(r, batch) => submits[r] = "accepted"
    BY DEF Inv, Pending
  <2> QED BY <1>0, <2>1, <2>2
<1>2. TypeOK'
  BY BatcherAssumption DEF Inv, TypeOK, Submit
<1>3. \A x : In(x, reqCh') <=> In(x, reqCh) \/ x = r
  BY <1>0, InAppend
<1>4. OnePlace'
  <2>1. Distinct(reqCh')
    BY <1>0, <1>1, DistinctAppend DEF Inv, OnePlace
  <2> QED BY <1>0, <1>1, <1>3, <2>1 DEF Inv, OnePlace
<1>5. Pending' /\ Delivered'
  BY <1>0, <1>1, <1>3 DEF Inv, Pending, Delivered
<1>6. Places' /\ GoodLogged' /\ AnswersLogged' /\ ResponseLogged'
  BY <1>0 DEF Inv, Places, GoodLogged, AnswersLogged, ResponseLogged
<1> QED BY <1>2, <1>4, <1>5, <1>6 DEF Inv

LEMMA SubmitStoppedInv == ASSUME Inv, NEW r \in Requests, SubmitStopped(r) PROVE Inv'
<1>1. TypeOK'
  BY DEF Inv, TypeOK, SubmitStopped, channels, database
<1>2. Pending' /\ Delivered'
  BY DEF Inv, TypeOK, SubmitStopped, channels, database, Pending, Delivered
<1>3. Places' /\ OnePlace' /\ GoodLogged' /\ AnswersLogged' /\ ResponseLogged'
  BY DEF Inv, SubmitStopped, channels, database, Places, OnePlace, GoodLogged, AnswersLogged, ResponseLogged
<1> QED BY <1>1, <1>2, <1>3 DEF Inv

LEMMA SubmitReturnsInv == ASSUME Inv, NEW r \in Requests, SubmitReturns(r) PROVE Inv'
<1>1. TypeOK'
  BY DEF Inv, TypeOK, SubmitReturns, channels, database, Answered
<1>2. Pending' /\ Delivered' /\ ResponseLogged'
  BY DEF Inv, TypeOK, SubmitReturns, channels, database, Pending, Delivered, ResponseLogged
<1>3. Places' /\ OnePlace' /\ GoodLogged' /\ AnswersLogged'
  BY DEF Inv, SubmitReturns, channels, database, Places, OnePlace, GoodLogged, AnswersLogged
<1> QED BY <1>1, <1>2, <1>3 DEF Inv

LEMMA StopInv == ASSUME Inv, Stop \/ StopReturns PROVE Inv'
<1>1. TypeOK'
  BY DEF Inv, TypeOK, Stop, StopReturns, channels, database
<1>2. UNCHANGED <<submits, response, reqCh, at, batch, tried, good, answers, log>>
  BY DEF Stop, StopReturns, channels, database
<1> QED BY <1>1, <1>2 DEF Inv, Places, OnePlace, Pending, Delivered, GoodLogged,
                          AnswersLogged, ResponseLogged

(* The loop takes the first request of the channel into its batch.         *)
LEMMA TakeInv ==
  ASSUME Inv, reqCh # <<>>, reqCh' = Tail(reqCh), batch' = Append(batch, Head(reqCh)),
         Len(batch) < maxBatch, at \in {"first", "collect", "drain"}, at' \in {"collect", "flush"},
         leaving' = leaving, Loop, UNCHANGED <<database, answers>>
  PROVE  Inv'
<1> USE DEF Loop, database
<1> DEFINE h == Head(reqCh)
<1>0. /\ reqCh \in Seq(Requests) /\ batch \in Seq(Requests)
      /\ h \in Requests /\ Tail(reqCh) \in Seq(Requests)
      /\ Len(Tail(reqCh)) = Len(reqCh) - 1
  BY HeadOfSeq DEF Inv, TypeOK
<1>1. \A x : In(x, batch') <=> In(x, batch) \/ x = h
  BY <1>0, InAppend
<1>2. \A x : In(x, reqCh) <=> In(x, reqCh') \/ x = h
  BY <1>0, InTail
<1>3. TypeOK'
  <2>1. batch' \in Seq(Requests) /\ Len(batch') <= maxBatch'
    BY <1>0, BatcherAssumption DEF Inv, TypeOK
  <2> QED BY <1>0, <2>1, BatcherAssumption DEF Inv, TypeOK
<1>4. Places'
  <2>1. batch' # <<>> /\ Len(batch') = Len(batch) + 1
    BY <1>0
  <2>2. tried = 0 /\ good = {}
    BY DEF Inv, Places
  <2> QED BY <1>0, <2>1, <2>2 DEF Inv, Places
<1>5. OnePlace'
  <2>1. Distinct(reqCh') /\ ~In(h, reqCh')
    BY <1>0, DistinctTail DEF Inv, OnePlace
  <2>2. ~In(h, batch)
    BY <1>0, <1>2 DEF Inv, OnePlace
  <2>3. Distinct(batch')
    BY <1>0, <2>2, DistinctAppend DEF Inv, OnePlace
  <2> QED BY <1>1, <1>2, <2>1, <2>3 DEF Inv, OnePlace
<1>6. Pending' /\ Delivered'
  BY <1>0, <1>1, <1>2 DEF Inv, Pending, Delivered
<1>7. GoodLogged' /\ AnswersLogged' /\ ResponseLogged'
  BY DEF Inv, Places, GoodLogged, AnswersLogged, ResponseLogged
<1> QED BY <1>3, <1>4, <1>5, <1>6, <1>7 DEF Inv

(* The loop goes elsewhere with the batch it has.                          *)
LEMMA MoveInv ==
  ASSUME Inv, UNCHANGED <<reqCh, batch, database, answers>>, Loop,
         leaving' \in BOOLEAN,
         \/ at \in {"first", "drain"} /\ at' \in {"drain", "done"}
         \/ at = "collect" /\ at' = "flush"
  PROVE  Inv'
<1>1. TypeOK'
  BY DEF Inv, TypeOK, Loop, database
<1>2. Places'
  BY DEF Inv, TypeOK, Places, Loop, database
<1>3. OnePlace' /\ Pending' /\ Delivered' /\ ResponseLogged'
  BY DEF Inv, OnePlace, Pending, Delivered, ResponseLogged, Loop, database
<1>4. GoodLogged' /\ AnswersLogged'
  BY DEF Inv, Places, GoodLogged, AnswersLogged, Loop, database
<1> QED BY <1>1, <1>2, <1>3, <1>4 DEF Inv

LEMMA WriteParameterizedInv == ASSUME Inv, WriteParameterized PROVE Inv'
<1> USE DEF Loop, database
<1>0. /\ at = "flush" /\ tried \in Nat /\ tried < Len(batch) /\ tried' = tried + 1
      /\ batch \in Seq(Requests) /\ log \in Seq(Requests) /\ Len(batch) <= maxBatch
      /\ maxBatch \in Nat /\ tried' \in 1..Len(batch) /\ batch[tried'] \in Requests
      /\ good \subseteq 1..tried
      /\ UNCHANGED <<submits, response, reqCh, at, batch, answers>>
  BY BatcherAssumption DEF Inv, TypeOK, WriteParameterized
<1>1. CASE good' = good \cup {tried'} /\ log' = Append(log, batch[tried'])
  <2>1. \A r : In(r, log') <=> In(r, log) \/ r = batch[tried']
    BY <1>0, <1>1, InAppend
  <2>2. TypeOK'
    BY <1>0, <1>1, BatcherAssumption DEF Inv, TypeOK, WriteParameterized
  <2>3. GoodLogged' /\ AnswersLogged' /\ ResponseLogged'
    BY <1>0, <1>1, <2>1 DEF Inv, GoodLogged, AnswersLogged, ResponseLogged
  <2>4. Places' /\ OnePlace' /\ Pending' /\ Delivered'
    BY <1>0 DEF Inv, Places, OnePlace, Pending, Delivered
  <2> QED BY <2>2, <2>3, <2>4 DEF Inv
<1>2. CASE UNCHANGED <<good, log>>
  <2>1. TypeOK'
    BY <1>0, <1>2, BatcherAssumption DEF Inv, TypeOK, WriteParameterized
  <2>2. Places' /\ OnePlace' /\ Pending' /\ Delivered'
    BY <1>0 DEF Inv, Places, OnePlace, Pending, Delivered
  <2>3. GoodLogged' /\ AnswersLogged' /\ ResponseLogged'
    BY <1>0, <1>2 DEF Inv, GoodLogged, AnswersLogged, ResponseLogged
  <2> QED BY <2>1, <2>2, <2>3 DEF Inv
<1> QED BY <1>1, <1>2 DEF WriteParameterized

LEMMA FlushInv == ASSUME Inv, flush PROVE Inv'
<1> USE DEF Loop, database
<1>0. /\ at = "flush" /\ at' = "answer" /\ batch \in Seq(Requests)
      /\ UNCHANGED <<maxBatch, submits, response, stopper, leaving, reqCh, batch, tried, good, log>>
  BY DEF Inv, TypeOK, flush
<1>1. PICK n \in Nat : answers' = Answers(n)
  <2>1. CASE answers' = Answers(0)
    BY <2>1
  <2>2. CASE \E n \in 1..tried : answers' = Answers(n)
    BY <2>2
  <2> QED BY <2>1, <2>2 DEF flush
<1>2. /\ answers' \in Seq(Answered) /\ Len(answers') = Len(batch)
      /\ \A k \in 1..Len(batch) : answers'[k] = "ok" => k \in good
  <2>1. Len(batch) \in Nat /\ answers' \in [1..Len(batch) -> Answered]
    BY <1>0, <1>1 DEF Answers, Answered
  <2>2. \A k \in 1..Len(batch) : answers'[k] = "ok" => k \in good
    BY <1>1 DEF Answers
  <2> QED BY <2>1, <2>2
<1>3. TypeOK'
  BY <1>0, <1>2 DEF Inv, TypeOK
<1>4. AnswersLogged'
  BY <1>0, <1>2 DEF Inv, GoodLogged, AnswersLogged
<1>5. Places' /\ OnePlace' /\ Pending' /\ Delivered' /\ GoodLogged' /\ ResponseLogged'
  BY <1>0, <1>2 DEF Inv, Places, OnePlace, Pending, Delivered, GoodLogged, ResponseLogged
<1> QED BY <1>3, <1>4, <1>5 DEF Inv

LEMMA RespondInv == ASSUME Inv, respond PROVE Inv'
<1> DEFINE h == Head(batch)
<1>0. /\ at = "answer" /\ batch # <<>> /\ batch \in Seq(Requests)
      /\ batch' = Tail(batch) /\ answers' = Tail(answers)
      /\ response \in [Requests -> {"none"} \cup Answered]
      /\ response' = [response EXCEPT ![h] = Head(answers)]
      /\ UNCHANGED <<maxBatch, submits, reqCh, stopper, at, leaving, tried, good, log>>
  BY DEF Inv, TypeOK, respond, database
<1>1. /\ answers \in Seq(Answered) /\ Len(answers) = Len(batch) /\ answers # <<>>
      /\ Len(Tail(answers)) = Len(Tail(batch))
      /\ Head(answers) \in Answered /\ Head(answers) = answers[1] /\ h = batch[1]
      /\ Len(batch) \in Nat \ {0} /\ Len(Tail(batch)) = Len(batch) - 1
      /\ \A k \in 1..Len(Tail(batch)) : /\ Tail(batch)[k] = batch[k + 1]
                                        /\ Tail(answers)[k] = answers[k + 1]
  BY <1>0 DEF Inv, TypeOK, Places
<1>2. /\ h \in Requests /\ Tail(batch) \in Seq(Requests) /\ In(h, batch)
      /\ \A r : In(r, batch) <=> In(r, Tail(batch)) \/ r = h
      /\ Distinct(Tail(batch)) /\ ~In(h, Tail(batch))
  BY <1>0, HeadOfSeq, InTail, DistinctTail DEF Inv, OnePlace
<1>3. TypeOK'
  <2>1. response' \in [Requests -> {"none"} \cup Answered]
    BY <1>0, <1>1
  <2>2. Len(batch') <= maxBatch'
    BY <1>0, <1>1, BatcherAssumption DEF Inv, TypeOK
  <2>3. answers' \in Seq(Answered)
    BY <1>0, <1>1
  <2> QED BY <1>0, <1>2, <2>1, <2>2, <2>3 DEF Inv, TypeOK
<1>4. Places' /\ GoodLogged'
  BY <1>0, <1>1 DEF Inv, Places, GoodLogged
<1>5. OnePlace'
  BY <1>0, <1>2 DEF Inv, OnePlace
<1>6. Pending'
  <2>1. ~In(h, reqCh)
    BY <1>2 DEF Inv, OnePlace
  <2> QED BY <1>0, <1>2, <2>1 DEF Inv, Pending
<1>7. Delivered'
  BY <1>0, <1>2 DEF Inv, Pending, Delivered
<1>8. AnswersLogged'
  <2>1. ASSUME NEW k \in 1..Len(batch'), answers'[k] = "ok" PROVE In(batch'[k], log')
    <3>1. k + 1 \in 1..Len(batch) /\ answers[k + 1] = "ok" /\ batch'[k] = batch[k + 1]
      BY <1>0, <1>1, <2>1
    <3> QED BY <1>0, <3>1 DEF Inv, AnswersLogged
  <2> QED BY <2>1 DEF AnswersLogged
<1>9. ResponseLogged'
  <2>1. Head(answers) = "ok" => In(h, log)
    BY <1>0, <1>1 DEF Inv, AnswersLogged
  <2> QED BY <1>0, <2>1 DEF Inv, ResponseLogged
<1> QED BY <1>3, <1>4, <1>5, <1>6, <1>7, <1>8, <1>9 DEF Inv

LEMMA AnsweredInv == ASSUME Inv, answered PROVE Inv'
<1> USE DEF Loop
<1>1. TypeOK'
  BY BatcherAssumption DEF Inv, TypeOK, answered
<1>2. Places'
  BY DEF Inv, Places, answered
<1>3. OnePlace' /\ Pending' /\ Delivered' /\ ResponseLogged'
  BY DEF Inv, OnePlace, Pending, Delivered, ResponseLogged, answered
<1>4. GoodLogged' /\ AnswersLogged'
  BY DEF GoodLogged, AnswersLogged, answered
<1> QED BY <1>1, <1>2, <1>3, <1>4 DEF Inv

(* Wherever the loop takes a request from, it appends it to the batch.     *)
LEMMA LoopSelects ==
  ASSUME Inv, first \/ collect \/ drain
  PROVE  /\ Loop /\ UNCHANGED <<database, answers>> /\ leaving' \in BOOLEAN
         /\ \/ /\ reqCh # <<>> /\ reqCh' = Tail(reqCh) /\ Len(batch) < maxBatch
               /\ batch' = Append(batch, Head(reqCh)) /\ leaving' = leaving
               /\ at \in {"first", "collect", "drain"} /\ at' \in {"collect", "flush"}
            \/ /\ UNCHANGED <<reqCh, batch>>
               /\ \/ at \in {"first", "drain"} /\ at' \in {"drain", "done"}
                  \/ at = "collect" /\ at' = "flush"
<1>0. leaving \in BOOLEAN /\ maxBatch \in Nat \ {0}
  BY BatcherAssumption DEF Inv, TypeOK
<1>1. at \in {"first", "drain"} => batch = <<>> /\ Len(batch) < maxBatch
  BY <1>0 DEF Inv, Places
<1>2. reqCh # <<>> => Append(<<>>, Head(reqCh)) = <<Head(reqCh)>>
  OBVIOUS
<1>3. CASE first
  BY <1>0, <1>1, <1>2, <1>3 DEF first, Take
<1>4. CASE collect
  BY <1>0, <1>4 DEF collect, Take
<1>5. CASE drain
  BY <1>0, <1>1, <1>2, <1>5 DEF drain, Take
<1> QED BY <1>3, <1>4, <1>5

LEMMA NextInv == Inv /\ [Next]_vars => Inv'
<1> SUFFICES ASSUME Inv, [Next]_vars PROVE Inv'
  OBVIOUS
<1>1. CASE UNCHANGED vars
  <2>1. UNCHANGED <<maxBatch, submits, response, reqCh, stopper, at, leaving, batch, tried,
                    good, answers, log>>
    BY <1>1 DEF vars, channels, database
  <2> QED BY <2>1 DEF Inv, TypeOK, Places, OnePlace, Pending, Delivered, GoodLogged,
                      AnswersLogged, ResponseLogged
<1>2. ASSUME NEW r \in Requests, Submit(r) \/ SubmitStopped(r) \/ SubmitReturns(r)
      PROVE  Inv'
  BY <1>2, SubmitInv, SubmitStoppedInv, SubmitReturnsInv
<1>3. CASE Stop \/ StopReturns
  BY <1>3, StopInv
<1>4. CASE first \/ collect \/ drain
  BY <1>4, LoopSelects, TakeInv, MoveInv
<1>5. CASE WriteParameterized \/ flush \/ respond \/ answered
  BY <1>5, WriteParameterizedInv, FlushInv, RespondInv, AnsweredInv
<1> QED BY <1>1, <1>2, <1>3, <1>4, <1>5 DEF Next, loop

(* The invariant of every reachable state.                                 *)
LEMMA Invariant == Spec => []Inv
<1> QED BY InitInv, NextInv, PTL DEF Spec

(* The variables of the batcher keep their types; in particular a batch is *)
(* no longer than its limit and the channel no longer than its capacity.   *)
THEOREM Typed == Spec => []TypeOK
<1>1. Inv => TypeOK
  BY DEF Inv
<1> QED BY <1>1, Invariant, PTL

-----------------------------------------------------------------------------
(* Every step of the batcher is a step of WriteService, or leaves what it  *)
(* knows of unchanged.                                                     *)

(* Taking the head of a sequence off and appending it to another leaves    *)
(* their concatenation as it was.                                          *)
LEMMA MoveHead ==
  ASSUME NEW S, NEW b \in Seq(S), NEW q \in Seq(S), q # <<>>
  PROVE  Append(b, Head(q)) \o Tail(q) = b \o q
OBVIOUS

LEMMA ConcatAppend ==
  ASSUME NEW S, NEW b \in Seq(S), NEW q \in Seq(S), NEW x \in S
  PROVE  b \o Append(q, x) = Append(b \o q, x)
OBVIOUS

LEMMA ConcatHeadTail ==
  ASSUME NEW S, NEW u \in Seq(S), NEW q \in Seq(S), u # <<>>
  PROVE  /\ u \o q \in Seq(S) /\ Len(u \o q) = Len(u) + Len(q) /\ u \o q # <<>>
         /\ Head(u \o q) = Head(u) /\ Tail(u \o q) = Tail(u) \o q
<1>1. Len(u \o q) = Len(u) + Len(q) /\ u \o q \in Seq(S) /\ u \o q # <<>>
  OBVIOUS
<1>2. Head(u \o q) = Head(u)
  OBVIOUS
<1>3. Tail(u \o q) = Tail(u) \o q
  OBVIOUS
<1> QED BY <1>1, <1>2, <1>3

LEMMA ConcatDrop ==
  ASSUME NEW S, NEW u \in Seq(S), NEW q \in Seq(S)
  PROVE  SubSeq(u \o q, Len(u) + 1, Len(u \o q)) = q
OBVIOUS

LEMMA WholeBatch ==
  ASSUME NEW S, NEW b \in Seq(S), NEW q \in Seq(S)
  PROVE  SubSeq(b, 1, Len(b)) = b /\ <<>> \o q = q
OBVIOUS

LEMMA ElementsIn ==
  ASSUME NEW S, NEW s \in Seq(S), NEW r PROVE r \in Service!Elements(s) <=> In(r, s)
BY DEF Service!Elements, In

LEMMA InConcat ==
  ASSUME NEW S, NEW u \in Seq(S), NEW q \in Seq(S), NEW r, In(r, u \o q)
  PROVE  In(r, u) \/ In(r, q)
<1>1. PICK k \in 1..Len(u \o q) : (u \o q)[k] = r
  BY DEF In
<1>2. CASE k <= Len(u)
  BY <1>1, <1>2 DEF In
<1>3. CASE k > Len(u)
  <2>1. k - Len(u) \in 1..Len(q) /\ q[k - Len(u)] = r
    BY <1>1, <1>3
  <2> QED BY <2>1 DEF In
<1> QED BY <1>1, <1>2, <1>3

(* What the batch still has to give, at each place of the loop.            *)
LEMMA UntriedIs ==
  ASSUME Inv
  PROVE  /\ Untried \in Seq(Requests) /\ reqCh \in Seq(Requests) /\ log \in Seq(Requests)
         /\ Untried \o reqCh \in Seq(Requests)
         /\ at # "answer" /\ at # "flush" => Untried = batch
         /\ at = "flush" => /\ Untried = SubSeq(batch, tried + 1, Len(batch))
                            /\ Len(Untried) = Len(batch) - tried
         /\ \A r \in Requests : In(r, Untried) => In(r, batch)
<1>1. /\ batch \in Seq(Requests) /\ reqCh \in Seq(Requests) /\ log \in Seq(Requests)
      /\ tried \in Nat
  BY BatcherAssumption DEF Inv, TypeOK
<1>2. CASE at = "answer"
  BY <1>1, <1>2 DEF Untried, In
<1>3. CASE at # "answer"
  <2>1. tried <= Len(batch) /\ (at # "flush" => tried = 0)
    BY <1>1, <1>3 DEF Inv, Places
  <2>2. /\ Untried = SubSeq(batch, tried + 1, Len(batch)) /\ Untried \in Seq(Requests)
        /\ Len(Untried) = Len(batch) - tried
        /\ \A k \in 1..Len(Untried) : Untried[k] = batch[tried + k]
    BY <1>1, <1>3, <2>1 DEF Untried
  <2>3. \A r \in Requests : In(r, Untried) => In(r, batch)
    <3> SUFFICES ASSUME NEW k \in 1..Len(Untried) PROVE In(Untried[k], batch)
      BY DEF In
    <3>1. tried + k \in 1..Len(batch)
      BY <1>1, <2>1, <2>2
    <3> QED BY <2>2, <3>1 DEF In
  <2>4. at # "flush" => Untried = batch
    BY <1>1, <2>1, <2>2, WholeBatch
  <2> QED BY <1>1, <1>3, <2>2, <2>3, <2>4
<1> QED BY <1>2, <1>3

LEMMA SubmitRefines == ASSUME Inv, NEW r \in Requests, Submit(r) PROVE Service!Accept(r)
<1>1. UNCHANGED <<Untried, log>> /\ reqCh' = Append(reqCh, r)
  BY DEF Submit, Untried, database
<1>2. Untried' \o reqCh' = Append(Untried \o reqCh, r)
  BY <1>1, UntriedIs, ConcatAppend
<1> QED BY <1>1, <1>2 DEF Submit, Service!Accept

LEMMA RefusedRefines ==
  ASSUME Inv, NEW r \in Requests, SubmitStopped(r) PROVE Service!Refuse(r)
BY DEF SubmitStopped, Service!Refuse, Untried, channels, database

(* The answer that Submit returns is of a write that has left the queue.   *)
LEMMA ReturnsRefines ==
  ASSUME Inv, NEW r \in Requests, SubmitReturns(r) PROVE Service!Answer(r)
<1>1. /\ submits[r] = "accepted" /\ response[r] # "none"
      /\ submits' = [submits EXCEPT ![r] = response[r]]
      /\ UNCHANGED <<Untried \o reqCh, log>>
  BY DEF SubmitReturns, Untried, database
<1>2. r \notin Service!Elements(Untried \o reqCh)
  <2>1. ~In(r, batch) /\ ~In(r, reqCh)
    BY <1>1 DEF Inv, Pending
  <2>2. ~In(r, Untried \o reqCh)
    BY <2>1, UntriedIs, InConcat
  <2> QED BY <2>2, UntriedIs, ElementsIn
<1>3. response[r] = "ok" => r \in Service!Elements(log)
  BY UntriedIs, ElementsIn DEF Inv, ResponseLogged
<1>4. response[r] \in {"ok", "error"}
  BY <1>1 DEF Inv, TypeOK, Answered
<1> QED BY <1>1, <1>2, <1>3, <1>4 DEF Service!Answer

(* Requests move from the channel to the batch without passing each other. *)
LEMMA SelectRefines ==
  ASSUME Inv, Inv', first \/ collect \/ drain PROVE UNCHANGED Service!vars
<1>1. Loop /\ UNCHANGED <<database, answers>>
  BY LoopSelects
<1>2. at \in {"first", "collect", "drain"} /\ at' \in {"collect", "flush", "drain", "done"}
  BY DEF first, collect, drain, Take
<1>3. Untried = batch /\ Untried' = batch'
  <2>1. tried' = 0
    BY <1>1, <1>2 DEF Inv, Places, database
  <2>2. batch' \in Seq(Requests)
    BY DEF Inv, TypeOK
  <2>3. Untried' = SubSeq(batch', 1, Len(batch'))
    BY <1>2, <2>1 DEF Untried
  <2> QED BY <1>2, <2>2, <2>3, UntriedIs, WholeBatch
<1>4. batch \in Seq(Requests) /\ reqCh \in Seq(Requests)
  BY DEF Inv, TypeOK
<1>5. batch' \o reqCh' = batch \o reqCh
  BY <1>4, LoopSelects, MoveHead
<1> QED BY <1>1, <1>3, <1>5 DEF Service!vars, Loop, database

(* A statement takes its request from the front of the queue.              *)
LEMMA WriteRefines ==
  ASSUME Inv, WriteParameterized PROVE Service!Execute \/ Service!GiveUp
<1>0. /\ at = "flush" /\ tried \in Nat /\ tried < Len(batch) /\ tried' = tried + 1
      /\ batch \in Seq(Requests) /\ UNCHANGED <<submits, reqCh, at, batch>>
      /\ \/ log' = Append(log, batch[tried + 1])
         \/ UNCHANGED log
  BY BatcherAssumption DEF Inv, TypeOK, WriteParameterized, Loop
<1>1. /\ Untried \in Seq(Requests) /\ reqCh \in Seq(Requests) /\ Untried # <<>>
      /\ Untried = SubSeq(batch, tried + 1, Len(batch))
  BY <1>0, UntriedIs
<1>2. Head(Untried) = batch[tried + 1] /\ Tail(Untried) = Untried'
  <2>1. tried + 1 \in 1..Len(batch) /\ Len(batch) \in (tried + 1)..Len(batch)
    BY <1>0
  <2>2. Untried' = SubSeq(batch, (tried + 1) + 1, Len(batch))
    BY <1>0 DEF Untried
  <2> QED BY <1>0, <1>1, <2>1, <2>2, HeadTailOfSubSeq
<1> DEFINE q == Untried \o reqCh
<1>3. /\ q \in Seq(Requests) /\ q # <<>> /\ Head(q) = batch[tried + 1]
      /\ Untried' \o reqCh' = Tail(q)
  <2>1. /\ q \in Seq(Requests) /\ q # <<>> /\ Head(q) = Head(Untried)
        /\ Tail(q) = Tail(Untried) \o reqCh
    <3>1. ASSUME NEW u \in Seq(Requests), NEW w \in Seq(Requests), u # <<>>
          PROVE  /\ u \o w \in Seq(Requests) /\ u \o w # <<>> /\ Head(u \o w) = Head(u)
                 /\ Tail(u \o w) = Tail(u) \o w
      BY <3>1, ConcatHeadTail
    <3> QED BY <1>1, <3>1
  <2>2. Untried' \o reqCh' = Tail(Untried) \o reqCh
    BY <1>0, <1>2
  <2> QED BY <1>2, <2>1, <2>2
<1>4. Tail(q) = SubSeq(q, 1 + 1, Len(q)) /\ 1 \in 1..Len(q)
  <2> HIDE DEF q
  <2> QED BY <1>3, TailIsSubSeq
<1>5. CASE log' = Append(log, batch[tried + 1])
  BY <1>0, <1>3, <1>5 DEF Service!Execute
<1>6. CASE UNCHANGED log
  BY <1>0, <1>3, <1>4, <1>6 DEF Service!GiveUp
<1> QED BY <1>0, <1>5, <1>6

(* What a call leaves untried when it returns is given up all at once.     *)
LEMMA FlushRefines ==
  ASSUME Inv, flush PROVE Service!GiveUp \/ UNCHANGED Service!vars
<1>1. /\ at = "flush" /\ at' = "answer" /\ Untried' = <<>>
      /\ UNCHANGED <<submits, reqCh, log>>
  BY DEF flush, Loop, Untried, database
<1> DEFINE q == Untried \o reqCh
<1>2. /\ Untried \in Seq(Requests) /\ reqCh \in Seq(Requests) /\ q \in Seq(Requests)
      /\ Len(q) = Len(Untried) + Len(reqCh)
  BY UntriedIs, ConcatProperties
<1>3. Untried' \o reqCh' = reqCh
  BY <1>1, <1>2, WholeBatch
<1>4. CASE Untried = <<>>
  BY <1>1, <1>2, <1>3, <1>4, WholeBatch DEF Service!vars
<1>5. CASE Untried # <<>>
  <2>1. reqCh = SubSeq(q, Len(Untried) + 1, Len(q))
    BY <1>2, ConcatDrop
  <2>2. Len(Untried) \in 1..Len(q)
    <3> HIDE DEF q
    <3> QED BY <1>2, <1>5
  <2> QED BY <1>1, <1>3, <2>1, <2>2 DEF Service!GiveUp
<1> QED BY <1>4, <1>5

LEMMA AnswerRefines ==
  ASSUME Inv, respond \/ answered \/ Stop \/ StopReturns PROVE UNCHANGED Service!vars
<1>1. CASE respond
  BY <1>1 DEF respond, Untried, Service!vars, database
<1>2. CASE answered
  <2>1. Untried = <<>> /\ Untried' = <<>>
    BY <1>2 DEF answered, Untried
  <2> QED BY <1>2, <2>1 DEF answered, Loop, Service!vars
<1>3. CASE Stop \/ StopReturns
  BY <1>3 DEF Stop, StopReturns, Untried, Service!vars, channels, database
<1> QED BY <1>1, <1>2, <1>3

LEMMA RefinesStep ==
  ASSUME Inv, Inv', [Next]_vars PROVE [Service!Next]_(Service!vars)
<1>1. ASSUME NEW r \in Requests, Submit(r) \/ SubmitStopped(r) \/ SubmitReturns(r)
      PROVE  Service!Next
  BY <1>1, SubmitRefines, RefusedRefines, ReturnsRefines DEF Service!Next
<1>2. CASE first \/ collect \/ drain
  BY <1>2, SelectRefines
<1>3. CASE WriteParameterized
  BY <1>3, WriteRefines DEF Service!Next
<1>4. CASE flush
  BY <1>4, FlushRefines DEF Service!Next
<1>5. CASE respond \/ answered \/ Stop \/ StopReturns
  BY <1>5, AnswerRefines
<1>6. CASE UNCHANGED vars
  BY <1>6 DEF vars, channels, database, Untried, Service!vars
<1> QED BY <1>1, <1>2, <1>3, <1>4, <1>5, <1>6 DEF Next, loop

(* The batcher is the queue that WriteService describes, for any number of *)
(* requests, any capacity and any limit of a batch: in whatever order the  *)
(* goroutines run and however calls of the database fail, writes leave in  *)
(* the order they were accepted in, each of them once, and only a write    *)
(* that was executed is answered with success.                             *)
THEOREM ServesInOrder == Spec => ServesWrites
<1>1. Init => Service!Init
  <2> SUFFICES ASSUME Init PROVE Untried \o reqCh = <<>>
    BY DEF Init, Service!Init
  <2>1. Untried = <<>>
    BY DEF Init, Untried
  <2> QED BY <2>1 DEF Init
<1>2. Inv /\ Inv' /\ [Next]_vars => [Service!Next]_(Service!vars)
  BY RefinesStep
<1> QED BY <1>1, <1>2, Invariant, PTL DEF Spec, ServesWrites, Service!Spec
=============================================================================
