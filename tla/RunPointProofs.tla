--------------------------- MODULE RunPointProofs ---------------------------
(***************************************************************************)
(* RunPoint, for any blocks, socket, ring, bounds and choice of faults.    *)
(* First that it implements Handover: through losses, timeouts, kept       *)
(* batches and deaths of the capturer, complete harvests return a prefix   *)
(* of the writes.  Then what a run leaves on the peer: its types, and      *)
(* OnlyWindowLost, from an invariant that adds to where every write is     *)
(* what the peer's blocks hold, in terms of positions in the log.          *)
(***************************************************************************)
EXTENDS RunPoint, TLAPS

(* The sequence s is the part of l after its first n elements.             *)
Segment(s, n, l) == /\ n + Len(s) <= Len(l)
                    /\ \A i \in 1..Len(s) : s[i] = l[n + i]

(* s is what was written after the first n writes.                         *)
Follows(s, n) == Segment(s, n, log)

-----------------------------------------------------------------------------
(* The inductive invariant.                                                *)

SeqTypes ==
  /\ log \in Seq(Change) /\ ring \in Seq(Change) /\ batch \in Seq(Change)
  /\ got \in Seq(Change) /\ taken \in Seq(Change)
  /\ wire \in Seq(Item) /\ unsent \in Seq(Item)
  /\ Len(log) <= MaxWrites /\ need \in 0..MaxWrites
  /\ phase \in {"ready", "size", "body", "apply"}
  /\ daemon \in {"poll", "drained", "sending", "exited"}
  /\ conn \in {"backlog", "accepted", "closed"}

TakenFirst == Follows(taken, 0)

(* What has arrived, or is in the socket, of the reply under way.          *)
SizeInFlight ==
  phase = "size" /\ wire # <<>> /\ Head(wire).val # ErrorSize =>
    /\ Head(wire).val \in 0..MaxWrites
    /\ Len(wire) <= 1 + Head(wire).val
    /\ Len(taken) + Head(wire).val <= Len(log)
    /\ Follows(Tail(wire), Len(taken))
BodyInFlight ==
  phase = "body" =>
    /\ Len(got) < need /\ Len(got) + Len(wire) <= need
    /\ Len(taken) + need <= Len(log)
    /\ Follows(got, Len(taken)) /\ Follows(wire, Len(taken) + Len(got))

(* Where the two sides of an open connection are.                          *)
Protocol ==
  /\ conn = "closed" => daemon \in {"poll", "exited"}
  /\ conn # "closed" =>
       /\ daemon # "exited" /\ (daemon = "sending" => unsent # <<>>)
       /\ phase \in {"ready", "apply"} => daemon = "poll" /\ wire = <<>> /\ ~cmd
       /\ cmd => phase = "size" /\ daemon = "poll" /\ wire = <<>>
       /\ daemon = "drained" => phase = "size" /\ wire = <<>>
       /\ daemon = "poll" /\ ~cmd /\ phase = "size" =>
            wire # <<>> /\ Head(wire).val \in 0..MaxWrites
                        /\ Len(wire) = 1 + Head(wire).val
       /\ daemon = "poll" /\ phase = "body" => Len(got) + Len(wire) = need

(* What is unsent is the rest of the batch, behind its size.               *)
SizeSending ==
  daemon = "sending" /\ phase = "size" =>
    /\ Len(wire) + Len(unsent) = 1 + Len(batch)
    /\ wire # <<>> => Head(wire) = Size(Len(batch))
    /\ \A i \in 1..Len(unsent) :
         unsent[i] = IF Len(wire) + i = 1 THEN Size(Len(batch)) ELSE batch[Len(wire) + i - 1]
BodySending ==
  daemon = "sending" /\ phase = "body" =>
    /\ need = Len(batch) /\ Len(got) + Len(wire) + Len(unsent) = need
    /\ \A i \in 1..Len(unsent) : unsent[i] = batch[Len(got) + Len(wire) + i]

(* Writes of a reply that is sent but not yet read to its end.             *)
Unread == IF daemon # "poll" \/ cmd THEN 0
          ELSE IF phase = "size" THEN Head(wire).val
          ELSE IF phase = "body" THEN need ELSE 0

(* As long as nothing was lost, the batch and the ring hold the rest of the*)
(* writes; a batch that is being sent passed the check for a loss.         *)
Kept ==
  conn # "closed" =>
    /\ ~lost => /\ Follows(batch, Len(taken) + Unread)
                /\ Follows(ring, Len(taken) + Unread + Len(batch))
                /\ Len(taken) + Unread + Len(batch) + Len(ring) = Len(log)
    /\ daemon = "sending" => Follows(batch, Len(taken))

Inv == /\ SeqTypes /\ TakenFirst /\ SizeInFlight /\ BodyInFlight
       /\ Protocol /\ SizeSending /\ BodySending /\ Kept
-----------------------------------------------------------------------------
(* Segments.                                                               *)

LEMMA SegmentEmpty ==
  ASSUME NEW S, NEW l \in Seq(S), NEW n \in 0..Len(l) PROVE Segment(<<>>, n, l)
BY DEF Segment

LEMMA SegmentConcat ==
  ASSUME NEW S, NEW l \in Seq(S), NEW T, NEW s \in Seq(T), NEW t \in Seq(T), NEW n \in Nat,
         Segment(s, n, l), Segment(t, n + Len(s), l)
  PROVE  Segment(s \o t, n, l)
<1>1. /\ Len(s \o t) = Len(s) + Len(t)
      /\ \A i \in 1..(Len(s) + Len(t)) :
           (s \o t)[i] = IF i <= Len(s) THEN s[i] ELSE t[i - Len(s)]
  OBVIOUS
<1>2. ASSUME NEW i \in 1..Len(s \o t) PROVE (s \o t)[i] = l[n + i]
  <2>1. CASE i <= Len(s)
    BY <1>1, <2>1 DEF Segment
  <2>2. CASE i > Len(s)
    <3>1. i - Len(s) \in 1..Len(t) /\ (n + Len(s)) + (i - Len(s)) = n + i
      BY <1>1, <2>2
    <3> QED BY <1>1, <2>2, <3>1 DEF Segment
  <2> QED BY <2>1, <2>2
<1> QED BY <1>1, <1>2 DEF Segment

LEMMA SegmentGrow ==
  ASSUME NEW S, NEW l \in Seq(S), NEW T, NEW s \in Seq(T), NEW n \in Nat, NEW w \in S,
         Segment(s, n, l)
  PROVE  Segment(s, n, Append(l, w))
BY DEF Segment

LEMMA SegmentAppend ==
  ASSUME NEW S, NEW l \in Seq(S), NEW s \in Seq(S), NEW n \in Nat, NEW w \in S,
         Segment(s, n, l), n + Len(s) = Len(l)
  PROVE  Segment(Append(s, w), n, Append(l, w))
BY DEF Segment

LEMMA SegmentTail ==
  ASSUME NEW S, NEW l \in Seq(S), NEW T, NEW s \in Seq(T), NEW n \in Nat,
         Segment(s, n, l), s # <<>>
  PROVE  Head(s) = l[n + 1] /\ Segment(Tail(s), n + 1, l)
<1>1. Len(s) >= 1 /\ Head(s) = s[1] /\ Len(Tail(s)) = Len(s) - 1
  OBVIOUS
<1>2. \A i \in 1..Len(Tail(s)) : Tail(s)[i] = s[i + 1]
  BY <1>1
<1> QED BY <1>1, <1>2 DEF Segment

LEMMA SegmentNext ==
  ASSUME NEW S, NEW l \in Seq(S), NEW T, NEW s \in Seq(T), NEW n \in Nat, NEW v \in T,
         Segment(s, n, l), n + Len(s) < Len(l), v = l[n + Len(s) + 1]
  PROVE  Segment(Append(s, v), n, l)
BY DEF Segment

LEMMA SegmentFirst ==
  ASSUME NEW S, NEW l \in Seq(S), NEW s \in Seq(S), Segment(s, 0, l)
  PROVE  s = SubSeq(l, 1, Len(s))
BY DEF Segment

-----------------------------------------------------------------------------
(* The invariant holds initially, and no step breaks it.                   *)

LEMMA InitInv == Init => Inv
<1> SUFFICES ASSUME Init PROVE Inv
  OBVIOUS
<1>1. SeqTypes
  BY RunPointAssumption DEF Init, SeqTypes
<1>2. TakenFirst /\ Kept
  BY DEF Init, TakenFirst, Kept, Follows, Segment, Unread
<1>3. SizeInFlight /\ BodyInFlight /\ Protocol /\ SizeSending /\ BodySending
  BY DEF Init, SizeInFlight, BodyInFlight, Protocol, SizeSending, BodySending
<1> QED BY <1>1, <1>2, <1>3 DEF Inv

(* The steps of the run that leave the harvest and the capturer alone.     *)
LEMMA OtherSteps ==
  ASSUME Inv,
         UNCHANGED <<log, ring, lost, daemon, batch, unsent, conn, cmd, wire,
                     phase, need, got, taken>>
  PROVE  Inv'
BY DEF Inv, SeqTypes, TakenFirst, SizeInFlight, BodyInFlight, Protocol, SizeSending,
       BodySending, Kept, Follows, Segment, Unread

LEMMA WriteInv == ASSUME Inv, Write PROVE Inv'
<1> USE DEF Inv
<1>1. PICK b \in Blocks :
        LET w == [block |-> b, val |-> Len(log) + 1]
        IN /\ Len(log) < MaxWrites /\ log' = Append(log, w)
           /\ \/ daemon = "exited" /\ UNCHANGED <<ring, lost>>
              \/ ring' = Append(ring, w) /\ UNCHANGED lost
              \/ lost' = TRUE /\ UNCHANGED ring
  BY DEF Write
<1> DEFINE w == [block |-> b, val |-> Len(log) + 1]
<1>2. UNCHANGED <<daemon, batch, unsent, conn, cmd, wire, phase, need, got, taken>>
  BY DEF Write, capturer, recorder
<1>3. w \in Change /\ log' = Append(log, w) /\ Len(log') = Len(log) + 1
  BY <1>1, RunPointAssumption DEF SeqTypes, Change
<1>4. SeqTypes'
  <2>1. ring' \in Seq(Change) /\ log' \in Seq(Change)
    <3>1. ring' = ring \/ ring' = Append(ring, w)
      BY <1>1
    <3>2. ring \in Seq(Change) /\ log \in Seq(Change) /\ w \in Change
      BY <1>3 DEF SeqTypes
    <3>3. Append(ring, w) \in Seq(Change) /\ Append(log, w) \in Seq(Change)
      <4> HIDE DEF w
      <4> QED BY <3>2
    <3> QED BY <3>1, <3>2, <3>3, <1>3
  <2>2. Len(log') <= MaxWrites
    BY <1>1, <1>3, RunPointAssumption DEF SeqTypes
  <2> QED BY <1>2, <2>1, <2>2 DEF SeqTypes
<1>5. ASSUME NEW T, NEW s \in Seq(T), NEW n \in Nat, Follows(s, n) PROVE Segment(s, n, log')
  BY <1>3, <1>5, SegmentGrow DEF SeqTypes, Follows
<1>6. TakenFirst'
  BY <1>2, <1>5 DEF SeqTypes, TakenFirst, Follows
<1>7. SizeInFlight'
  <2> SUFFICES ASSUME phase = "size", wire # <<>>, Head(wire).val # ErrorSize
               PROVE  SizeInFlight'
    BY <1>2 DEF SizeInFlight
  <2>1. Tail(wire) \in Seq(Item) /\ Len(taken) \in Nat
    BY DEF SeqTypes
  <2>2. Segment(Tail(wire), Len(taken), log')
    BY <1>5, <2>1 DEF SizeInFlight
  <2>3. Len(log) \in Nat /\ Head(wire).val \in Nat
    BY RunPointAssumption DEF SeqTypes, SizeInFlight
  <2> QED BY <1>2, <1>3, <2>1, <2>2, <2>3 DEF SizeInFlight, Follows
<1>8. BodyInFlight'
  BY <1>2, <1>3, <1>5 DEF SeqTypes, BodyInFlight, Follows
<1>9. Protocol' /\ SizeSending' /\ BodySending'
  BY <1>2 DEF Protocol, SizeSending, BodySending
<1>10. Kept'
  <2> SUFFICES ASSUME conn # "closed" PROVE Kept'
    BY <1>2 DEF Kept
  <2>1. Unread \in Nat /\ Unread' = Unread
    BY <1>2 DEF Unread, Protocol, SeqTypes
  <2>2. daemon = "sending" => Follows(batch, Len(taken))'
    BY <1>2, <1>5 DEF Kept, SeqTypes, Follows
  <2>3. ASSUME ~lost, ring' = Append(ring, w)
        PROVE  /\ Follows(batch, Len(taken) + Unread)'
               /\ Follows(ring, Len(taken) + Unread + Len(batch))'
               /\ (Len(taken) + Unread + Len(batch) + Len(ring) = Len(log))'
    BY <1>2, <1>3, <1>5, <2>1, <2>3, SegmentAppend DEF Kept, SeqTypes, Follows
  <2>4. ~lost' => ~lost /\ ring' = Append(ring, w)
    BY <1>1 DEF Protocol
  <2> QED BY <1>2, <2>2, <2>3, <2>4 DEF Kept
<1> QED BY <1>4, <1>6, <1>7, <1>8, <1>9, <1>10

-----------------------------------------------------------------------------
(* The capturer's steps.                                                   *)

LEMMA ConsumeSegment ==
  ASSUME SeqTypes, NEW n \in Nat, Follows(batch, n), Follows(ring, n + Len(batch))
  PROVE  Follows(batch \o ring, n) /\ Len(batch \o ring) = Len(batch) + Len(ring)
BY SegmentConcat DEF SeqTypes, Follows

LEMMA ConsumeInv == ASSUME Inv, consume_ring PROVE Inv'
<1> USE DEF Inv
<1>1. /\ daemon = "poll" /\ batch' = batch \o ring /\ ring' = <<>>
      /\ UNCHANGED <<log, lost, daemon, unsent, conn, cmd, wire, phase, need, got, taken>>
  BY DEF consume_ring, Consume, recorder
<1>2. SeqTypes'
  BY <1>1 DEF SeqTypes
<1>3. TakenFirst' /\ SizeInFlight' /\ BodyInFlight' /\ Protocol' /\ SizeSending' /\ BodySending'
  BY <1>1 DEF TakenFirst, SizeInFlight, BodyInFlight, Protocol, SizeSending, BodySending, Follows
<1>4. Kept'
  <2> SUFFICES ASSUME conn # "closed", ~lost PROVE Kept'
    BY <1>1 DEF Kept
  <2>1. Unread \in Nat /\ Unread' = Unread
    BY <1>1 DEF Unread, Protocol, SeqTypes
  <2>2. Follows(batch \o ring, Len(taken) + Unread) /\ Len(batch') = Len(batch) + Len(ring)
    BY <1>1, <2>1, ConsumeSegment DEF Kept, SeqTypes
  <2>3. Segment(<<>>, Len(log), log)
    BY SegmentEmpty DEF SeqTypes
  <2> QED BY <1>1, <2>1, <2>2, <2>3 DEF Kept, Follows, SeqTypes
<1> QED BY <1>2, <1>3, <1>4

LEMMA ServiceInv == ASSUME Inv, service_capture_socket PROVE Inv'
<1> USE DEF Inv
<1>1. /\ daemon = "poll" /\ conn # "closed" /\ conn' = "accepted"
      /\ UNCHANGED <<log, lost, unsent, wire, phase, need, got, taken>>
  BY DEF service_capture_socket, Consume, primary, recorder
<1>2. CASE ~cmd
  <2>1. UNCHANGED <<ring, batch, daemon, cmd>>
    BY <1>2 DEF service_capture_socket, primary
  <2>2. SeqTypes' /\ TakenFirst' /\ SizeInFlight' /\ BodyInFlight'
    BY <1>1, <2>1 DEF SeqTypes, TakenFirst, SizeInFlight, BodyInFlight, Follows
  <2>3. Protocol' /\ SizeSending' /\ BodySending'
    BY <1>1, <2>1 DEF Protocol, SizeSending, BodySending
  <2>4. Kept'
    BY <1>1, <2>1 DEF Kept, Unread, Follows
  <2> QED BY <2>2, <2>3, <2>4
<1>3. CASE cmd
  <2>1. batch' = batch \o ring /\ ring' = <<>> /\ daemon' = "drained" /\ cmd' = FALSE
    BY <1>3 DEF service_capture_socket, Consume
  <2>2. phase = "size" /\ wire = <<>>
    BY <1>1, <1>3 DEF Protocol
  <2>3. SeqTypes'
    BY <1>1, <2>1 DEF SeqTypes
  <2>4. TakenFirst' /\ SizeInFlight' /\ BodyInFlight' /\ SizeSending' /\ BodySending'
    BY <1>1, <2>1, <2>2
       DEF TakenFirst, SizeInFlight, BodyInFlight, SizeSending, BodySending, Follows
  <2>5. Protocol'
    BY <1>1, <2>1, <2>2 DEF Protocol
  <2>6. Kept'
    <3> SUFFICES ASSUME ~lost PROVE Kept'
      BY <1>1, <2>1 DEF Kept
    <3>1. Unread = 0 /\ Unread' = 0 /\ Len(taken) + 0 = Len(taken) /\ Len(taken) \in Nat
      BY <1>1, <1>3, <2>1 DEF Unread, SeqTypes
    <3>2. Follows(batch \o ring, Len(taken)) /\ Len(batch') = Len(batch) + Len(ring)
      BY <1>1, <2>1, <3>1, ConsumeSegment DEF Kept, SeqTypes
    <3>3. Segment(<<>>, Len(log), log)
      BY SegmentEmpty DEF SeqTypes
    <3>4. Len(taken) + Len(batch) + Len(ring) = Len(log)
      BY <1>1, <3>1 DEF Kept
    <3>5. Follows(batch, Len(taken))'
      BY <1>1, <2>1, <3>2 DEF Follows
    <3>6. Len(taken') + Len(batch') = Len(log')
      BY <1>1, <3>2, <3>4 DEF SeqTypes
    <3>7. Follows(ring, Len(taken) + Len(batch))'
      BY <1>1, <2>1, <3>3, <3>6 DEF Follows
    <3> QED BY <1>1, <2>1, <3>1, <3>5, <3>6, <3>7 DEF Kept, SeqTypes
  <2> QED BY <2>3, <2>4, <2>5, <2>6
<1> QED BY <1>2, <1>3

(* Items of a reply.                                                       *)
LEMMA ItemTypes ==
  /\ Change \subseteq Item
  /\ \A n \in 0..ErrorSize : Size(n) \in Item /\ Size(n).val = n
  /\ MaxWrites \in Nat /\ ErrorSize = MaxWrites + 1
BY RunPointAssumption DEF Item, Size, ErrorSize

LEMMA CaptureInv == ASSUME Inv, capture_and_send PROVE Inv'
<1> USE DEF Inv
<1>1. /\ daemon = "drained"
      /\ UNCHANGED <<log, ring, lost, batch, cmd, phase, need, got, taken>>
  BY DEF capture_and_send, primary, recorder
<1>2. conn # "closed" /\ phase = "size" /\ wire = <<>> /\ ~cmd
  BY <1>1 DEF Protocol
<1>3. CASE lost
  <2>1. /\ daemon' = "exited" /\ conn' = "closed" /\ unsent' = unsent
        /\ wire' = <<Size(ErrorSize)>>
    BY <1>2, <1>3 DEF capture_and_send
  <2>2. SeqTypes' /\ Head(wire').val = ErrorSize
    <3>1. Size(ErrorSize) \in Item /\ Size(ErrorSize).val = ErrorSize
      BY ItemTypes
    <3> HIDE DEF Size
    <3> QED BY <1>1, <2>1, <3>1 DEF SeqTypes
  <2>3. TakenFirst' /\ SizeInFlight' /\ BodyInFlight'
    BY <1>1, <1>2, <2>1, <2>2 DEF TakenFirst, SizeInFlight, BodyInFlight, Follows
  <2>4. Protocol' /\ SizeSending' /\ BodySending' /\ Kept'
    BY <2>1 DEF Protocol, SizeSending, BodySending, Kept
  <2> QED BY <2>2, <2>3, <2>4
<1>4. CASE ~lost
  <2>1. /\ daemon' = "sending" /\ unsent' = <<Size(Len(batch))>> \o batch
        /\ UNCHANGED <<conn, wire>>
    BY <1>4 DEF capture_and_send
  <2>2. Unread = 0 /\ Unread' = 0 /\ Len(taken) + 0 = Len(taken)
    BY <1>1, <2>1 DEF Unread, SeqTypes
  <2>3. Follows(batch, Len(taken)) /\ Len(taken) + Len(batch) + Len(ring) = Len(log)
    BY <1>2, <1>4, <2>2 DEF Kept
  <2>4. Size(Len(batch)) \in Item /\ batch \in Seq(Item)
    <3>1. Len(batch) \in 0..ErrorSize
      BY <2>3, ItemTypes DEF SeqTypes
    <3> QED BY <3>1, ItemTypes DEF SeqTypes
  <2>5. /\ unsent' \in Seq(Item) /\ Len(unsent') = 1 + Len(batch)
        /\ \A i \in 1..Len(unsent') :
             unsent'[i] = IF i = 1 THEN Size(Len(batch)) ELSE batch[i - 1]
    BY <2>1, <2>4
  <2>6. SeqTypes'
    BY <1>1, <2>1, <2>5 DEF SeqTypes
  <2>7. TakenFirst' /\ SizeInFlight' /\ BodyInFlight' /\ BodySending'
    BY <1>1, <1>2, <2>1 DEF TakenFirst, SizeInFlight, BodyInFlight, BodySending, Follows
  <2>8. SizeSending'
    BY <1>1, <1>2, <2>1, <2>5 DEF SizeSending
  <2>9. Protocol'
    BY <1>1, <1>2, <2>1 DEF Protocol
  <2>10. Kept'
    BY <1>1, <2>1, <2>2, <2>3, <1>4, <1>2 DEF Kept, Follows
  <2> QED BY <2>6, <2>7, <2>8, <2>9, <2>10
<1> QED BY <1>3, <1>4

LEMMA SendInv == ASSUME Inv, send_batch PROVE Inv'
<1> USE DEF Inv
<1>1. /\ daemon = "sending" /\ unsent # <<>>
      /\ wire' = Append(wire, Head(unsent)) /\ unsent' = Tail(unsent)
      /\ UNCHANGED <<log, ring, lost, conn, cmd, phase, need, got, taken>>
  BY DEF send_batch, primary, recorder
<1>2. \/ Len(unsent) = 1 /\ daemon' = "poll" /\ batch' = <<>>
      \/ Len(unsent) # 1 /\ UNCHANGED <<daemon, batch>>
  BY DEF send_batch
<1>3. conn # "closed" /\ ~cmd /\ phase \in {"size", "body"} /\ Follows(batch, Len(taken))
  BY <1>1 DEF Protocol, Kept, SeqTypes
<1>4. /\ Head(unsent) = unsent[1] /\ Head(unsent) \in Item /\ Len(unsent') = Len(unsent) - 1
      /\ Len(unsent) >= 1
      /\ \A i \in 1..Len(unsent') : unsent'[i] = unsent[i + 1]
  BY <1>1 DEF SeqTypes
<1>5. /\ Len(wire') = Len(wire) + 1 /\ wire' \in Seq(Item) /\ wire' # <<>>
      /\ wire # <<>> => Head(wire') = Head(wire) /\ Tail(wire') = Append(Tail(wire), Head(unsent))
      /\ wire = <<>> => Head(wire') = Head(unsent) /\ Tail(wire') = <<>>
  BY <1>1, <1>4 DEF SeqTypes
<1>. /\ Len(taken) \in Nat /\ Len(got) \in Nat /\ Len(wire) \in Nat /\ Len(unsent) \in Nat
     /\ Len(batch) \in Nat /\ Len(log) \in Nat /\ need \in Nat
  BY RunPointAssumption DEF SeqTypes
<1>6. Len(batch) \in 0..MaxWrites /\ Size(Len(batch)).val = Len(batch)
  BY <1>3, ItemTypes DEF SeqTypes, Follows, Segment
<1>7. SeqTypes'
  BY <1>1, <1>2, <1>5 DEF SeqTypes
<1>8. TakenFirst'
  BY <1>1 DEF TakenFirst, Follows
<1>9. phase = "size" => Head(wire') = Size(Len(batch)) /\ Len(wire) <= Len(batch)
  BY <1>1, <1>4, <1>5 DEF SizeSending, SeqTypes
<1>10. ASSUME phase = "size" PROVE Follows(Tail(wire), Len(taken))'
  <2>1. CASE wire = <<>>
    BY <1>1, <1>3, <1>5, <2>1, SegmentEmpty DEF SeqTypes, Follows, Segment
  <2>2. CASE wire # <<>>
    <3>1. Head(wire).val # ErrorSize
      BY <1>5, <1>6, <1>9, <1>10, <2>2, ItemTypes
    <3>2. Follows(Tail(wire), Len(taken)) /\ Tail(wire) \in Seq(Item) /\ Len(Tail(wire)) = Len(wire) - 1
      BY <1>10, <2>2, <3>1 DEF SizeInFlight, SeqTypes
    <3>3. Head(unsent) = batch[Len(wire)] /\ Len(wire) \in 1..Len(batch)
      BY <1>1, <1>4, <1>9, <1>10, <2>2 DEF SizeSending, SeqTypes
    <3>4. /\ Len(taken) + Len(Tail(wire)) < Len(log)
          /\ Head(unsent) = log[Len(taken) + Len(Tail(wire)) + 1]
      BY <1>3, <3>2, <3>3 DEF Follows, Segment, SeqTypes
    <3>5. Segment(Append(Tail(wire), Head(unsent)), Len(taken), log)
      <4>1. Segment(Tail(wire), Len(taken), log) /\ log \in Seq(Change)
        BY <3>2 DEF Follows, SeqTypes
      <4> QED BY <1>4, <3>2, <3>4, <4>1, SegmentNext
    <3> QED BY <1>1, <1>5, <2>2, <3>5 DEF Follows
  <2> QED BY <2>1, <2>2
<1>11. SizeInFlight'
  <2> SUFFICES ASSUME phase = "size" PROVE SizeInFlight'
    BY <1>1 DEF SizeInFlight
  <2>1. Head(wire').val = Len(batch) /\ Len(taken) + Len(batch) <= Len(log)
    BY <1>3, <1>6, <1>9 DEF Follows, Segment
  <2>2. Len(wire') <= 1 + Head(wire').val
    BY <1>5, <1>9, <2>1
  <2> QED BY <1>1, <1>6, <1>10, <2>1, <2>2 DEF SizeInFlight
<1>12. ASSUME phase = "body"
       PROVE  BodyInFlight' /\ Len(got) + Len(wire') + Len(unsent') = need /\ need = Len(batch)
  <2>1. need = Len(batch) /\ Len(got) + Len(wire) + Len(unsent) = need
    BY <1>1, <1>12 DEF BodySending
  <2>2. Head(unsent) = batch[Len(got) + Len(wire) + 1]
    BY <1>1, <1>4, <1>12 DEF BodySending, SeqTypes
  <2>3. /\ Len(taken) + Len(got) + Len(wire) < Len(log)
        /\ Head(unsent) = log[(Len(taken) + Len(got)) + Len(wire) + 1]
    BY <1>3, <1>4, <2>1, <2>2 DEF Follows, Segment, SeqTypes
  <2>4. Follows(wire, Len(taken) + Len(got)) /\ Len(taken) + Len(got) \in Nat
    BY <1>12 DEF BodyInFlight, SeqTypes
  <2>5. Segment(Append(wire, Head(unsent)), Len(taken) + Len(got), log)
    BY <1>4, <2>3, <2>4, SegmentNext DEF Follows, SeqTypes
  <2>6. Len(got) + Len(wire') + Len(unsent') = need /\ Len(got) + Len(wire') <= need
    <3>1. Len(unsent') = Len(unsent) - 1 /\ Len(unsent) >= 1 /\ Len(wire') = Len(wire) + 1
      BY <1>4, <1>5
    <3> QED BY <2>1, <3>1
  <2> QED BY <1>1, <1>12, <2>1, <2>5, <2>6 DEF BodyInFlight, Follows
<1>13. BodyInFlight'
  BY <1>1, <1>12 DEF BodyInFlight
<1>14. CASE Len(unsent) = 1
  <2>1. daemon' = "poll" /\ batch' = <<>>
    BY <1>2, <1>14
  <2>2. SizeSending' /\ BodySending'
    BY <2>1 DEF SizeSending, BodySending
  <2>3. phase = "size" => Len(wire') = 1 + Len(batch)
    BY <1>1, <1>5, <1>14 DEF SizeSending, SeqTypes
  <2>4. phase = "body" => Len(got) + Len(wire') = need
    BY <1>4, <1>12, <1>14 DEF SeqTypes
  <2>5. Protocol'
    BY <1>1, <1>3, <1>5, <1>6, <1>9, <2>1, <2>3, <2>4 DEF Protocol
  <2>6. Unread = 0 /\ Unread' = Len(batch)
    BY <1>1, <1>3, <1>6, <1>9, <1>12, <2>1 DEF Unread
  <2>7. Kept'
    <3> SUFFICES ASSUME ~lost PROVE Kept'
      BY <1>1, <2>1 DEF Kept
    <3>1. /\ Follows(ring, Len(taken) + Len(batch))
          /\ Len(taken) + Len(batch) + Len(ring) = Len(log)
      BY <1>3, <2>6 DEF Kept, SeqTypes
    <3>2. Follows(<<>>, Len(taken) + Len(batch))
      BY <1>3 DEF Follows, Segment, SeqTypes
    <3>3. Len(taken) + Len(batch) + Len(batch') = Len(taken) + Len(batch)
      BY <2>1 DEF SeqTypes
    <3> QED BY <1>1, <2>1, <2>6, <3>1, <3>2, <3>3 DEF Kept, Follows
  <2> QED BY <1>7, <1>8, <1>11, <1>13, <2>2, <2>5, <2>7
<1>15. CASE Len(unsent) # 1
  <2>1. UNCHANGED <<daemon, batch>>
    BY <1>2, <1>15
  <2>. unsent' # <<>>
    BY <1>4, <1>15
  <2>2. SizeSending'
    <3> SUFFICES ASSUME phase = "size" PROVE SizeSending'
      BY <1>1 DEF SizeSending
    <3>1. Len(wire) + Len(unsent) = 1 + Len(batch)
      BY <1>1 DEF SizeSending
    <3>3. Len(wire') + Len(unsent') = 1 + Len(batch)
      <4>1. Len(unsent') = Len(unsent) - 1 /\ Len(wire') = Len(wire) + 1
        BY <1>4, <1>5
      <4> QED BY <3>1, <4>1
    <3>2. ASSUME NEW i \in 1..Len(unsent')
          PROVE  unsent'[i] = IF Len(wire') + i = 1 THEN Size(Len(batch))
                              ELSE batch[Len(wire') + i - 1]
      <4>1. unsent'[i] = unsent[i + 1] /\ i + 1 \in 1..Len(unsent)
        BY <1>4
      <4>2. Len(wire) + (i + 1) # 1 /\ Len(wire) + (i + 1) - 1 = Len(wire') + i - 1
        BY <1>4, <1>5
      <4>3. unsent[i + 1] = batch[Len(wire) + (i + 1) - 1]
        BY <1>1, <4>1, <4>2 DEF SizeSending
      <4> QED BY <1>5, <4>1, <4>2, <4>3
    <3> QED BY <1>1, <1>9, <2>1, <3>2, <3>3 DEF SizeSending
  <2>3. BodySending'
    BY <1>1, <1>4, <1>5, <1>12, <2>1 DEF BodySending
  <2>4. Protocol'
    BY <1>1, <1>3, <2>1 DEF Protocol
  <2>5. Kept'
    BY <1>1, <2>1 DEF Kept, Unread, Follows
  <2> QED BY <1>7, <1>8, <1>11, <1>13, <2>2, <2>3, <2>4, <2>5
<1> QED BY <1>14, <1>15

(* A timeout or the end of the capturer closes the connection.             *)
LEMMA CloseInv == ASSUME Inv, SendTimesOut \/ Exit PROVE Inv'
<1> USE DEF Inv
<1>1. /\ conn' = "closed" /\ unsent' = <<>> /\ daemon' \in {"poll", "exited"}
      /\ UNCHANGED <<log, ring, lost, batch, cmd, wire, phase, need, got, taken>>
  BY DEF SendTimesOut, Exit, primary, recorder
<1>2. SeqTypes'
  BY <1>1 DEF SeqTypes
<1>3. TakenFirst' /\ SizeInFlight' /\ BodyInFlight'
  BY <1>1 DEF TakenFirst, SizeInFlight, BodyInFlight, Follows
<1>4. Protocol' /\ SizeSending' /\ BodySending' /\ Kept'
  BY <1>1 DEF Protocol, SizeSending, BodySending, Kept
<1> QED BY <1>2, <1>3, <1>4

-----------------------------------------------------------------------------
(* The recorder's steps.                                                   *)

LEMMA AskInv == ASSUME Inv, Ask PROVE Inv'
<1> USE DEF Inv
<1>1. /\ phase = "ready"
      /\ UNCHANGED <<log, ring, lost, daemon, batch, unsent, conn, wire, need, got, taken>>
  BY DEF Ask, Fail, Recorder, primary, capturer
<1>2. \/ conn = "closed" /\ phase' = "ready" /\ UNCHANGED cmd
      \/ conn # "closed" /\ phase' = "size" /\ cmd' = TRUE
  BY <1>1 DEF Ask, Fail
<1>3. SeqTypes' /\ TakenFirst'
  BY <1>1, <1>2 DEF SeqTypes, TakenFirst, Follows
<1>4. CASE conn = "closed"
  BY <1>1, <1>2, <1>3, <1>4
     DEF SizeInFlight, BodyInFlight, Protocol, SizeSending, BodySending, Kept
<1>5. CASE conn # "closed"
  <2>1. daemon = "poll" /\ wire = <<>> /\ ~cmd
    BY <1>1, <1>5 DEF Protocol
  <2>2. SizeInFlight' /\ BodyInFlight' /\ SizeSending' /\ BodySending' /\ Protocol'
    BY <1>1, <1>2, <1>5, <2>1
       DEF SizeInFlight, BodyInFlight, SizeSending, BodySending, Protocol
  <2>3. Unread = 0 /\ Unread' = 0
    BY <1>1, <1>2, <1>5, <2>1 DEF Unread
  <2>4. Kept'
    BY <1>1, <2>1, <2>3 DEF Kept, Follows
  <2> QED BY <1>3, <2>2, <2>4
<1> QED BY <1>4, <1>5

(* A harvest that ends leaves an open connection as it found it: nothing   *)
(* asked for, nothing to read, and the batch and the ring hold the rest.   *)
LEMMA HarvestEnds ==
  ASSUME Inv, UNCHANGED <<log, ring, lost, daemon, batch, unsent, conn, cmd>>,
         phase' \in {"ready", "apply"},
         conn # "closed" => daemon = "poll" /\ ~cmd /\ wire' = <<>>
                            /\ Len(taken') = Len(taken) + Unread
  PROVE  /\ SizeInFlight' /\ BodyInFlight' /\ Protocol' /\ SizeSending' /\ BodySending'
         /\ SeqTypes' => Kept'
<1>1. SizeInFlight' /\ BodyInFlight' /\ SizeSending' /\ BodySending'
  BY DEF SizeInFlight, BodyInFlight, SizeSending, BodySending
<1>2. Protocol'
  BY DEF Inv, Protocol
<1>3. ASSUME SeqTypes' PROVE Kept'
  <2> SUFFICES ASSUME conn # "closed" PROVE Kept'
    BY DEF Kept
  <2>1. Unread' = 0 /\ daemon = "poll"
    BY DEF Unread
  <2>2. Len(taken') + Unread' = Len(taken) + Unread
    BY <1>3, <2>1 DEF SeqTypes
  <2> QED BY <2>1, <2>2 DEF Inv, Kept, Follows
<1> QED BY <1>1, <1>2, <1>3

LEMMA EofInv == ASSUME Inv, RecvEof PROVE Inv'
<1> USE DEF Inv
<1>1. /\ conn = "closed" /\ phase' = "ready"
      /\ UNCHANGED <<log, ring, lost, daemon, batch, unsent, conn, cmd, wire, need, got, taken>>
  BY DEF RecvEof, Fail, Recorder, primary, capturer
<1>2. SeqTypes' /\ TakenFirst'
  BY <1>1 DEF SeqTypes, TakenFirst, Follows
<1> QED BY <1>1, <1>2, HarvestEnds

LEMMA ApplyInv == ASSUME Inv, push_and_apply PROVE Inv'
<1> USE DEF Inv
<1>1. /\ phase = "apply"
      /\ UNCHANGED <<log, ring, lost, daemon, batch, unsent, conn, cmd, wire, need, taken>>
      /\ \/ got # <<>> /\ got' = Tail(got) /\ UNCHANGED phase
         \/ UNCHANGED got /\ phase' = "ready"
  BY DEF push_and_apply, Fail, Recorder, primary, capturer
<1>2. TakenFirst'
  BY <1>1 DEF TakenFirst, Follows
<1>3. CASE got # <<>> /\ got' = Tail(got) /\ UNCHANGED phase
  <2>1. SeqTypes'
    BY <1>1, <1>3 DEF SeqTypes
  <2>2. SizeInFlight' /\ BodyInFlight' /\ Protocol' /\ SizeSending' /\ BodySending'
    BY <1>1, <1>3 DEF SizeInFlight, BodyInFlight, Protocol, SizeSending, BodySending
  <2>3. Kept'
    BY <1>1, <1>3 DEF Kept, Unread, Follows
  <2> QED BY <1>2, <2>1, <2>2, <2>3
<1>4. CASE UNCHANGED got /\ phase' = "ready"
  <2>1. SeqTypes'
    BY <1>1, <1>4 DEF SeqTypes
  <2>2. conn # "closed" => daemon = "poll" /\ ~cmd /\ wire = <<>> /\ Unread = 0
    BY <1>1 DEF Protocol, Unread
  <2>3. Len(taken) + 0 = Len(taken)
    BY DEF SeqTypes
  <2> QED BY <1>1, <1>2, <1>4, <2>1, <2>2, <2>3, HarvestEnds
<1> QED BY <1>1, <1>3, <1>4

LEMMA SizeInv == ASSUME Inv, RecvSize PROVE Inv'
<1> USE DEF Inv
<1> DEFINE n == Head(wire).val
<1>1. /\ phase = "size" /\ wire # <<>> /\ wire' = Tail(wire)
      /\ UNCHANGED <<log, ring, lost, daemon, batch, unsent, conn, cmd>>
  BY DEF RecvSize, Recorder, primary, capturer
<1>2. \/ n = ErrorSize /\ phase' = "ready" /\ UNCHANGED <<need, got, taken>>
      \/ /\ n = 0 /\ taken' = taken \o <<>> /\ got' = <<>> /\ need' = 0
         /\ phase' \in {"ready", "apply"}
      \/ /\ n \in 1..MaxWrites /\ need' = n /\ got' = <<>> /\ phase' = "body"
         /\ UNCHANGED taken
  BY DEF RecvSize, Fail, Harvested
<1>3. /\ wire' \in Seq(Item) /\ Len(wire') = Len(wire) - 1
      /\ Len(wire) \in Nat /\ Len(unsent) \in Nat /\ Len(batch) \in Nat /\ Len(taken) \in Nat
      /\ Len(log) \in Nat /\ MaxWrites \in Nat /\ ErrorSize = MaxWrites + 1
      /\ taken \o <<>> = taken /\ Len(wire) >= 1
  BY <1>1, RunPointAssumption DEF SeqTypes, ErrorSize
<1>4. SeqTypes' /\ TakenFirst'
  <2>1. taken' = taken /\ got' \in Seq(Change) /\ need' \in 0..MaxWrites
    <3>1. taken' = taken /\ (UNCHANGED <<need, got>> \/ (got' = <<>> /\ need' \in 0..MaxWrites))
      BY <1>2, <1>3
    <3>2. got \in Seq(Change) /\ <<>> \in Seq(Change) /\ need \in 0..MaxWrites
      BY DEF SeqTypes
    <3> QED BY <3>1, <3>2
  <2>2. phase' \in {"ready", "size", "body", "apply"}
    BY <1>2
  <2> QED BY <1>1, <1>3, <2>1, <2>2 DEF SeqTypes, TakenFirst, Follows
<1>5. ASSUME conn # "closed", daemon = "sending"
      PROVE  /\ n = Len(batch) /\ n \in 0..MaxWrites
             /\ Len(wire) + Len(unsent) = 1 + n /\ Len(unsent) >= 1
  <2>1. Len(batch) \in 0..MaxWrites
    BY <1>3, <1>5 DEF Kept, Follows, Segment, SeqTypes
  <2>2. Size(Len(batch)).val = Len(batch)
    BY <1>3, <2>1, ItemTypes
  <2>3. n = Len(batch) /\ Len(wire) + Len(unsent) = 1 + n
    BY <1>1, <1>5, <2>2 DEF SizeSending
  <2>4. unsent # <<>>
    BY <1>5 DEF Protocol
  <2>5. Len(unsent) >= 1
    BY <2>4 DEF SeqTypes
  <2> QED BY <2>1, <2>3, <2>5
<1>6. ASSUME conn # "closed"
      PROVE  /\ ~cmd /\ n \in 0..MaxWrites /\ daemon \in {"sending", "poll"}
             /\ daemon = "poll" => Len(wire) = 1 + n /\ Unread = n
  BY <1>1, <1>5, <1>6 DEF Protocol, SeqTypes, Unread
<1>7. CASE n = ErrorSize
  <2>1. conn = "closed" /\ phase' = "ready"
    BY <1>2, <1>3, <1>6, <1>7
  <2> QED BY <1>1, <1>4, <2>1, HarvestEnds
<1>8. CASE n = 0
  <2>1. phase' \in {"ready", "apply"} /\ taken' = taken
    BY <1>2, <1>3, <1>8
  <2>2. ASSUME conn # "closed"
        PROVE  daemon = "poll" /\ ~cmd /\ wire' = <<>> /\ Len(taken') = Len(taken) + Unread
    <3>1. daemon = "poll" /\ ~cmd
      <4>1. daemon = "sending" => Len(wire) + Len(unsent) = 1 /\ Len(unsent) >= 1
        BY <1>5, <1>8, <2>2
      <4> QED BY <1>3, <1>6, <2>2, <4>1
    <3>2. Len(wire') = 0 /\ Unread = 0
      BY <1>3, <1>6, <1>8, <2>2, <3>1
    <3> QED BY <1>3, <2>1, <3>1, <3>2
  <2> QED BY <1>1, <1>4, <2>1, <2>2, HarvestEnds
<1>9. CASE n \in 1..MaxWrites
  <2>1. need' = n /\ got' = <<>> /\ phase' = "body" /\ UNCHANGED taken /\ n # ErrorSize
    BY <1>2, <1>3, <1>9
  <2>2. BodyInFlight'
    <3>1. /\ Len(wire) <= 1 + n /\ Len(taken) + n <= Len(log)
          /\ Segment(Tail(wire), Len(taken), log)
      BY <1>1, <2>1 DEF SizeInFlight, Follows
    <3>2. Len(got') = 0 /\ Len(taken') + Len(got') = Len(taken)
      BY <1>3, <2>1
    <3>3. Segment(<<>>, Len(taken), log)
      BY <1>3, <1>9, <3>1, SegmentEmpty DEF SeqTypes
    <3>4. 0 + Len(wire') <= n /\ 0 < n
      BY <1>3, <1>9, <3>1
    <3> QED BY <1>1, <2>1, <3>1, <3>2, <3>3, <3>4 DEF BodyInFlight, Follows
  <2>3. SizeInFlight' /\ SizeSending'
    BY <2>1 DEF SizeInFlight, SizeSending
  <2>4. Protocol'
    <3>1. conn # "closed" /\ daemon = "poll" => 0 + Len(wire') = n
      BY <1>3, <1>6, <1>9
    <3>2. conn # "closed" => daemon \in {"sending", "poll"} /\ ~cmd
      BY <1>6
    <3> QED BY <1>1, <2>1, <3>1, <3>2 DEF Protocol
  <2>5. BodySending'
    <3> SUFFICES ASSUME daemon = "sending" PROVE BodySending'
      BY <1>1 DEF BodySending
    <3>1. conn # "closed"
      BY DEF Protocol
    <3>2. /\ n = Len(batch) /\ Len(wire) + Len(unsent) = 1 + n
          /\ 0 + Len(wire') + Len(unsent) = n
      BY <1>3, <1>5, <3>1
    <3>3. ASSUME NEW i \in 1..Len(unsent) PROVE unsent[i] = batch[0 + Len(wire') + i]
      <4>1. Len(wire) + i # 1 /\ Len(wire) + i - 1 = 0 + Len(wire') + i
        BY <1>3
      <4> QED BY <1>1, <4>1 DEF SizeSending
    <3> QED BY <1>1, <2>1, <3>2, <3>3 DEF BodySending
  <2>6. Kept'
    <3> SUFFICES ASSUME conn # "closed" PROVE Kept'
      BY <1>1 DEF Kept
    <3>1. Unread' = Unread
      BY <1>1, <1>6, <2>1 DEF Unread
    <3> QED BY <1>1, <2>1, <3>1 DEF Kept, Follows
  <2> QED BY <1>4, <2>2, <2>3, <2>4, <2>5, <2>6
<1> QED BY <1>2, <1>7, <1>8, <1>9

LEMMA BodyInv == ASSUME Inv, RecvBody PROVE Inv'
<1> USE DEF Inv
<1> DEFINE reply == Append(got, Head(wire))
<1>1. /\ phase = "body" /\ wire # <<>> /\ wire' = Tail(wire)
      /\ UNCHANGED <<log, ring, lost, daemon, batch, unsent, conn, cmd, need>>
  BY DEF RecvBody, Recorder, primary, capturer
<1>2. /\ got' = reply
      /\ \/ /\ Len(reply) = need /\ taken' = taken \o reply
            /\ phase' \in {"ready", "apply"}
         \/ Len(reply) # need /\ phase' = "body" /\ UNCHANGED taken
  BY <1>1 DEF RecvBody, Harvested
<1>3. /\ wire' \in Seq(Item) /\ Len(wire') = Len(wire) - 1 /\ Len(wire) >= 1
      /\ Len(wire) \in Nat /\ Len(unsent) \in Nat /\ Len(batch) \in Nat /\ Len(taken) \in Nat
      /\ Len(got) \in Nat /\ Len(log) \in Nat /\ need \in Nat
  BY <1>1, RunPointAssumption DEF SeqTypes
<1>4. /\ Len(got) < need /\ Len(got) + Len(wire) <= need /\ Len(taken) + need <= Len(log)
      /\ Segment(got, Len(taken), log) /\ Segment(wire, Len(taken) + Len(got), log)
  BY <1>1 DEF BodyInFlight, Follows
<1>5. /\ Head(wire) = log[Len(taken) + Len(got) + 1]
      /\ Segment(Tail(wire), Len(taken) + Len(got) + 1, log)
  <2>1. log \in Seq(Change) /\ wire \in Seq(Item) /\ Len(taken) + Len(got) \in Nat
    BY <1>3 DEF SeqTypes
  <2> QED BY <1>1, <1>4, <2>1, SegmentTail
<1>6. Head(wire) \in Change
  <2>1. Len(taken) + Len(got) + 1 \in 1..Len(log)
    BY <1>3, <1>4
  <2> QED BY <1>5, <2>1 DEF SeqTypes
<1>7. reply \in Seq(Change) /\ Len(reply) = Len(got) + 1
  BY <1>6 DEF SeqTypes
<1>8. Segment(reply, Len(taken), log)
  <2>1. got \in Seq(Change) /\ log \in Seq(Change) /\ Len(taken) + Len(got) < Len(log)
    BY <1>3, <1>4 DEF SeqTypes
  <2> QED BY <1>3, <1>4, <1>5, <1>6, <2>1, SegmentNext
<1>9. SeqTypes'
  <2>1. taken' \in Seq(Change) /\ got' \in Seq(Change)
    <3>1. got' = reply /\ (UNCHANGED taken \/ taken' = taken \o reply)
      BY <1>2
    <3>2. taken \o reply \in Seq(Change)
      <4> HIDE DEF reply
      <4> QED BY <1>7 DEF SeqTypes
    <3> HIDE DEF reply
    <3> QED BY <1>7, <3>1, <3>2 DEF SeqTypes
  <2>2. phase' \in {"ready", "size", "body", "apply"}
    BY <1>2
  <2> QED BY <1>1, <1>3, <2>1, <2>2 DEF SeqTypes
<1> HIDE DEF reply
<1>10. CASE Len(reply) = need
  <2>1. taken' = taken \o reply /\ phase' \in {"ready", "apply"}
    BY <1>2, <1>10
  <2>2. TakenFirst'
    <3>1. Segment(taken \o reply, 0, log)
      <4>1. Segment(taken, 0, log) /\ Segment(reply, 0 + Len(taken), log) /\ 0 \in Nat
        BY <1>3, <1>8 DEF TakenFirst, Follows
      <4>2. log \in Seq(Change) /\ taken \in Seq(Change)
        BY DEF SeqTypes
      <4> QED BY <1>7, <4>1, <4>2, SegmentConcat
    <3> QED BY <1>1, <2>1, <3>1 DEF TakenFirst, Follows
  <2>3. ASSUME conn # "closed"
        PROVE  daemon = "poll" /\ ~cmd /\ wire' = <<>> /\ Len(taken') = Len(taken) + Unread
    <3>1. Len(wire) = 1 /\ Len(got) + Len(wire) = need
      BY <1>3, <1>4, <1>7, <1>10
    <3>2. ~cmd /\ daemon # "drained" /\ daemon # "exited"
      BY <1>1, <2>3 DEF Protocol
    <3>3. daemon # "sending"
      <4> SUFFICES ASSUME daemon = "sending" PROVE FALSE
        OBVIOUS
      <4>1. Len(got) + Len(wire) + Len(unsent) = need /\ unsent # <<>>
        BY <1>1, <2>3 DEF BodySending, Protocol
      <4>2. Len(unsent) >= 1
        BY <4>1 DEF SeqTypes
      <4> QED BY <1>3, <3>1, <4>1, <4>2
    <3>4. daemon = "poll"
      BY <3>2, <3>3 DEF SeqTypes
    <3>5. Unread = need
      BY <1>1, <3>2, <3>4 DEF Unread
    <3>6. Len(taken') = Len(taken) + need
      <4>1. Len(taken \o reply) = Len(taken) + Len(reply)
        <5>1. taken \in Seq(Change) /\ reply \in Seq(Change)
          BY <1>7 DEF SeqTypes
        <5> QED BY <5>1
      <4> QED BY <1>10, <2>1, <4>1
    <3>7. wire' = <<>>
      BY <1>3, <3>1
    <3> QED BY <3>2, <3>4, <3>5, <3>6, <3>7
  <2> QED BY <1>1, <1>9, <2>1, <2>2, <2>3, HarvestEnds
<1>11. CASE Len(reply) # need
  <2>1. phase' = "body" /\ UNCHANGED taken /\ got' = reply
    BY <1>2, <1>11
  <2>2. Len(got') = Len(got) + 1 /\ Len(got') + Len(wire') = Len(got) + Len(wire)
    BY <1>3, <1>7, <2>1
  <2>3. TakenFirst' /\ SizeInFlight' /\ SizeSending'
    BY <1>1, <2>1 DEF TakenFirst, Follows, SizeInFlight, SizeSending
  <2>4. BodyInFlight'
    <3>1. Len(got') < need /\ Len(taken) + Len(got') = Len(taken) + Len(got) + 1
      <4>1. Len(got') = Len(got) + 1 /\ Len(got) + 1 # need
        BY <1>7, <1>11, <2>1
      <4> QED BY <1>3, <1>4, <4>1
    <3> QED BY <1>1, <1>4, <1>5, <1>8, <2>1, <2>2, <3>1 DEF BodyInFlight, Follows
  <2>5. Protocol' /\ BodySending'
    BY <1>1, <2>1, <2>2 DEF Protocol, BodySending
  <2>6. Kept'
    <3>1. conn # "closed" => Unread' = Unread
      BY <1>1, <2>1 DEF Unread
    <3> QED BY <1>1, <2>1, <3>1 DEF Kept, Follows
  <2> QED BY <1>9, <2>3, <2>4, <2>5, <2>6
<1> QED BY <1>10, <1>11

LEMMA NextInv == ASSUME Inv, [Next]_vars PROVE Inv'
<1>1. CASE Write
  BY <1>1, WriteInv
<1>2. CASE Daemon
  BY <1>2, ConsumeInv, ServiceInv, CaptureInv, SendInv DEF Daemon
<1>3. CASE SendTimesOut \/ Exit
  BY <1>3, CloseInv
<1>4. CASE Harvest
  BY <1>4, SizeInv, BodyInv, EofInv, ApplyInv DEF Harvest
<1>5. CASE Run
  <2>1. CASE Ask
    BY <2>1, AskInv
  <2>2. CASE populated \/ seed \/ changed \/ verify
    BY <2>2, OtherSteps DEF populated, seed, changed, verify, Quiet, Recorder, primary, capturer
  <2> QED BY <1>5, <2>1, <2>2 DEF Run
<1>6. CASE UNCHANGED vars
  BY <1>6, OtherSteps DEF vars, primary, capturer, recorder
<1> QED BY <1>1, <1>2, <1>3, <1>4, <1>5, <1>6 DEF Next

(* What a harvest returns at any time is a prefix of what was written: the *)
(* records of complete replies, in order and each of them once.            *)
THEOREM Invariance == Spec => []Inv
<1>1. Init => Inv
  BY InitInv
<1>2. Inv /\ [Next]_vars => Inv'
  BY NextInv
<1> QED BY <1>1, <1>2, PTL DEF Spec

-----------------------------------------------------------------------------
(* The refinement.                                                         *)

LEMMA TakeStep ==
  ASSUME Inv, Inv', UNCHANGED log, Len(taken) <= Len(taken')
  PROVE  Promise!Take
<1>1. taken' \in Seq(Change) /\ log \in Seq(Change) /\ Segment(taken', 0, log)
  BY DEF Inv, SeqTypes, TakenFirst, Follows
<1>2. taken' = SubSeq(log, 1, Len(taken'))
  BY <1>1, SegmentFirst
<1>3. Len(taken') \in Len(taken)..Len(log)
  BY <1>1 DEF Segment, Inv, SeqTypes
<1> QED BY <1>2, <1>3 DEF Promise!Take

LEMMA RefinesStep == ASSUME Inv, Inv', [Next]_vars PROVE [Promise!Next]_(Promise!vars)
<1>1. CASE Write
  <2>1. PICK b \in Blocks :
          /\ Len(log) < MaxWrites
          /\ log' = Append(log, [block |-> b, val |-> Len(log) + 1])
    BY <1>1 DEF Write
  <2>2. [block |-> b, val |-> Len(log) + 1] \in Change
    BY <2>1, RunPointAssumption DEF Change, Inv, SeqTypes
  <2>3. UNCHANGED taken
    BY <1>1 DEF Write, recorder
  <2> QED BY <2>1, <2>2, <2>3 DEF Promise!Next, Promise!Change
<1>2. CASE RecvSize \/ RecvBody
  <2>1. UNCHANGED log /\ (UNCHANGED taken \/ \E s : taken' = taken \o s)
    BY <1>2 DEF RecvSize, RecvBody, Recorder, primary, Fail, Harvested
  <2>2. Len(taken) <= Len(taken')
    BY <1>2 DEF RecvSize, RecvBody, Inv, SeqTypes, Fail, Harvested
  <2> QED BY <2>1, <2>2, TakeStep DEF Promise!Next
<1>3. CASE Daemon \/ SendTimesOut \/ Exit
  BY <1>3 DEF Daemon, consume_ring, Consume, service_capture_socket, capture_and_send,
              send_batch, SendTimesOut, Exit, primary, recorder, Promise!vars
<1>4. CASE RecvEof \/ push_and_apply \/ Run
  BY <1>4 DEF RecvEof, push_and_apply, Run, Ask, populated, seed, changed, verify, Quiet,
              Fail, Recorder, primary, Promise!vars
<1>5. CASE UNCHANGED vars
  BY <1>5 DEF vars, primary, recorder, Promise!vars
<1> QED BY <1>1, <1>2, <1>3, <1>4, <1>5 DEF Next, Harvest

(* RunPoint implements Handover: whatever is lost, times out, is kept or   *)
(* dies, the recorder is handed the writes in order, each once, none       *)
(* skipped, for any number of blocks and any sizes of ring and socket.     *)
THEOREM HandsOverInOrder == Spec => InOrderOnce
<1>1. Init => Promise!Init
  BY DEF Init, Promise!Init
<1>2. Inv /\ Inv' /\ [Next]_vars => [Promise!Next]_(Promise!vars)
  BY RefinesStep
<1> QED BY <1>1, <1>2, Invariance, PTL DEF Spec, InOrderOnce, Promise!Spec

-----------------------------------------------------------------------------
(* What a run leaves on the peer.                                          *)

(* v is the number of the last of the first n writes in l that is of b.    *)
Latest(l, v, b, n) ==
  /\ v \in 0..n /\ (v # 0 => l[v].block = b)
  /\ \A k \in 1..n : k > v => l[k].block # b

-----------------------------------------------------------------------------
(* The inductive invariant.                                                *)

(* Which steps of the run a harvest belongs to.                            *)
HarvestSteps ==
  /\ phase \in {"size", "body"} => step \in Harvests
  /\ phase = "apply" => step = "sync"

(* The directory holds the last write of every block.                      *)
DiskLatest ==
  /\ \A k \in 1..Len(log) : log[k].val = k
  /\ \A b \in Blocks : Latest(log, disk[b], b, Len(log))

(* What rsync has copied is still so, but for the window.                  *)
Seeded ==
  /\ step \in {"populate", "filled"} => todo = Blocks
  /\ step = "drain" => todo = {}
  /\ step \in {"seed", "drain"} => \A b \in Blocks \ (todo \cup window) : backup[b] = disk[b]

(* The writes that the reply of this harvest has to bring: in the drain,   *)
(* those outside the window; in the sync, all of them.                     *)
Matters ==
  {k \in 1..Len(log) : step = "sync" \/ (step = "drain" /\ log[k].block \notin window)}
Covered(n) == \A k \in Matters : k <= n

(* A reply covers the writes that matter, from the moment the ring was     *)
(* drained for it.                                                         *)
ReplyCovers ==
  phase \in {"size", "body"} =>
    /\ daemon = "drained" /\ ~lost => Covered(Len(taken) + Len(batch))
    /\ daemon = "sending" => Covered(Len(taken) + Len(batch))
    /\ phase = "size" /\ wire # <<>> /\ Head(wire).val # ErrorSize =>
         Covered(Len(taken) + Head(wire).val)
    /\ phase = "body" => Covered(Len(taken) + need)

(* Outside the window the peer is what it was after the first n writes.    *)
PeerAt(n) == \A b \in Blocks \ window : Latest(log, backup[b], b, n)

(* After the drain the peer is where the harvests are; the sync applies    *)
(* what it was handed, which is all that was left.                         *)
BroughtOver ==
  /\ step = "change" \/ (step = "sync" /\ phase # "apply") => PeerAt(Len(taken))
  /\ phase = "apply" =>
       /\ Len(taken) = Len(log) /\ Len(got) <= Len(taken)
       /\ Follows(got, Len(taken) - Len(got)) /\ PeerAt(Len(taken) - Len(got))
  /\ step \in {"verify", "verified"} => \A b \in Blocks \ window : backup[b] = disk[b]

Outcome == /\ Inv /\ TypeOK /\ HarvestSteps /\ DiskLatest /\ Seeded
           /\ ReplyCovers /\ BroughtOver

(* What TypeOK says beyond the types of sequences and of places.           *)
RestTypes ==
  /\ disk \in [Blocks -> 0..MaxWrites] /\ backup \in [Blocks -> 0..MaxWrites]
  /\ Len(ring) <= RingSize /\ lost \in BOOLEAN /\ cmd \in BOOLEAN
  /\ (unsent # <<>>) = (daemon = "sending")
  /\ step \in Steps /\ todo \subseteq Blocks /\ window \subseteq Blocks

LEMMA TypeParts == ASSUME SeqTypes PROVE TypeOK <=> RestTypes
BY DEF SeqTypes, TypeOK, RestTypes

LEMMA TailEmpty ==
  ASSUME NEW S, NEW s \in Seq(S), s # <<>> PROVE Tail(s) = <<>> <=> Len(s) = 1
<1> DEFINE t == Tail(s)
<1>1. t \in Seq(S) /\ Len(t) = Len(s) - 1 /\ Len(s) \in Nat
  OBVIOUS
<1> HIDE DEF t
<1>2. t = <<>> <=> Len(t) = 0
  BY <1>1
<1> QED BY <1>1, <1>2 DEF t

-----------------------------------------------------------------------------
(* The types.                                                              *)

LEMMA WriteTypes == ASSUME Inv, RestTypes, Write PROVE RestTypes'
<1>1. PICK b \in Blocks :
        /\ Len(log) < MaxWrites /\ disk' = [disk EXCEPT ![b] = Len(log) + 1]
        /\ window' = window \/ window' = window \cup {b}
        /\ \/ UNCHANGED <<ring, lost>>
           \/ Len(ring) < RingSize /\ ring' = Append(ring, [block |-> b, val |-> Len(log) + 1])
              /\ UNCHANGED lost
           \/ lost' = TRUE /\ UNCHANGED ring
  BY DEF Write
<1>2. UNCHANGED <<daemon, unsent, cmd, step, todo, backup>>
  BY DEF Write, capturer, recorder
<1>3. Len(log) + 1 \in 0..MaxWrites /\ ring \in Seq(Change) /\ RingSize \in Nat
  BY <1>1, RunPointAssumption DEF Inv, SeqTypes
<1>4. Len(ring') <= RingSize
  <2> DEFINE w == [block |-> b, val |-> Len(log) + 1]
  <2>1. Len(Append(ring, w)) = Len(ring) + 1
    BY <1>3
  <2> QED BY <1>1, <1>3, <2>1 DEF RestTypes
<1>5. disk' \in [Blocks -> 0..MaxWrites] /\ window' \subseteq Blocks
  BY <1>1, <1>3 DEF RestTypes
<1>6. lost' \in BOOLEAN
  BY <1>1 DEF RestTypes
<1> QED BY <1>2, <1>4, <1>5, <1>6 DEF RestTypes

LEMMA CapturerTypes ==
  ASSUME Inv, RestTypes, Daemon \/ SendTimesOut \/ Exit PROVE RestTypes'
<1>1. UNCHANGED <<disk, backup, lost, step, todo, window>>
  BY DEF Daemon, consume_ring, service_capture_socket, capture_and_send, send_batch, Consume,
         SendTimesOut, Exit, primary, recorder
<1>2. Len(ring') <= RingSize /\ cmd' \in BOOLEAN
  <2>1. Len(<<>>) <= RingSize
    BY RunPointAssumption
  <2>2. (UNCHANGED ring \/ ring' = <<>>) /\ (UNCHANGED cmd \/ cmd' = FALSE)
    BY DEF Daemon, consume_ring, service_capture_socket, capture_and_send, send_batch, Consume,
           SendTimesOut, Exit, primary
  <2> QED BY <2>1, <2>2 DEF RestTypes
<1>3. (unsent' # <<>>) = (daemon' = "sending")
  <2>1. CASE consume_ring \/ service_capture_socket
    BY <2>1 DEF RestTypes, consume_ring, service_capture_socket
  <2>2. CASE capture_and_send
    <3>1. CASE lost
      BY <2>2, <3>1 DEF RestTypes, capture_and_send
    <3>2. CASE ~lost
      <4>1. <<Size(Len(batch))>> \o batch # <<>>
        BY DEF Inv, SeqTypes
      <4> QED BY <2>2, <3>2, <4>1 DEF capture_and_send
    <3> QED BY <3>1, <3>2
  <2>3. CASE send_batch
    <3>1. unsent \in Seq(Item) /\ unsent # <<>> /\ unsent' = Tail(unsent) /\ daemon = "sending"
      BY <2>3 DEF Inv, SeqTypes, send_batch
    <3>2. Tail(unsent) = <<>> <=> Len(unsent) = 1
      BY <3>1, TailEmpty
    <3>3. daemon' = "sending" <=> Len(unsent) # 1
      BY <2>3, <3>1 DEF send_batch
    <3> QED BY <3>1, <3>2, <3>3
  <2>4. CASE SendTimesOut \/ Exit
    BY <2>4 DEF SendTimesOut, Exit
  <2> QED BY <2>1, <2>2, <2>3, <2>4 DEF Daemon
<1> QED BY <1>1, <1>2, <1>3 DEF RestTypes

LEMMA HarvestTypes ==
  ASSUME Inv, RestTypes, HarvestSteps, Harvest \/ Run PROVE RestTypes' /\ HarvestSteps'
<1>1. UNCHANGED <<disk, ring, lost, unsent, daemon, window>>
  BY DEF Harvest, Run, RecvSize, RecvBody, RecvEof, push_and_apply, Ask, populated, seed,
         changed, verify, Recorder, Quiet, primary, capturer
<1>2. cmd' \in BOOLEAN
  BY DEF Harvest, Run, RecvSize, RecvBody, RecvEof, push_and_apply, Ask, populated, seed,
         changed, verify, Quiet, RestTypes
<1>3. /\ step \in Steps /\ phase \in {"ready", "size", "body", "apply"}
      /\ phase \in {"size", "body"} => step \in Harvests
      /\ phase = "apply" => step = "sync"
  BY DEF Inv, SeqTypes, RestTypes, HarvestSteps
<1>4. ASSUME step \in Harvests PROVE After[step] \in Steps
  BY <1>4 DEF After, Harvests, Steps
<1>5. step' \in Steps /\ HarvestSteps'
  <2>1. CASE RecvSize \/ RecvBody
    <3>1. step \in Harvests
      BY <1>3, <2>1 DEF RecvSize, RecvBody
    <3>2. After["sync"] = "sync"
      BY DEF After, Harvests
    <3> QED BY <1>3, <1>4, <2>1, <3>1, <3>2
            DEF RecvSize, RecvBody, Harvested, Fail, Steps, Final, HarvestSteps
  <2>2. CASE RecvEof \/ push_and_apply
    BY <1>3, <2>2 DEF RecvEof, push_and_apply, Fail, Steps, Final, HarvestSteps
  <2>3. CASE Ask
    BY <1>3, <2>3 DEF Ask, Fail, Steps, Final, HarvestSteps
  <2>4. CASE seed
    BY <1>3, <2>4 DEF seed, Quiet, Steps, Harvests, Final, HarvestSteps
  <2>5. CASE populated \/ changed \/ verify
    BY <1>3, <2>5 DEF populated, changed, verify, Quiet, Steps, Harvests, Final, HarvestSteps
  <2> QED BY <2>1, <2>2, <2>3, <2>4, <2>5 DEF Harvest, Run
<1>6. todo' \subseteq Blocks
  BY DEF Harvest, Run, RecvSize, RecvBody, RecvEof, push_and_apply, Ask, populated, seed,
         changed, verify, Quiet, Harvested, Fail, RestTypes
<1>7. backup' \in [Blocks -> 0..MaxWrites]
  <2>1. CASE push_and_apply
    <3>1. ASSUME got # <<>> PROVE Head(got).block \in Blocks /\ Head(got).val \in 0..MaxWrites
      <4>1. Head(got) \in Change
        BY <3>1 DEF Inv, SeqTypes
      <4> QED BY <4>1, RunPointAssumption DEF Change
    <3> QED BY <2>1, <3>1 DEF push_and_apply, Apply, RestTypes
  <2>2. CASE seed
    BY <2>2 DEF seed, RestTypes
  <2>3. CASE ~push_and_apply /\ ~seed
    BY <2>3 DEF Harvest, Run, RecvSize, RecvBody, RecvEof, Ask, populated, changed, verify,
                Quiet, RestTypes
  <2> QED BY <2>1, <2>2, <2>3
<1> QED BY <1>1, <1>2, <1>5, <1>6, <1>7 DEF RestTypes

LEMMA NextTypes ==
  ASSUME Inv, Inv', TypeOK, HarvestSteps, [Next]_vars PROVE TypeOK' /\ HarvestSteps'
<1>1. RestTypes /\ (RestTypes' => TypeOK')
  BY TypeParts DEF Inv, TypeOK, RestTypes, SeqTypes
<1>2. CASE Write \/ Daemon \/ SendTimesOut \/ Exit
  <2>1. UNCHANGED <<step, phase>>
    BY <1>2 DEF Write, Daemon, consume_ring, service_capture_socket, capture_and_send, send_batch,
                SendTimesOut, Exit, recorder
  <2> QED BY <1>1, <1>2, <2>1, WriteTypes, CapturerTypes DEF HarvestSteps
<1>3. CASE Harvest \/ Run
  BY <1>1, <1>3, HarvestTypes
<1>4. CASE UNCHANGED vars
  BY <1>1, <1>4 DEF vars, primary, capturer, recorder, RestTypes, HarvestSteps
<1> QED BY <1>2, <1>3, <1>4 DEF Next

-----------------------------------------------------------------------------
(* Positions in the log.                                                   *)

LEMMA LatestUnique ==
  ASSUME NEW l, NEW b, NEW n \in Nat, NEW v \in Nat, NEW w \in Nat,
         Latest(l, v, b, n), Latest(l, w, b, n)
  PROVE  v = w
<1>1. v \in 0..n /\ w \in 0..n
  BY DEF Latest
<1>2. ~(v < w) /\ ~(w < v)
  BY <1>1 DEF Latest
<1> QED BY <1>1, <1>2

LEMMA LatestGrow ==
  ASSUME NEW S, NEW l \in Seq(S), NEW w \in S, NEW b, NEW n \in 0..Len(l), NEW v, Latest(l, v, b, n)
  PROVE  Latest(Append(l, w), v, b, n)
<1>1. Len(l) \in Nat /\ \A k \in 1..Len(l) : Append(l, w)[k] = l[k]
  OBVIOUS
<1> QED BY <1>1 DEF Latest

(* One more write is the latest of its block, and of no other.             *)
LEMMA LatestStep ==
  ASSUME NEW l, NEW b, NEW n \in Nat, NEW v \in Nat, Latest(l, v, b, n)
  PROVE  Latest(l, IF l[n + 1].block = b THEN n + 1 ELSE v, b, n + 1)
<1>1. CASE l[n + 1].block = b
  BY <1>1 DEF Latest
<1>2. CASE l[n + 1].block # b
  <2>1. v \in 0..(n + 1) /\ \A k \in 1..(n + 1) : k \in 1..n \/ k = n + 1
    BY DEF Latest
  <2> QED BY <1>2, <2>1 DEF Latest
<1> QED BY <1>1, <1>2

LEMMA LatestPrefix ==
  ASSUME NEW l, NEW b, NEW m \in Nat, NEW n \in 0..m, NEW v \in Nat, Latest(l, v, b, m),
         \A k \in (n + 1)..m : l[k].block # b
  PROVE  Latest(l, v, b, n)
<1>1. v \in 0..m /\ (v # 0 => l[v].block = b)
  BY DEF Latest
<1>2. ~(v > n)
  BY <1>1
<1>3. \A k \in 1..n : k \in 1..m
  OBVIOUS
<1> QED BY <1>1, <1>2, <1>3 DEF Latest

-----------------------------------------------------------------------------
(* The outcome.                                                            *)

LEMMA InitOutcome == Init => Outcome
<1> SUFFICES ASSUME Init PROVE Outcome
  OBVIOUS
<1>1. Inv
  BY InitInv
<1>2. TypeOK
  <2>1. disk \in [Blocks -> 0..MaxWrites] /\ backup \in [Blocks -> 0..MaxWrites]
    BY RunPointAssumption DEF Init
  <2>2. Len(ring) <= RingSize /\ (unsent # <<>> <=> daemon = "sending")
    BY RunPointAssumption DEF Init
  <2>3. RestTypes
    BY <2>1, <2>2 DEF Init, RestTypes, Steps, Harvests
  <2> QED BY <1>1, <2>3, TypeParts DEF Inv
<1>3. DiskLatest
  BY DEF Init, DiskLatest, Latest
<1>4. HarvestSteps /\ Seeded /\ ReplyCovers /\ BroughtOver
  BY DEF Init, HarvestSteps, Seeded, ReplyCovers, BroughtOver
<1> QED BY <1>1, <1>2, <1>3, <1>4 DEF Outcome

LEMMA WriteOutcome ==
  ASSUME Outcome, Write PROVE DiskLatest' /\ Seeded' /\ ReplyCovers' /\ BroughtOver'
<1> DEFINE w(b) == [block |-> b, val |-> Len(log) + 1]
<1>1. PICK b \in Blocks :
        /\ Writing /\ Len(log) < MaxWrites /\ disk' = [disk EXCEPT ![b] = Len(log) + 1]
        /\ log' = Append(log, w(b))
        /\ window' = IF step \in {"seed", "drain"} THEN window \cup {b} ELSE window
  BY DEF Write
<1>2. /\ UNCHANGED <<daemon, batch, wire, step, phase, need, got, todo, taken, backup>>
      /\ ~lost' => ~lost
  BY DEF Write, capturer, recorder, Outcome, TypeOK
<1>3. /\ log \in Seq(Change) /\ Len(log) \in Nat /\ w(b) \in Change /\ taken \in Seq(Change)
      /\ batch \in Seq(Change) /\ got \in Seq(Change) /\ Len(taken) \in 0..Len(log)
  <2>1. Len(log) \in Nat /\ Len(log) + 1 \in 1..MaxWrites
    BY <1>1, RunPointAssumption DEF Outcome, Inv, SeqTypes
  <2>2. Len(taken) \in 0..Len(log)
    BY DEF Outcome, Inv, SeqTypes, TakenFirst, Follows, Segment
  <2> QED BY <1>1, <2>1, <2>2 DEF Outcome, Inv, SeqTypes, Change
<1>4. /\ Len(log') = Len(log) + 1 /\ log'[Len(log) + 1].block = b /\ log'[Len(log) + 1].val = Len(log) + 1
      /\ \A k \in 1..Len(log) : log'[k] = log[k]
  <2> DEFINE c == w(b)
  <2>1. c.block = b /\ c.val = Len(log) + 1 /\ c \in Change /\ log' = Append(log, c)
    BY <1>1, <1>3
  <2> HIDE DEF c
  <2> QED BY <1>3, <2>1
<1> HIDE DEF w
<1>5. DiskLatest'
  <2>1. \A k \in 1..Len(log') : log'[k].val = k
    <3>1. \A k \in 1..Len(log') : k \in 1..Len(log) \/ k = Len(log) + 1
      BY <1>3, <1>4
    <3> QED BY <1>4, <3>1 DEF Outcome, DiskLatest
  <2>2. ASSUME NEW c \in Blocks PROVE Latest(log, disk[c], c, Len(log))' 
    <3>1. /\ disk \in [Blocks -> 0..MaxWrites] /\ disk[c] \in Nat
      BY DEF Outcome, TypeOK
    <3>2. Latest(log, disk[c], c, Len(log)) /\ disk[c] \in 0..Len(log)
      BY DEF Outcome, DiskLatest, Latest
    <3>3. disk'[c] = IF log'[Len(log) + 1].block = c THEN Len(log) + 1 ELSE disk[c]
      BY <1>1, <1>4, <3>1
    <3>4. Latest(log', disk[c], c, Len(log))
      BY <1>1, <1>3, <3>2, LatestGrow
    <3>5. Latest(log', disk'[c], c, Len(log) + 1)
      BY <1>3, <3>1, <3>3, <3>4, LatestStep
    <3> QED BY <1>4, <3>5
  <2> QED BY <2>1, <2>2 DEF DiskLatest
<1>6. Seeded'
  <2>1. disk \in [Blocks -> 0..MaxWrites]
    BY DEF Outcome, TypeOK
  <2> QED BY <1>1, <1>2, <2>1 DEF Outcome, Seeded
<1>7. Matters' \subseteq Matters
  <2>1. step # "sync"
    BY <1>1 DEF Writing
  <2>2. ASSUME NEW k \in Matters' PROVE k \in Matters
    <3>1. step = "drain" /\ k \in 1..(Len(log) + 1) /\ log'[k].block \notin window \cup {b}
      BY <1>1, <1>2, <1>4, <2>1 DEF Matters
    <3>2. k \in 1..Len(log) /\ log'[k] = log[k]
      BY <1>3, <1>4, <3>1
    <3> QED BY <3>1, <3>2 DEF Matters
  <2> QED BY <2>2
<1>8. ReplyCovers'
  BY <1>2, <1>7 DEF Outcome, ReplyCovers, Covered
<1>9. BroughtOver'
  <2>1. step \notin {"sync", "verify", "verified"}
    BY <1>1 DEF Writing
  <2>2. phase # "apply"
    BY <2>1 DEF Outcome, HarvestSteps
  <2>3. ASSUME step = "change" PROVE PeerAt(Len(taken))'
    <3>1. window' = window
      BY <1>1, <2>3
    <3>2. ASSUME NEW c \in Blocks \ window PROVE Latest(log, backup[c], c, Len(taken))'
      <4>1. Latest(log, backup[c], c, Len(taken))
        BY <2>2, <2>3 DEF Outcome, BroughtOver, PeerAt
      <4>2. Latest(log', backup[c], c, Len(taken))
        BY <1>1, <1>3, <4>1, LatestGrow
      <4> QED BY <1>2, <4>2
    <3> QED BY <3>1, <3>2 DEF PeerAt
  <2> QED BY <1>2, <2>1, <2>2, <2>3 DEF BroughtOver
<1> QED BY <1>5, <1>6, <1>8, <1>9

(* The capturer changes nothing but what the next reply covers.            *)
LEMMA CapturerOutcome ==
  ASSUME Outcome, Inv', Daemon \/ SendTimesOut \/ Exit
  PROVE  DiskLatest' /\ Seeded' /\ ReplyCovers' /\ BroughtOver'
<1>1. UNCHANGED <<disk, log, window, lost, step, phase, need, got, todo, taken, backup>>
  BY DEF Daemon, consume_ring, service_capture_socket, capture_and_send, send_batch, Consume,
         SendTimesOut, Exit, primary, recorder
<1>2. DiskLatest' /\ Seeded' /\ BroughtOver'
  BY <1>1 DEF Outcome, DiskLatest, Seeded, BroughtOver, PeerAt, Follows
<1>3. Matters' = Matters /\ Matters \subseteq 1..Len(log)
  BY <1>1 DEF Matters
<1> SUFFICES ReplyCovers'
  BY <1>2
<1>4. CASE consume_ring \/ SendTimesOut \/ Exit
  <2>1. daemon' \notin {"drained", "sending"} /\ UNCHANGED wire
    BY <1>4 DEF consume_ring, SendTimesOut, Exit
  <2> QED BY <1>1, <1>3, <2>1 DEF Outcome, ReplyCovers, Covered
<1>5. CASE service_capture_socket
  <2>1. UNCHANGED wire /\ daemon = "poll"
    BY <1>5 DEF service_capture_socket
  <2>2. CASE ~cmd
    <3>1. UNCHANGED <<daemon, batch>>
      BY <1>5, <2>2 DEF service_capture_socket
    <3> QED BY <1>1, <1>3, <2>1, <3>1 DEF Outcome, ReplyCovers, Covered
  <2>3. CASE cmd
    <3>1. daemon' = "drained" /\ conn' = "accepted" /\ ring' = <<>>
      BY <1>5, <2>3 DEF service_capture_socket, Consume
    <3>2. phase' = "size" => (~lost' => Len(taken') + Len(batch') = Len(log'))
      <4>1. Unread' = 0
        BY <3>1 DEF Unread
      <4>2. ~lost' => Len(taken') + 0 + Len(batch') + 0 = Len(log')
        BY <3>1, <4>1 DEF Inv, Kept
      <4> QED BY <4>2 DEF Inv, SeqTypes
    <3>3. phase' = "size" /\ wire' = <<>>
      BY <3>1 DEF Inv, Protocol
    <3>4. Len(log') \in Nat
      BY DEF Inv, SeqTypes
    <3> QED BY <1>1, <1>3, <3>1, <3>2, <3>3, <3>4 DEF ReplyCovers, Covered
  <2> QED BY <2>2, <2>3
<1>6. CASE capture_and_send
  <2>1. daemon = "drained" /\ wire = <<>> /\ phase = "size" /\ UNCHANGED batch
    BY <1>6 DEF capture_and_send, Outcome, Inv, Protocol
  <2>2. CASE lost
    <3>1. daemon' = "exited" /\ wire' = <<Size(ErrorSize)>>
      BY <1>6, <2>1, <2>2 DEF capture_and_send
    <3>2. Head(wire').val = ErrorSize
      BY <3>1 DEF Size
    <3> QED BY <1>1, <2>1, <3>1, <3>2 DEF ReplyCovers
  <2>3. CASE ~lost
    <3>1. daemon' = "sending" /\ wire' = <<>>
      BY <1>6, <2>1, <2>3 DEF capture_and_send
    <3>2. Covered(Len(taken) + Len(batch))
      BY <2>1, <2>3 DEF Outcome, ReplyCovers
    <3> QED BY <1>1, <1>3, <2>1, <3>1, <3>2 DEF ReplyCovers, Covered
  <2> QED BY <2>2, <2>3
<1>7. CASE send_batch
  <2>1. /\ daemon = "sending" /\ wire' = Append(wire, Head(unsent)) /\ unsent # <<>>
        /\ daemon' = "poll" \/ (daemon' = "sending" /\ UNCHANGED batch)
    BY <1>7 DEF send_batch
  <2>2. phase \in {"size", "body"} => Covered(Len(taken) + Len(batch))
    BY <2>1 DEF Outcome, ReplyCovers
  <2>3. ASSUME phase = "size", Head(wire').val # ErrorSize
        PROVE  Covered(Len(taken) + Head(wire').val)
    <3>1. wire \in Seq(Item) /\ unsent \in Seq(Item) /\ Len(unsent) \in Nat \ {0}
      BY <2>1 DEF Outcome, Inv, SeqTypes
    <3>2. CASE wire = <<>>
      <4>1. Head(wire') = Head(unsent) /\ Head(unsent) = unsent[1]
        BY <2>1, <3>1, <3>2
      <4>2. unsent[1] = Size(Len(batch))
        BY <2>1, <2>3, <3>1, <3>2 DEF Outcome, Inv, SizeSending
      <4> QED BY <2>2, <2>3, <4>1, <4>2 DEF Size
    <3>3. CASE wire # <<>>
      <4>1. Head(wire') = Head(wire)
        <5>1. Head(unsent) \in Item
          BY <3>1
        <5> QED BY <2>1, <3>1, <3>3, <5>1
      <4> QED BY <2>3, <3>3, <4>1 DEF Outcome, ReplyCovers
    <3> QED BY <3>2, <3>3
  <2>4. phase = "body" => Covered(Len(taken) + need)
    BY DEF Outcome, ReplyCovers
  <2> QED BY <1>1, <1>3, <2>1, <2>2, <2>3, <2>4 DEF ReplyCovers, Covered
<1> QED BY <1>4, <1>5, <1>6, <1>7 DEF Daemon

(* A complete reply of the first n writes: what a drain leaves behind is in*)
(* the window, and a sync leaves nothing behind.                           *)
LEMMA HarvestedOutcome ==
  ASSUME Outcome, Inv', phase \in {"size", "body"}, step \in Harvests, step' = After[step],
         phase' = IF step = "sync" THEN "apply" ELSE "ready",
         UNCHANGED <<disk, log, window, todo, backup>>,
         got' \in Seq(Change), Len(taken') = Len(taken) + Len(got'), Follows(got', Len(taken)),
         Covered(Len(taken'))
  PROVE  Seeded' /\ ReplyCovers' /\ BroughtOver'
<1>1. /\ Len(taken) \in Nat /\ Len(taken') \in Nat /\ Len(got') \in Nat /\ Len(log) \in Nat
      /\ Len(taken') <= Len(log)
  BY DEF Outcome, Inv, SeqTypes, TakenFirst, Follows, Segment
<1>2. ReplyCovers'
  BY DEF ReplyCovers
<1>3. /\ step = "populate" => step' = "populate"
      /\ step = "filled" => step' = "seed"
      /\ step = "drain" => step' = "change"
      /\ step = "sync" => step' = "sync"
      /\ step \in {"populate", "filled", "drain", "sync"}
  BY DEF After, Harvests
<1>4. Seeded'
  BY <1>3 DEF Outcome, Seeded
<1> SUFFICES BroughtOver'
  BY <1>2, <1>4
<1>5. CASE step = "drain"
  <2>1. ASSUME NEW b \in Blocks \ window PROVE Latest(log, backup[b], b, Len(taken'))
    <3>1. backup[b] = disk[b] /\ disk[b] \in Nat
      BY <1>5 DEF Outcome, Seeded, TypeOK
    <3>2. Latest(log, disk[b], b, Len(log))
      BY DEF Outcome, DiskLatest
    <3>3. \A k \in (Len(taken') + 1)..Len(log) : log[k].block # b
      BY <1>5 DEF Covered, Matters
    <3> QED BY <1>1, <3>1, <3>2, <3>3, LatestPrefix
  <2> QED BY <1>3, <1>5, <2>1 DEF BroughtOver, PeerAt
<1>6. CASE step = "sync"
  <2>1. Len(taken') = Len(log)
    <3>1. ~(Len(taken') + 1 \in (Len(taken') + 1)..Len(log))
      BY <1>6 DEF Covered, Matters
    <3> QED BY <1>1, <3>1
  <2>2. Len(taken') - Len(got') = Len(taken) /\ Len(got') <= Len(taken')
    BY <1>1
  <2>3. PeerAt(Len(taken))
    BY <1>6 DEF Outcome, BroughtOver
  <2>4. PeerAt(Len(taken) - Len(got))'
    BY <2>2, <2>3 DEF PeerAt
  <2>5. Follows(got, Len(taken) - Len(got))'
    BY <2>2 DEF Follows
  <2> QED BY <1>3, <1>6, <2>1, <2>2, <2>4, <2>5 DEF BroughtOver
<1>7. CASE step \in {"populate", "filled"}
  BY <1>3, <1>7 DEF BroughtOver
<1> QED BY <1>3, <1>5, <1>6, <1>7

(* A step after which no harvest is under way and the run has not verified.*)
LEMMA FailOutcome ==
  ASSUME Outcome, phase' = "ready", step' \in {"lost", "error"}
  PROVE  Seeded' /\ ReplyCovers' /\ BroughtOver'
BY DEF Seeded, ReplyCovers, BroughtOver

LEMMA ReceiveOutcome ==
  ASSUME Outcome, Inv', RecvSize \/ RecvBody \/ RecvEof
  PROVE  DiskLatest' /\ Seeded' /\ ReplyCovers' /\ BroughtOver'
<1> DEFINE n == Head(wire).val
           reply == Append(got, Head(wire))
<1>1. UNCHANGED <<disk, log, ring, lost, window, daemon, batch, backup>> /\ phase \in {"size", "body"}
  BY DEF RecvSize, RecvBody, RecvEof, Recorder, primary, capturer
<1>2. DiskLatest' /\ step \in Harvests
  BY <1>1 DEF Outcome, DiskLatest, HarvestSteps
<1>3. CASE RecvEof \/ (RecvSize /\ n = ErrorSize)
  <2>1. step' \in {"lost", "error"} /\ phase' = "ready"
    BY <1>3, RunPointAssumption DEF RecvEof, RecvSize, Fail, ErrorSize
  <2> QED BY <1>2, <2>1, FailOutcome
<1>4. CASE RecvSize /\ n = 0
  <2>1. /\ wire # <<>> /\ taken' = taken \o <<>> /\ got' = <<>> /\ step' = After[step]
        /\ phase' = (IF step = "sync" THEN "apply" ELSE "ready") /\ UNCHANGED todo
        /\ phase = "size"
    BY <1>4, RunPointAssumption DEF RecvSize, Harvested, ErrorSize
  <2>2. taken \in Seq(Change) /\ taken' = taken /\ Len(taken) \in Nat /\ log \in Seq(Change)
        /\ Len(taken) <= Len(log)
    BY <2>1 DEF Outcome, Inv, SeqTypes, TakenFirst, Follows, Segment
  <2>3. Covered(Len(taken))
    <3>1. Covered(Len(taken) + n)
      BY <1>4, <2>1, RunPointAssumption DEF Outcome, ReplyCovers, ErrorSize
    <3> QED BY <1>4, <2>2, <3>1
  <2>4. Follows(<<>>, Len(taken))
    BY <2>2, SegmentEmpty DEF Follows
  <2>5. got' \in Seq(Change) /\ Len(taken') = Len(taken) + Len(got') /\ Follows(got', Len(taken))
        /\ Covered(Len(taken'))
    BY <2>1, <2>2, <2>3, <2>4
  <2> QED BY <1>1, <1>2, <2>1, <2>5, HarvestedOutcome
<1>5. CASE RecvSize /\ n \in 1..MaxWrites
  <2>1. /\ wire # <<>> /\ phase = "size" /\ need' = n /\ phase' = "body"
        /\ UNCHANGED <<step, todo, taken>>
    BY <1>5, RunPointAssumption DEF RecvSize, ErrorSize
  <2>2. Covered(Len(taken) + n) /\ Matters' = Matters
    <3>1. n # ErrorSize
      BY <1>5, RunPointAssumption DEF ErrorSize
    <3> QED BY <1>1, <2>1, <3>1 DEF Outcome, ReplyCovers, Matters
  <2>3. ReplyCovers'
    <3>1. daemon = "drained" => wire = <<>> \/ conn = "closed"
      BY DEF Outcome, Inv, Protocol
    <3> QED BY <1>1, <2>1, <2>2 DEF Outcome, ReplyCovers, Covered
  <2>4. Seeded' /\ BroughtOver'
    BY <1>1, <2>1 DEF Outcome, Seeded, BroughtOver, PeerAt
  <2> QED BY <1>2, <2>3, <2>4
<1>6. CASE RecvBody
  <2>1. /\ phase = "body" /\ wire # <<>> /\ Covered(Len(taken) + need) /\ UNCHANGED need
        /\ IF Len(reply) = need THEN Harvested(reply)
           ELSE got' = reply /\ UNCHANGED <<step, phase, todo, taken>>
    BY <1>6 DEF RecvBody, Outcome, ReplyCovers
  <2>2. /\ Follows(got, Len(taken)) /\ Follows(wire, Len(taken) + Len(got))
        /\ Len(got) < need /\ Len(taken) + need <= Len(log)
    BY <2>1 DEF Outcome, Inv, BodyInFlight
  <2>3. /\ taken \in Seq(Change) /\ got \in Seq(Change) /\ wire \in Seq(Item) /\ log \in Seq(Change)
        /\ Len(taken) \in Nat /\ Len(got) \in Nat /\ need \in Nat
    BY DEF Outcome, Inv, SeqTypes
  <2>4. Head(wire) = log[Len(taken) + Len(got) + 1] /\ Head(wire) \in Change
    <3>1. Head(wire) = log[Len(taken) + Len(got) + 1]
      BY <2>1, <2>2, <2>3, SegmentTail DEF Follows
    <3>2. Len(taken) + Len(got) + 1 \in 1..Len(log)
      BY <2>2, <2>3
    <3> QED BY <2>3, <3>1, <3>2
  <2>5. reply \in Seq(Change) /\ Follows(reply, Len(taken))
    <3>1. Len(taken) + Len(got) < Len(log)
      BY <2>2, <2>3
    <3>2. Segment(got, Len(taken), log)
      BY <2>2 DEF Follows
    <3>3. Segment(reply, Len(taken), log)
      BY <2>3, <2>4, <3>1, <3>2, SegmentNext
    <3> QED BY <2>3, <2>4, <3>3 DEF Follows
  <2> HIDE DEF reply
  <2>6. CASE Len(reply) = need
    <3>1. /\ taken' = taken \o reply /\ got' = reply /\ step' = After[step] /\ UNCHANGED todo
          /\ phase' = IF step = "sync" THEN "apply" ELSE "ready"
      BY <2>1, <2>6 DEF Harvested
    <3>2. Len(taken') = Len(taken) + Len(reply)
      BY <2>3, <2>5, <3>1
    <3>3. Covered(Len(taken'))
      BY <2>1, <2>6, <3>2
    <3> QED BY <1>1, <1>2, <2>5, <3>1, <3>2, <3>3, HarvestedOutcome
  <2>7. CASE Len(reply) # need
    <3>1. UNCHANGED <<step, phase, todo, taken>>
      BY <2>1, <2>7
    <3>2. Matters' = Matters
      BY <1>1, <3>1 DEF Matters
    <3>3. ReplyCovers'
      BY <1>1, <2>1, <3>1, <3>2 DEF Outcome, ReplyCovers, Covered
    <3>4. Seeded' /\ BroughtOver'
      BY <1>1, <2>1, <3>1 DEF Outcome, Seeded, BroughtOver, PeerAt
    <3> QED BY <1>2, <3>3, <3>4
  <2> QED BY <2>6, <2>7
<1> QED BY <1>3, <1>4, <1>5, <1>6 DEF RecvSize

LEMMA ApplyOutcome ==
  ASSUME Outcome, push_and_apply
  PROVE  DiskLatest' /\ Seeded' /\ ReplyCovers' /\ BroughtOver'
<1> DEFINE p == Len(taken) - Len(got)
<1>1. phase = "apply" /\ step = "sync" /\ UNCHANGED <<disk, log, window, taken>>
  BY DEF push_and_apply, Fail, Recorder, primary, capturer, Outcome, HarvestSteps
<1>2. DiskLatest'
  BY <1>1 DEF Outcome, DiskLatest
<1>3. /\ Len(taken) = Len(log) /\ Len(got) <= Len(taken) /\ Follows(got, p) /\ PeerAt(p)
      /\ got \in Seq(Change) /\ log \in Seq(Change) /\ Len(taken) \in Nat /\ Len(got) \in Nat
      /\ backup \in [Blocks -> 0..MaxWrites] /\ MaxWrites \in Nat
  BY <1>1, RunPointAssumption DEF Outcome, Inv, SeqTypes, BroughtOver, TypeOK
<1>4. CASE got # <<>> /\ backup' = Apply(backup, Head(got)) /\ got' = Tail(got)
           /\ UNCHANGED <<step, phase, todo>>
  <2>1. /\ Head(got) = log[p + 1] /\ Head(got) \in Change /\ Len(Tail(got)) = Len(got) - 1
        /\ Follows(Tail(got), p + 1) /\ p \in Nat /\ Len(got) >= 1
    <3>1. p \in Nat
      BY <1>3
    <3>2. Head(got) \in Change /\ Len(Tail(got)) = Len(got) - 1 /\ Len(got) >= 1
      BY <1>3, <1>4
    <3>3. Head(got) = log[p + 1] /\ Follows(Tail(got), p + 1)
      <4> HIDE DEF p
      <4> QED BY <1>3, <1>4, <3>1, SegmentTail DEF Follows
    <3> QED BY <3>1, <3>2, <3>3
  <2>2. Head(got).val = p + 1
    BY <1>3, <2>1 DEF Outcome, DiskLatest
  <2>3. Len(taken') - Len(got') = p + 1 /\ Len(got') <= Len(taken')
    BY <1>1, <1>3, <1>4, <2>1
  <2>4. ASSUME NEW b \in Blocks \ window PROVE Latest(log, backup'[b], b, p + 1)
    <3>1. backup'[b] = IF log[p + 1].block = b THEN p + 1 ELSE backup[b]
      BY <1>3, <1>4, <2>1, <2>2 DEF Apply
    <3>2. Latest(log, backup[b], b, p) /\ backup[b] \in Nat
      BY <1>3 DEF PeerAt
    <3> HIDE DEF p
    <3> QED BY <2>1, <3>1, <3>2, LatestStep
  <2>5. Segment(got', p + 1, log)
    BY <1>4, <2>1 DEF Follows
  <2>6. BroughtOver'
    BY <1>1, <1>3, <1>4, <2>3, <2>4, <2>5 DEF BroughtOver, PeerAt, Follows
  <2>7. Seeded' /\ ReplyCovers'
    BY <1>1, <1>4 DEF Seeded, ReplyCovers
  <2> QED BY <1>2, <2>6, <2>7
<1>5. CASE got = <<>> /\ step' = "verify" /\ phase' = "ready" /\ UNCHANGED backup
  <2>1. ASSUME NEW b \in Blocks \ window PROVE backup[b] = disk[b]
    <3>1. Latest(log, backup[b], b, Len(log)) /\ backup[b] \in Nat
      <4>1. p = Len(log)
        BY <1>3, <1>5
      <4> QED BY <1>3, <4>1 DEF PeerAt
    <3>2. Latest(log, disk[b], b, Len(log)) /\ disk[b] \in Nat /\ Len(log) \in Nat
      BY DEF Outcome, DiskLatest, TypeOK, Inv, SeqTypes
    <3> QED BY <3>1, <3>2, LatestUnique
  <2>2. BroughtOver'
    BY <1>1, <1>5, <2>1 DEF BroughtOver
  <2>3. Seeded' /\ ReplyCovers'
    BY <1>5 DEF Seeded, ReplyCovers
  <2> QED BY <1>2, <2>2, <2>3
<1>6. CASE step' = "error" /\ phase' = "ready"
  BY <1>2, <1>6, FailOutcome
<1> QED BY <1>4, <1>5, <1>6 DEF push_and_apply, Fail

LEMMA RunOutcome ==
  ASSUME Outcome, Inv', Run PROVE DiskLatest' /\ Seeded' /\ ReplyCovers' /\ BroughtOver'
<1>1. UNCHANGED <<disk, log, window, lost, daemon, batch, unsent, conn, wire, need, got, taken>>
  BY DEF Run, Ask, populated, seed, changed, verify, Quiet, Fail, Recorder, primary, capturer
<1>2. DiskLatest' /\ disk \in [Blocks -> 0..MaxWrites] /\ backup \in [Blocks -> 0..MaxWrites]
  BY <1>1 DEF Outcome, DiskLatest, TypeOK
<1>3. CASE Ask
  <2>1. phase = "ready" /\ step \in Harvests /\ UNCHANGED backup
    BY <1>3 DEF Ask
  <2>2. CASE conn = "closed"
    BY <1>2, <1>3, <2>2, FailOutcome DEF Ask, Fail
  <2>3. CASE conn # "closed"
    <3>1. phase' = "size" /\ UNCHANGED <<step, todo>> /\ conn' # "closed"
      BY <1>1, <1>3, <2>3 DEF Ask
    <3>2. daemon = "poll" /\ wire = <<>>
      BY <2>1, <2>3 DEF Outcome, Inv, Protocol
    <3>3. ReplyCovers'
      BY <1>1, <3>1, <3>2 DEF ReplyCovers
    <3>4. Seeded' /\ BroughtOver'
      BY <1>1, <2>1, <3>1 DEF Outcome, Seeded, BroughtOver, PeerAt
    <3> QED BY <1>2, <3>3, <3>4
  <2> QED BY <2>2, <2>3
<1>4. CASE populated
  BY <1>1, <1>2, <1>4 DEF populated, Quiet, Outcome, Seeded, ReplyCovers, BroughtOver
<1>5. CASE seed
  <2>1. step = "seed" /\ phase \notin {"size", "body", "apply"} /\ UNCHANGED phase
    BY <1>5 DEF seed, Quiet, Outcome, HarvestSteps, Harvests
  <2>2. step' \in {"seed", "drain", "error"}
    BY <1>5, <2>1 DEF seed
  <2>3. Seeded'
    <3>1. ASSUME NEW b \in todo, backup' = [backup EXCEPT ![b] = disk[b]], todo' = todo \ {b},
                 UNCHANGED step
          PROVE  Seeded'
      <4>1. ASSUME NEW c \in Blocks \ (todo' \cup window) PROVE backup'[c] = disk[c]
        BY <1>2, <2>1, <3>1 DEF Outcome, Seeded
      <4> QED BY <1>1, <2>1, <3>1, <4>1 DEF Seeded
    <3>2. CASE todo = {} /\ step' = "drain" /\ UNCHANGED <<todo, backup>>
      BY <1>1, <2>1, <3>2 DEF Outcome, Seeded
    <3>3. CASE step' = "error"
      BY <3>3 DEF Seeded
    <3> QED BY <1>5, <3>1, <3>2, <3>3 DEF seed
  <2>4. ReplyCovers' /\ BroughtOver'
    BY <2>1, <2>2 DEF ReplyCovers, BroughtOver
  <2> QED BY <1>2, <2>3, <2>4
<1>6. CASE changed \/ verify
  <2>1. /\ UNCHANGED <<phase, backup, todo>>
        /\ \/ phase = "ready" /\ step = "change" /\ step' = "sync"
           \/ step = "verify" /\ step' = "verified"
    BY <1>6 DEF changed, verify, Quiet
  <2>2. phase \notin {"size", "body", "apply"}
    BY <2>1 DEF Outcome, HarvestSteps, Harvests
  <2>3. Seeded' /\ ReplyCovers'
    BY <2>1, <2>2 DEF Seeded, ReplyCovers
  <2>4. BroughtOver'
    BY <1>1, <2>1, <2>2 DEF Outcome, BroughtOver, PeerAt
  <2> QED BY <1>2, <2>3, <2>4
<1> QED BY <1>3, <1>4, <1>5, <1>6 DEF Run

LEMMA NextOutcome == Outcome /\ [Next]_vars => Outcome'
<1> SUFFICES ASSUME Outcome, [Next]_vars PROVE Outcome'
  OBVIOUS
<1>1. Inv'
  BY NextInv DEF Outcome
<1>2. TypeOK' /\ HarvestSteps'
  BY <1>1, NextTypes DEF Outcome
<1>3. DiskLatest' /\ Seeded' /\ ReplyCovers' /\ BroughtOver'
  <2>1. CASE UNCHANGED vars
    BY <2>1 DEF vars, primary, capturer, recorder, Outcome, DiskLatest, Seeded, ReplyCovers,
                Covered, Matters, BroughtOver, PeerAt, Follows
  <2>2. CASE Write
    BY <2>2, WriteOutcome
  <2>3. CASE Daemon \/ SendTimesOut \/ Exit
    BY <1>1, <2>3, CapturerOutcome
  <2>4. CASE Harvest
    BY <1>1, <2>4, ReceiveOutcome, ApplyOutcome DEF Harvest
  <2>5. CASE Run
    BY <1>1, <2>5, RunOutcome
  <2> QED BY <2>1, <2>2, <2>3, <2>4, <2>5 DEF Next
<1> QED BY <1>1, <1>2, <1>3 DEF Outcome

(* What every reachable state of a run satisfies.                          *)
LEMMA OutcomeInvariant == Spec => []Outcome
BY InitOutcome, NextOutcome, PTL DEF Spec

(* Every variable keeps its type; in particular nothing is left unsent     *)
(* when the capturer is not sending.                                       *)
THEOREM TypeCorrect == Spec => []TypeOK
<1>1. Outcome => TypeOK
  BY DEF Outcome
<1> QED BY <1>1, OutcomeInvariant, PTL

(* A run that verifies without an error has brought over everything but    *)
(* writes of the window between the seed's copy and the drain, whatever    *)
(* was lost, timed out or died on the way.                                 *)
THEOREM VerifiedLostOnlyWindow == Spec => []OnlyWindowLost
<1>1. Outcome => OnlyWindowLost
  BY DEF Outcome, BroughtOver, OnlyWindowLost, Mismatch
<1> QED BY <1>1, OutcomeInvariant, PTL
=============================================================================
