------------------------------ MODULE RunPoint ------------------------------
(***************************************************************************)
(* One run with the recorder of recorder.py: run_point of experiment.py and*)
(* the third case of the demo (kasus_3), where a service keeps writing on  *)
(* its own.  The recorder starts the capturer, seeds the peer with a copy  *)
(* of the directory, throws away what was captured so far, lets the        *)
(* directory change and brings the peer up to date with one harvest.       *)
(*                                                                         *)
(* Composed are the capturer's loop and its socket (batch, loss check, a   *)
(* reply sent piece by piece that may time out, a batch kept when it was   *)
(* not sent), the recorder's side of the protocol and the peer.  The       *)
(* directory is a set of blocks; a change is a numbered write of one.      *)
(***************************************************************************)
EXTENDS Naturals, Sequences, FiniteSets

CONSTANTS
  Blocks,      \* what is written to
  NoBlock,     \* not a block: a reply's size field
  Service,     \* TRUE if a service writes on its own until it is stopped
  Faults,      \* TRUE if sends time out, the peer fails, the capturer dies
  RingSize,    \* events the ring buffer holds
  SocketSize,  \* items a socket holds before send blocks
  MaxWrites    \* bound: writes made

ASSUME RunPointAssumption ==
  /\ Service \in BOOLEAN /\ Faults \in BOOLEAN /\ NoBlock \notin Blocks
  /\ RingSize \in Nat /\ SocketSize \in Nat \ {0} /\ MaxWrites \in Nat

VARIABLES
  disk, log,         \* the directory; ghost: the writes made to it
  ring, lost,        \* BPF ring buffer; a loss counter is not zero
  daemon,            \* the capturer: "poll", "drained", "sending", "exited"
  batch, unsent,     \* rt->batch; what send_batch has still to send
  conn,              \* "backlog", "accepted" or "closed"
  cmd, wire,         \* a GET on its way; items on their way to the recorder
  step,              \* where run_point is
  phase,             \* where _harvest is: "ready", "size", "body", "apply"
  need, got,         \* size of the reply; what has arrived of it, then what is unapplied
  todo,              \* blocks rsync has not copied yet
  backup,            \* the peer's directory
  taken,             \* ghost: everything complete harvests returned
  window             \* ghost: blocks written between seed and drain

primary  == <<disk, log, ring, lost, window>>
capturer == <<daemon, batch, unsent, conn>>
recorder == <<step, phase, need, got, todo, taken>>
vars     == <<primary, capturer, cmd, wire, recorder, backup>>

Change == [block : Blocks, val : 1..MaxWrites]

(* The size field of a reply; one that no batch has stands for an error    *)
(* (STATEDIFF_VFS_SOCKET_ERROR_SIZE, SOCKET_ERROR_SIZE).                   *)
ErrorSize == MaxWrites + 1
Size(n)   == [block |-> NoBlock, val |-> n]
Item      == Change \cup {Size(n) : n \in 0..ErrorSize}

Harvests == {"populate", "filled", "drain", "sync"}
Final    == {"verified", "lost", "error"}
Steps    == Harvests \cup Final \cup {"seed", "change", "verify"}

-----------------------------------------------------------------------------
(* The directory is written by the run itself, while it fills the file and *)
(* when it changes it, or by the service, which runs until the sync.       *)
Writing ==
  \/ step \in {"populate", "change"} /\ phase = "ready"
  \/ Service /\ step \in {"populate", "filled", "seed", "drain", "change"}

Write ==
  \E b \in Blocks :
    LET w == [block |-> b, val |-> Len(log) + 1]
    IN /\ Writing /\ Len(log) < MaxWrites
       /\ disk' = [disk EXCEPT ![b] = w.val]
       /\ log' = Append(log, w)
       /\ window' = IF step \in {"seed", "drain"} THEN window \cup {b} ELSE window
       /\ IF daemon = "exited" THEN UNCHANGED <<ring, lost>>
          ELSE IF Len(ring) < RingSize THEN ring' = Append(ring, w) /\ UNCHANGED lost
          ELSE lost' = TRUE /\ UNCHANGED ring
       /\ UNCHANGED <<capturer, cmd, wire, recorder, backup>>

-----------------------------------------------------------------------------
(* The capturer.                                                           *)

Consume == batch' = batch \o ring /\ ring' = <<>> /\ UNCHANGED <<disk, log, lost, window>>

(* epoll_wait reported the ring buffer.                                    *)
consume_ring ==
  /\ daemon = "poll" /\ ring # <<>>
  /\ Consume
  /\ UNCHANGED <<daemon, unsent, conn, cmd, wire, recorder, backup>>

(* It accepts the client, and a GET makes it drain the ring first.         *)
service_capture_socket ==
  /\ daemon = "poll" /\ conn # "closed" /\ (conn = "backlog" \/ cmd)
  /\ conn' = "accepted"
  /\ IF cmd THEN Consume /\ daemon' = "drained" /\ cmd' = FALSE
     ELSE UNCHANGED <<primary, batch, daemon, cmd>>
  /\ UNCHANGED <<unsent, wire, recorder, backup>>

(* A capture that lost something answers with the error size and exits.    *)
SendUnchecked ==   \* mutant: the loss counters are not consulted
  /\ daemon = "drained"
  /\ daemon' = "sending" /\ unsent' = <<Size(Len(batch))>> \o batch
  /\ UNCHANGED <<batch, conn, wire, primary, cmd, recorder, backup>>

capture_and_send ==
  /\ daemon = "drained"
  /\ IF lost
     THEN /\ daemon' = "exited" /\ conn' = "closed"
          /\ wire' = Append(wire, Size(ErrorSize)) /\ UNCHANGED unsent
     ELSE /\ daemon' = "sending" /\ unsent' = <<Size(Len(batch))>> \o batch
          /\ UNCHANGED <<conn, wire>>
  /\ UNCHANGED <<batch, primary, cmd, recorder, backup>>

(* The next piece; after the last one the batch is cleared.                *)
SendKeepBatch ==   \* mutant: the batch is not cleared
  /\ daemon = "sending" /\ unsent # <<>> /\ Len(wire) < SocketSize
  /\ wire' = Append(wire, Head(unsent)) /\ unsent' = Tail(unsent)
  /\ daemon' = IF Len(unsent) = 1 THEN "poll" ELSE daemon
  /\ UNCHANGED <<batch, conn, primary, cmd, recorder, backup>>

send_batch ==
  /\ daemon = "sending" /\ unsent # <<>> /\ Len(wire) < SocketSize
  /\ wire' = Append(wire, Head(unsent)) /\ unsent' = Tail(unsent)
  /\ IF Len(unsent) = 1 THEN daemon' = "poll" /\ batch' = <<>>
     ELSE UNCHANGED <<daemon, batch>>
  /\ UNCHANGED <<conn, primary, cmd, recorder, backup>>

(* The client did not read for the 10 seconds of SO_SNDTIMEO: the batch is *)
(* kept and the client closed.                                             *)
KeepClient ==   \* mutant: the client is left connected
  /\ Faults /\ daemon = "sending" /\ Len(wire) = SocketSize
  /\ daemon' = "poll" /\ unsent' = <<>>
  /\ UNCHANGED <<conn, batch, primary, cmd, wire, recorder, backup>>

StillUnsent ==   \* mutant: the rest of the reply stays queued
  /\ Faults /\ daemon = "sending" /\ Len(wire) = SocketSize
  /\ daemon' = "poll" /\ conn' = "closed"
  /\ UNCHANGED <<unsent, batch, primary, cmd, wire, recorder, backup>>

SendTimesOut ==
  /\ Faults /\ daemon = "sending" /\ Len(wire) = SocketSize
  /\ daemon' = "poll" /\ unsent' = <<>> /\ conn' = "closed"
  /\ UNCHANGED <<batch, primary, cmd, wire, recorder, backup>>

(* It is killed, or ended by stop().  What the socket holds can be read.   *)
Exit ==
  /\ daemon # "exited" /\ (Faults \/ step \in Final)
  /\ daemon' = "exited" /\ conn' = "closed" /\ unsent' = <<>>
  /\ UNCHANGED <<batch, primary, cmd, wire, recorder, backup>>

-----------------------------------------------------------------------------
(* The recorder.                                                           *)

Recorder == UNCHANGED <<primary, capturer>>

Fail(how) == /\ step' = how /\ phase' = "ready"
             /\ UNCHANGED <<need, got, todo, taken>>

(* _harvest sends GET.  populate_file drains only after it has written.    *)
Ask ==
  /\ step \in Harvests /\ phase = "ready"
  /\ step = "populate" => Len(log) > Len(taken)
  /\ IF conn = "closed" THEN Fail("error") /\ UNCHANGED cmd
     ELSE cmd' = TRUE /\ phase' = "size" /\ UNCHANGED <<step, need, got, todo, taken>>
  /\ Recorder /\ UNCHANGED <<wire, backup>>

After == [s \in Harvests |-> CASE s = "populate" -> "populate" [] s = "filled" -> "seed"
                               [] s = "drain" -> "change" [] s = "sync" -> "sync"]

(* A complete reply: drain() throws it away, sync() goes on to apply it.   *)
Harvested(reply) ==
  /\ taken' = taken \o reply
  /\ got' = reply
  /\ step' = After[step]
  /\ phase' = IF step = "sync" THEN "apply" ELSE "ready"
  /\ UNCHANGED todo

RecvSize ==
  /\ phase = "size" /\ wire # <<>>
  /\ LET n == Head(wire).val
     IN \/ n = ErrorSize /\ Fail("lost")
        \/ n = 0 /\ Harvested(<<>>) /\ need' = 0
        \/ /\ n \in 1..MaxWrites
           /\ need' = n /\ got' = <<>> /\ phase' = "body" /\ UNCHANGED <<step, todo, taken>>
  /\ wire' = Tail(wire)
  /\ Recorder /\ UNCHANGED <<cmd, backup>>

RecvBody ==
  /\ phase = "body" /\ wire # <<>>
  /\ LET reply == Append(got, Head(wire))
     IN IF Len(reply) = need THEN Harvested(reply)
        ELSE got' = reply /\ UNCHANGED <<step, phase, todo, taken>>
  /\ wire' = Tail(wire)
  /\ Recorder /\ UNCHANGED <<need, cmd, backup>>

(* "capturer closed the socket mid-response".                              *)
RecvEof ==
  /\ phase \in {"size", "body"} /\ wire = <<>> /\ conn = "closed"
  /\ Fail("error")
  /\ Recorder /\ UNCHANGED <<cmd, wire, backup>>

Apply(files, w) == [files EXCEPT ![w.block] = w.val]

(* The applier takes one record after the other and stops at the first     *)
(* that it cannot apply.                                                   *)
push_and_apply ==
  /\ phase = "apply"
  /\ \/ /\ got # <<>> /\ backup' = Apply(backup, Head(got)) /\ got' = Tail(got)
        /\ UNCHANGED <<step, phase, need, todo, taken>>
     \/ /\ got = <<>> /\ step' = "verify" /\ phase' = "ready"
        /\ UNCHANGED <<need, got, todo, taken, backup>>
     \/ Faults /\ got # <<>> /\ Fail("error") /\ UNCHANGED backup
  /\ Recorder /\ UNCHANGED <<cmd, wire>>

Quiet == UNCHANGED <<phase, need, got, taken>> /\ Recorder /\ UNCHANGED <<cmd, wire>>

populated == /\ step = "populate" /\ phase = "ready"
             /\ step' = "filled" /\ UNCHANGED <<todo, backup>> /\ Quiet

(* rsync copies what it finds, one block after the other, or fails.        *)
seed ==
  /\ step = "seed"
  /\ \/ \E b \in todo : backup' = [backup EXCEPT ![b] = disk[b]] /\ todo' = todo \ {b}
                         /\ UNCHANGED step
     \/ todo = {} /\ step' = "drain" /\ UNCHANGED <<todo, backup>>
     \/ Faults /\ step' = "error" /\ UNCHANGED <<todo, backup>>
  /\ Quiet

changed == /\ step = "change" /\ phase = "ready"
           /\ step' = "sync" /\ UNCHANGED <<todo, backup>> /\ Quiet

verify == /\ step = "verify"
          /\ step' = "verified" /\ UNCHANGED <<todo, backup>> /\ Quiet

-----------------------------------------------------------------------------
Init ==
  /\ disk = [b \in Blocks |-> 0] /\ log = <<>>
  /\ ring = <<>> /\ lost = FALSE
  /\ daemon = "poll" /\ batch = <<>> /\ unsent = <<>>
  /\ conn = "backlog" /\ cmd = FALSE /\ wire = <<>>
  /\ step = "populate" /\ phase = "ready" /\ need = 0 /\ got = <<>>
  /\ todo = Blocks /\ backup = disk
  /\ taken = <<>> /\ window = {}

Daemon == consume_ring \/ service_capture_socket \/ capture_and_send \/ send_batch
Harvest == RecvSize \/ RecvBody \/ RecvEof \/ push_and_apply
Run == Ask \/ populated \/ seed \/ changed \/ verify

Next == Write \/ Daemon \/ SendTimesOut \/ Exit \/ Harvest \/ Run

Spec == Init /\ [][Next]_vars

(* The capturer's loop and the recorder's program go on as long as they    *)
(* can; nobody has to write, to fail or to be killed.                      *)
FairSpec == Spec /\ WF_vars(Daemon) /\ WF_vars(Harvest) /\ WF_vars(Run)

-----------------------------------------------------------------------------
TypeOK ==
  /\ disk \in [Blocks -> 0..MaxWrites] /\ backup \in [Blocks -> 0..MaxWrites]
  /\ {log, ring, batch, got, taken} \subseteq Seq(Change)
  /\ {unsent, wire} \subseteq Seq(Item)
  /\ Len(log) <= MaxWrites /\ Len(ring) <= RingSize /\ lost \in BOOLEAN
  /\ daemon \in {"poll", "drained", "sending", "exited"}
  /\ (unsent # <<>>) = (daemon = "sending")
  /\ conn \in {"backlog", "accepted", "closed"} /\ cmd \in BOOLEAN
  /\ step \in Steps /\ phase \in {"ready", "size", "body", "apply"}
  /\ need \in 0..MaxWrites /\ todo \subseteq Blocks /\ window \subseteq Blocks

Mismatch == {b \in Blocks : backup[b] # disk[b]}

(* Through losses, timeouts, kept batches and a peer that fails: a run that*)
(* reaches its verification without an error has brought over every write  *)
(* but those that fell between the seed's copy and the drain.              *)
OnlyWindowLost == step = "verified" => Mismatch \subseteq window

(* The capturer hands over the writes in order, each once, none skipped.   *)
Promise == INSTANCE Handover WITH Changes <- Change
InOrderOnce == Promise!Spec

(* A run ends: verified, or with an error the recorder reports.            *)
Terminates == <>(step \in Final)
=============================================================================
