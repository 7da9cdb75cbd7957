------------------------------ MODULE FileData ------------------------------
(***************************************************************************)
(* The capture of file content: the hooks on vfs_write, vfs_writev,        *)
(* do_truncate and vfs_fallocate, and, with --mmap-snapshot, those on      *)
(* security_mmap_file and __folio_start_writeback; the capturer that turns *)
(* their events into records or reads the file itself; the backup.         *)
(*                                                                         *)
(* One tracked directory holds the files.  A hook names a file as the      *)
(* dentry it was opened by is called when the call starts; a mapped file   *)
(* is known by its inode, and the capturer remembers a path for it.  Every *)
(* operation fills its cells with its own number.  A cell is a page.       *)
(***************************************************************************)
EXTENDS Replay, Integers, FiniteSets

CONSTANTS
  Threads,     \* threads of the application
  Names,       \* names in the directory
  Inodes,      \* files, open from the start
  NoIno,       \* what a free name stands for
  NoCall,      \* a thread outside the kernel
  ChunkLimit,  \* cells of an event (STATEDIFF_VFS_MAX_WRITE_DATA_LEN)
  MaxChunks,   \* events of a write (STATEDIFF_VFS_MAX_WRITE_CHUNKS)
  MaxSegs,     \* segments of a writev (STATEDIFF_VFS_MAX_IOV_SEGS)
  Setups,      \* instances to choose from, see Setup
  Orderly      \* TRUE if the application keeps to the discipline below

Writes    == {"write", "append", "writev"}
Allocs    == {"alloc", "zero", "zero_keep", "punch", "collapse"}
DataKinds == Writes \cup Allocs \cup {"truncate"}
Renames   == {"rename", "noreplace", "exchange"}   \* by the flags of renameat2
NameKinds == Renames \cup {"unlink"}
Kinds     == DataKinds \cup NameKinds \cup {"mmap", "store"}

(* What the application does, and the sizes: the calls it makes and        *)
(* whether one at a time; bounds on the operations, on the cells of a file *)
(* and of a request; the events the ring holds; whether calls and reads of *)
(* user memory may fail.                                                   *)
Setup == [kinds : SUBSET Kinds, alone : BOOLEAN, ops : Nat, cells : Nat,
          len : Nat, ring : Nat, faults : BOOLEAN]

(* A call with what the fentry hook noted of it, and how far it has come.  *)
Records == [kind : DataKinds \cup NameKinds, ino : Inodes, name : Names, nname : Names,
            off : Nat, len : Nat, seg : Nat, id : Nat, at : {"entered", "done", "sized"},
            end : Nat, ret : Nat, sent : Nat]

ASSUME FileAssumption ==
  /\ {ChunkLimit, MaxChunks, MaxSegs} \subseteq Nat \ {0} /\ Orderly \in BOOLEAN
  /\ Setups \subseteq Setup /\ \A s \in Setups : s.cells >= 1
  /\ NoIno \notin Inodes /\ NoCall \notin Records /\ IsFiniteSet(Inodes)
  /\ Dir \notin Seq(Nat \cup {Zero})

VARIABLES
  setup,         \* the instance, chosen once
  ops,           \* operations started, the number of the last
  dir, data,     \* the primary: name -> inode, inode -> content
  dentry,        \* inode -> name of the dentry it was opened by
  mapped, dirty, \* files with a shared writable mapping; dirty pages
  calls,         \* thread -> its call, with what the fentry hook noted
  mmap_files,    \* BPF map
  ring, lost,    \* BPF ring buffer; a loss counter is not zero
  files,         \* rt->files: inode -> name
  batch, batch_error,
  daemon,        \* what the capturer is doing
  backup,
  asked,       \* ghost: no call was under way when the harvest began, none since
  delivered    \* ghost: the same of the last harvest served

app     == <<setup, ops, asked, delivered>>
primary == <<dir, data, dentry, mapped, dirty>>
hooks   == <<calls, mmap_files>>
user    == <<files, batch, batch_error>>
sink    == <<daemon, backup>>
vars    == <<app, primary, hooks, ring, lost, user, sink>>

Repeat(v, n) == [k \in 1..n |-> v]
Least(m, n)  == IF m < n THEN m ELSE n
Live(i)      == dir[dentry[i]] = i
Idle(t)      == calls[t] = NoCall
AllIdle      == \A t \in Threads : Idle(t)
MayCall(t)   == Idle(t) /\ (setup.alone => AllIdle)
Mmap         == "mmap" \in setup.kinds

(* The directory as a tree.                                                *)
View == [p \in {<<>>} \cup {<<n>> : n \in {m \in Names : dir[m] # NoIno}} |->
           IF p = <<>> THEN Dir ELSE data[dir[p[1]]]]

Pages(i, cells) == {<<i, k>> : k \in cells}
CellsOf(c)      == (c.off + 1)..(c.off + c.len)

Start(k) ==
  /\ k \in setup.kinds /\ ops < setup.ops
  /\ ops' = ops + 1 /\ asked' = FALSE /\ delivered' = FALSE
  /\ UNCHANGED setup

-----------------------------------------------------------------------------
(* The discipline of an application such as a database, which the capture  *)
(* relies on: what is under way on one file at a time are appends, or      *)
(* writes to different cells; only files that have a name are changed or   *)
(* mapped; a file is renamed or removed when nothing is under way on it,   *)
(* and renamed only if it is not mapped and to a name no mapped file has   *)
(* or had: the capturer reads a page that was written back from whatever   *)
(* file it finds under the name.  An exchange is a rename of both files.   *)

OnFile(i) == {t \in Threads : ~Idle(t) /\
  (calls[t].ino = i \/ (calls[t].kind = "exchange" /\ dir[calls[t].name] = i))}

Together(c, d) ==
  \/ c.kind = "append" /\ d.kind = "append"
  \/ {c.kind, d.kind} \subseteq {"write", "writev"} /\ CellsOf(c) \cap CellsOf(d) = {}

MayChange(c)    == Orderly => Live(c.ino) /\ \A t \in OnFile(c.ino) : Together(c, calls[t])
MayStore(i)     == Orderly => OnFile(i) = {}
MayUnname(i)    == Orderly => OnFile(i) = {}
MayMap(i)       == Orderly => Live(i) /\ \A t \in OnFile(i) : calls[t].kind \notin NameKinds
MayRename(i, m) == Orderly => /\ i \notin mapped /\ OnFile(i) \cup OnFile(dir[m]) = {}
                              /\ \A k \in mapped : dentry[k] # m

-----------------------------------------------------------------------------
(* Calls on a file's content.  The fentry hook notes the name and the      *)
(* arguments; the kernel works under the inode's lock; the fexit hook runs *)
(* when the lock is gone.                                                  *)

Room == Len(ring) < setup.ring
Event(op, c) == [op |-> op, ino |-> c.ino, name |-> c.name, nname |-> c.nname,
                 off |-> 0, size |-> 0, data |-> <<>>, keep |-> FALSE, truncated |-> FALSE,
                 flags |-> "none"]
EmitUnchecked(e) == ring' = Append(ring, e) /\ UNCHANGED lost   \* mutant: no room needed
Emit(e) == IF Room THEN ring' = Append(ring, e) /\ UNCHANGED lost
           ELSE lost' = TRUE /\ UNCHANGED ring

Call(k, i, n, m, off, len, seg) ==
  [kind |-> k, ino |-> i, name |-> n, nname |-> m, off |-> off, len |-> len, seg |-> seg,
   id |-> ops + 1, at |-> "entered", end |-> 0, ret |-> 0, sent |-> 0]

(* Offset, length and cells per segment.  An append's offset is whatever   *)
(* the file position was; a truncate's length is the new size.             *)
Arguments(k) ==
  CASE k = "append"   -> {<<0, n, 1>> : n \in 1..setup.len}
    [] k = "truncate" -> {<<0, n, 1>> : n \in 0..setup.cells}
    [] k = "writev"   -> {<<o, n, s>> : o \in 0..(setup.cells - 1), n \in 1..setup.len, s \in {1, setup.len}}
    [] OTHER          -> {<<o, n, 1>> : o \in 0..(setup.cells - 1), n \in 1..setup.len}

(* fentry of vfs_write, vfs_writev, do_truncate and vfs_fallocate          *)
Enter(t) ==
  \E k \in DataKinds, i \in Inodes :
    /\ MayCall(t) /\ Start(k)
    /\ \E a \in Arguments(k) :
         LET c == Call(k, i, dentry[i], dentry[i], a[1], a[2], a[3])
         IN /\ k # "append" => c.off + c.len <= setup.cells
            /\ c.len % c.seg = 0 /\ MayChange(c)
            /\ calls' = [calls EXCEPT ![t] = c]
    /\ UNCHANGED <<primary, mmap_files, ring, lost, user, sink>>

Leave(t) == calls' = [calls EXCEPT ![t] = NoCall]
Touch(i, cells) == IF Mmap THEN dirty \cup Pages(i, cells) ELSE dirty
Work == UNCHANGED <<app, dir, dentry, mapped, mmap_files, ring, lost, user, sink>>

(* A write transfers n cells, fewer than asked for if the file can grow no *)
(* more or something fails; *pos is moved past them.                       *)
vfs_write(t) ==
  LET c   == calls[t]
      pos == IF c.kind = "append" THEN Len(data[c.ino]) ELSE c.off
  IN /\ ~Idle(t) /\ c.at = "entered" /\ c.kind \in Writes
     /\ \E n \in 0..c.len :
          /\ pos + n <= setup.cells
          /\ n < c.len => setup.faults \/ pos + c.len > setup.cells
          /\ IF n = 0 THEN Leave(t) /\ UNCHANGED <<data, dirty>>
             ELSE /\ data' = [data EXCEPT ![c.ino] = Overwrite(@, pos, Repeat(c.id, n))]
                  /\ dirty' = Touch(c.ino, (pos + 1)..(pos + n))
                  /\ calls' = [calls EXCEPT ![t].at = "done", ![t].end = pos + n, ![t].ret = n]
     /\ Work

do_truncate(t) ==
  LET c == calls[t]
  IN /\ ~Idle(t) /\ c.at = "entered" /\ c.kind = "truncate"
     /\ \/ /\ data' = [data EXCEPT ![c.ino] = Resize(@, c.len)]
           /\ dirty' = dirty \ Pages(c.ino, (c.len + 1)..setup.cells)
           /\ calls' = [calls EXCEPT ![t].at = "done"]
        \/ setup.faults /\ Leave(t) /\ UNCHANGED <<data, dirty>>
     /\ Work

(* fallocate(2): alloc extends the file, zero and punch clear a range,     *)
(* collapse cuts it out.  KEEP_SIZE alone changes nothing a reader sees    *)
(* and its hook returns at once.                                           *)
Allocated(c, old) ==
  CASE c.kind = "alloc"    -> Resize(old, Larger(Len(old), c.off + c.len))
    [] c.kind = "zero"     -> ZeroRange(old, c.off, c.len, FALSE)
    [] c.kind = "collapse" -> SubSeq(old, 1, c.off) \o SubSeq(old, c.off + c.len + 1, Len(old))
    [] OTHER               -> ZeroRange(old, c.off, c.len, TRUE)

vfs_fallocate(t) ==
  LET c == calls[t]
  IN /\ ~Idle(t) /\ c.at = "entered" /\ c.kind \in Allocs
     /\ \/ /\ c.kind = "collapse" => c.off + c.len < Len(data[c.ino])
           /\ data' = [data EXCEPT ![c.ino] = Allocated(c, @)]
           /\ dirty' = IF c.kind = "alloc" THEN dirty ELSE dirty \ Pages(c.ino, CellsOf(c))
           /\ calls' = [calls EXCEPT ![t].at = "done"]
        \/ /\ setup.faults \/ c.kind = "collapse"
           /\ Leave(t) /\ UNCHANGED <<data, dirty>>
     /\ Work

-----------------------------------------------------------------------------
(* fexit hooks.                                                            *)

Hook == UNCHANGED <<app, primary, mmap_files, user, sink>>
Finished(t, kinds) == ~Idle(t) /\ calls[t].at = "done" /\ calls[t].kind \in kinds
Chunk(c, off, n, cut) ==
  [Event("write", c) EXCEPT !.off = off, !.size = n, !.data = Repeat(c.id, n), !.truncated = cut]

(* What was written is before *pos, wherever the call began.  The hook     *)
(* takes the offset at entry if it cannot read *pos; of a regular file it  *)
(* can, pos is the kernel's own.                                           *)
EnteredOffset(c) == c.off   \* mutant: *pos as the fentry hook saw it
start_offset(c)  == c.end - c.ret

(* One round of the loop over the chunks of a write.  The last chunk       *)
(* allowed carries the truncated flag if more would follow; data that is   *)
(* not sent is counted.                                                    *)
handle_vfs_write_ret(t) ==
  LET c    == calls[t]
      n    == Least(ChunkLimit, c.ret - c.sent)
      last == c.sent + n = c.ret \/ c.sent \div ChunkLimit = MaxChunks - 1
      cut  == last /\ c.sent + n < c.ret
  IN /\ Finished(t, {"write", "append"}) /\ Hook
     /\ \/ /\ Room /\ ring' = Append(ring, Chunk(c, start_offset(c) + c.sent, n, cut))
           /\ lost' = (lost \/ cut)
           /\ IF last THEN Leave(t) ELSE calls' = [calls EXCEPT ![t].sent = @ + n]
        \/ /\ ~Room \/ setup.faults
           /\ lost' = TRUE /\ Leave(t) /\ UNCHANGED ring

(* One round of bpf_loop over the segments of a writev, which does not     *)
(* look at how much was written: what it has sent is compared with that at *)
(* the end.  A segment that does not fit in an event is cut and ends it.   *)
(* Segments beyond the limit are not looked at.                            *)
writev_emit_seg(t) ==
  LET c    == calls[t]
      n    == Least(ChunkLimit, c.seg)
      last == n < c.seg \/ c.sent + n \in {c.len, c.seg * MaxSegs}
  IN /\ Finished(t, {"writev"}) /\ Hook
     /\ \/ /\ Room /\ ring' = Append(ring, Chunk(c, start_offset(c) + c.sent, n, n < c.seg))
           /\ lost' = (lost \/ (last /\ c.sent + n # c.ret))
           /\ IF last THEN Leave(t) ELSE calls' = [calls EXCEPT ![t].sent = @ + n]
        \/ /\ ~Room \/ setup.faults
           /\ lost' = TRUE /\ Leave(t) /\ UNCHANGED ring

(* fexit of do_truncate, vfs_unlink and vfs_rename, and of vfs_fallocate   *)
(* once it has its event                                                   *)
EventOf(c) ==
  CASE c.kind \in {"truncate", "alloc"} -> [Event("truncate", c) EXCEPT !.size = c.len]
    [] c.kind \in {"zero", "zero_keep", "punch"} ->
         [Event("zero", c) EXCEPT !.off = c.off, !.size = c.len, !.keep = c.kind # "zero"]
    [] c.kind \in {"noreplace", "exchange"} -> [Event("rename", c) EXCEPT !.flags = c.kind]
    [] OTHER -> Event(c.kind, c)

emit_pending_event(t) ==
  /\ \/ Finished(t, {"truncate", "zero", "zero_keep", "punch"} \cup NameKinds)
     \/ ~Idle(t) /\ calls[t].at = "sized"
  /\ Emit(EventOf(calls[t])) /\ Leave(t) /\ Hook

(* Mode 0 is reported as a truncate to the size the file has by now; a     *)
(* mode that cannot be replayed is counted.                                *)
handle_vfs_fallocate_ret(t) ==
  LET c == calls[t]
  IN /\ Hook /\ UNCHANGED ring
     /\ \/ /\ Finished(t, {"alloc"}) /\ UNCHANGED lost
           /\ calls' = [calls EXCEPT ![t].at = "sized", ![t].len = Len(data[c.ino])]
        \/ Finished(t, {"collapse"}) /\ lost' = TRUE /\ Leave(t)

-----------------------------------------------------------------------------
(* Names.  The hooks of a call and its effect are under the lock of the    *)
(* directory, so the fentry hook and the effect are one step.              *)

Locked == \E t \in Threads : ~Idle(t) /\ calls[t].kind \in NameKinds
Named(t, c) == calls' = [calls EXCEPT ![t] = [c EXCEPT !.at = "done"]]

vfs_unlink(t) ==
  \E n \in Names :
    /\ MayCall(t) /\ ~Locked /\ Start("unlink")
    /\ dir[n] # NoIno /\ MayUnname(dir[n])
    /\ dir' = [dir EXCEPT ![n] = NoIno]
    /\ Named(t, Call("unlink", dir[n], n, n, 0, 0, 1))
    /\ UNCHANGED <<data, dentry, mapped, dirty, mmap_files, ring, lost, user, sink>>

(* A rename replaces what the new name stands for; RENAME_NOREPLACE wants  *)
(* the name free, RENAME_EXCHANGE has the two files change places.         *)
Rename(n, m) ==
  /\ dir' = [dir EXCEPT ![n] = NoIno, ![m] = dir[n]]
  /\ dentry' = [dentry EXCEPT ![dir[n]] = m]
Exchange(n, m) ==
  /\ dir[m] # NoIno /\ MayRename(dir[m], n)
  /\ dir' = [dir EXCEPT ![n] = dir[m], ![m] = dir[n]]
  /\ dentry' = [dentry EXCEPT ![dir[n]] = m, ![dir[m]] = n]

vfs_rename(t) ==
  \E n, m \in Names, k \in Renames :
    /\ n # m /\ MayCall(t) /\ ~Locked /\ Start(k)
    /\ dir[n] # NoIno /\ MayRename(dir[n], m)
    /\ \/ k = "rename" /\ Rename(n, m)
       \/ k = "noreplace" /\ dir[m] = NoIno /\ Rename(n, m)
       \/ k = "exchange" /\ Exchange(n, m)
    /\ Named(t, Call(k, dir[n], n, m, 0, 0, 1))
    /\ UNCHANGED <<data, mapped, dirty, mmap_files, ring, lost, user, sink>>

-----------------------------------------------------------------------------
(* Mappings.  The hook on mmap adds the file to the map and tells the      *)
(* capturer its name; without room the event is dropped and not counted.   *)
handle_security_mmap_file(i) ==
  /\ Start("mmap") /\ MayMap(i)
  /\ mapped' = mapped \cup {i}
  /\ mmap_files' = mmap_files \cup {i}
  /\ ring' = IF Room
             THEN Append(ring, Event("mmap", Call("mmap", i, dentry[i], dentry[i], 0, 0, 1)))
             ELSE ring
  /\ UNCHANGED <<dir, data, dentry, dirty, calls, lost, user, sink>>

Store(i) ==
  \E k \in 1..Len(data[i]) :
    /\ i \in mapped /\ Start("store") /\ MayStore(i)
    /\ data' = [data EXCEPT ![i][k] = ops + 1]
    /\ dirty' = dirty \cup {<<i, k>>}
    /\ UNCHANGED <<dir, dentry, mapped, hooks, ring, lost, user, sink>>

Written(page) ==
  [Event("writeback", Call("store", page[1], NoIno, NoIno, 0, 0, 1)) EXCEPT !.off = page[2] - 1,
                                                                            !.size = 1]

(* The kernel writes a dirty page back when it likes.                      *)
handle_folio_start_writeback(page) ==
  /\ page \in dirty
  /\ dirty' = dirty \ {page}
  /\ IF page[1] \in mmap_files THEN Emit(Written(page)) ELSE UNCHANGED <<ring, lost>>
  /\ UNCHANGED <<app, dir, data, dentry, mapped, hooks, user, sink>>

-----------------------------------------------------------------------------
(* The capturer.                                                           *)

SwappedRecord(e, op) ==   \* mutant: the two paths exchanged
  [op |-> op, path |-> <<e.nname>>, npath |-> <<e.name>>, off |-> e.off,
   size |-> e.size, data |-> e.data, keep |-> e.keep, flags |-> e.flags]
Record(e, op) == [op |-> op, path |-> <<e.name>>, npath |-> <<e.nname>>, off |-> e.off,
                  size |-> e.size, data |-> e.data, keep |-> e.keep, flags |-> e.flags]
RememberFirst(e) ==   \* mutant: a path that is known is kept
  files' = IF e.ino \in DOMAIN files THEN files ELSE Set(files, e.ino, e.name)
Remember(e) == files' = Set(files, e.ino, e.name)

(* A page that was written back is read from the file that the remembered  *)
(* path leads to by now; a missing file and a short file yield nothing.    *)
snapshot_range(e) ==
  LET name == files[e.ino]
      ino  == dir[name]
  IN IF ino = NoIno \/ e.off >= Len(data[ino]) THEN <<>>
     ELSE <<Record([e EXCEPT !.name = name, !.data = <<data[ino][e.off + 1]>>], "write")>>

handle_event ==
  LET e == Head(ring)
  IN /\ daemon \in {"idle", "draining", "flushed"} /\ ring # <<>>
     /\ ring' = Tail(ring)
     /\ \/ /\ e.op = "write"
           /\ batch' = Append(batch, Record(e, "write")) /\ Remember(e)
           /\ batch_error' = (batch_error \/ e.truncated)
        \/ /\ e.op = "zero"
           /\ batch' = Append(batch, Record(e, "zero")) /\ Remember(e)
           /\ UNCHANGED batch_error
        \/ /\ e.op \in {"truncate", "unlink", "rename"}
           /\ batch' = Append(batch, Record(e, e.op)) /\ UNCHANGED <<files, batch_error>>
        \/ /\ e.op = "mmap"
           /\ Remember(e) /\ UNCHANGED <<batch, batch_error>>
        \/ /\ e.op = "writeback"
           /\ batch' = IF e.ino \in DOMAIN files THEN batch \o snapshot_range(e) ELSE batch
           /\ UNCHANGED <<files, batch_error>>
     /\ UNCHANGED <<app, primary, hooks, lost, sink>>

(* capture_and_send begins when the client asks; the ring is drained.      *)
capture_and_send ==
  /\ daemon = "idle" /\ daemon' = "draining"
  /\ asked' = AllIdle
  /\ UNCHANGED <<setup, ops, delivered, primary, hooks, ring, lost, user, backup>>

(* snapshot_mmap_files: sync_file_range on the remembered path of every    *)
(* mapped file writes back the dirty pages of the file found there: one    *)
(* file after the other, the pages of a file from its start.  Pages of a   *)
(* file that is not in the map pass the hook without an event.             *)
Found == {dir[files[i]] : i \in mmap_files \cap DOMAIN files} \ {NoIno}

FileByFile(pages) ==
  \A l, n \in DOMAIN pages : l < n /\ pages[l][1] = pages[n][1] =>
    /\ pages[l][2] < pages[n][2]
    /\ \A m \in l..n : pages[m][1] = pages[n][1]

snapshot_mmap_files ==
  \E pages \in SetToSeqs({page \in dirty : page[1] \in Found \cap mmap_files}) :
    /\ Mmap /\ daemon = "draining" /\ ring = <<>> /\ daemon' = "flushed"
    /\ FileByFile(pages)
    /\ dirty' = {page \in dirty : page[1] \notin Found}
    /\ ring' = [n \in 1..Least(setup.ring, Len(pages)) |-> Written(pages[n])]
    /\ lost' = (lost \/ Len(pages) > setup.ring)
    /\ UNCHANGED <<app, dir, data, dentry, mapped, hooks, user, backup>>

(* The ring is drained once more, the loss counters are read, the batch is *)
(* sent, cleared and replayed, or the harvest ends in an error.            *)
send_batch ==
  LET out == ApplyBatch(backup, batch)
  IN /\ daemon = (IF Mmap THEN "flushed" ELSE "draining") /\ ring = <<>>
     /\ IF lost \/ batch_error
        THEN daemon' = "failed" /\ UNCHANGED <<backup, delivered, batch>>
        ELSE /\ daemon' = IF out.ok THEN "idle" ELSE "broken"
             /\ backup' = out.fs /\ batch' = <<>>
             /\ delivered' = (out.ok /\ asked)
     /\ UNCHANGED <<setup, ops, asked, primary, hooks, ring, lost, files, batch_error>>

-----------------------------------------------------------------------------
Init ==
  /\ setup \in Setups /\ ops = 0
  /\ dir \in [Names -> Inodes \cup {NoIno}] /\ dentry \in [Inodes -> Names]
  /\ \A n \in Names : dir[n] # NoIno => dentry[dir[n]] = n
  /\ data = [i \in Inodes |-> <<0>>]
  /\ mapped = {} /\ dirty = {} /\ mmap_files = {}
  /\ calls = [t \in Threads |-> NoCall]
  /\ ring = <<>> /\ lost = FALSE
  /\ files = [i \in {} |-> NoIno] /\ batch = <<>> /\ batch_error = FALSE
  /\ daemon = "idle" /\ backup = View /\ asked = FALSE /\ delivered = FALSE

Next ==
  \/ \E t \in Threads :
       \/ Enter(t) \/ vfs_write(t) \/ do_truncate(t) \/ vfs_fallocate(t)
       \/ handle_vfs_write_ret(t) \/ writev_emit_seg(t)
       \/ emit_pending_event(t) \/ handle_vfs_fallocate_ret(t)
       \/ vfs_unlink(t) \/ vfs_rename(t)
  \/ \E i \in Inodes : handle_security_mmap_file(i) \/ Store(i)
  \/ \E page \in dirty : handle_folio_start_writeback(page)
  \/ handle_event \/ capture_and_send \/ snapshot_mmap_files \/ send_batch

Spec == Init /\ [][Next]_vars

-----------------------------------------------------------------------------
TypeOK ==
  /\ setup \in Setups /\ ops \in 0..setup.ops
  /\ dir \in [Names -> Inodes \cup {NoIno}] /\ dentry \in [Inodes -> Names]
  /\ \A i \in Inodes : data[i] \in Seq(0..ops \cup {Zero}) /\ Len(data[i]) <= setup.cells
  /\ mmap_files = mapped /\ mapped \subseteq Inodes
  /\ dirty \subseteq Inodes \X (1..setup.cells)
  /\ \A t \in Threads : ~Idle(t) => calls[t].at \in {"entered", "done", "sized"}
  /\ Len(ring) <= setup.ring
  /\ DOMAIN files \subseteq Inodes /\ \A i \in DOMAIN files : files[i] \in Names
  /\ lost \in BOOLEAN /\ batch_error \in BOOLEAN
  /\ daemon \in {"idle", "draining", "flushed", "failed", "broken"}

(* Fail closed: a harvest that was served without an error, that began     *)
(* when no call was under way and after which nothing has been done, has   *)
(* made the backup equal to the directory: every chunk and segment arrived *)
(* at its place, in an order that gives the same bytes, and every page     *)
(* stored through a mapping was flushed and read.                          *)
FailClosed == delivered => backup = View

(* The backup of an application that keeps to the discipline refuses a     *)
(* batch only for its length or for an exchange in it, which apply_rename  *)
(* does not replay: the names that writes, unlinks and renames were noted  *)
(* under fit together in the order of the ring.                            *)
Replayable ==
  [][daemon # "broken" /\ daemon' = "broken" =>
       Len(batch) > MaxRecords \/ WithExchange(batch)]_vars

(* Once the ring is empty, the capturer knows every mapped file that still *)
(* has a name by that name, whichever of its events came last: snapshots   *)
(* are taken from the right file and sync_file_range reaches it.           *)
PathsCurrent ==
  ring = <<>> => \A i \in mmap_files : Live(i) => i \in DOMAIN files /\ files[i] = dentry[i]
=============================================================================
