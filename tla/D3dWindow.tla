----------------------------- MODULE D3dWindow -----------------------------
(* Direct3D from a Windows 7 process to the host: the user-mode driver's     *)
(* command buffer (wddm/um/d3dptumd.c), the kernel-mode driver's submission, *)
(* which registers allocations and fills the command window                  *)
(* (wddm/km/d3dptkmd.c, d3dpt_enc.h), the adapter's doorbell (d3dpt_vga.c)   *)
(* and the executor, which may be another process that dies at any moment    *)
(* (d3dpt_exec_remote.c, d3dpt_exec_host.c, d3dpt_exec.cpp).                  *)
(*                                                                           *)
(* dxgkrnl runs one submission at a time and the doorbell is synchronous;    *)
(* allocations are destroyed by other threads meanwhile.                     *)

EXTENDS Integers, Sequences, FiniteSets, FiniteSetsExt, SequencesExt

CONSTANTS Handles,     (* allocations, each with its handle, in one boot      *)
          Addrs,       (* places in VRAM, one allocation's each               *)
          Refused,     (* the allocations whose description the host refuses, *)
          Unmirrored,  (* and those of a format it does not mirror            *)
          Splits,      (* a command buffer may end between any two records    *)
          MaxCmds,     (* records the user-mode driver gathers                *)
          MaxBatch,    (* records that fit the command window                 *)
          MaxRel,      (* releases that fit the driver's queue                *)
          MaxDirty     (* dirty ranges that fit a reply of the process        *)
ASSUME WindowAssumption ==
  /\ Addrs \subseteq Nat /\ Addrs # {} /\ Refused \subseteq Handles
  /\ Unmirrored \subseteq Handles
  /\ Splits \in BOOLEAN
  /\ MaxCmds \in Nat \ {0} /\ MaxBatch \in Nat \ {0} /\ MaxRel \in Nat
  /\ MaxDirty \in Nat \ {0}

VARIABLES
  (* per allocation: its life, where it is in VRAM, if it is, and where the  *)
  (* host was told it is                                                     *)
  alloc,
  (* releases queued for the next submission, and those that did not fit     *)
  rel, rel_lost,
  (* the user-mode driver's buffer; whether it waits for a query's result,   *)
  (* and its result allocation                                               *)
  cmds, asking, res,
  (* the submission's records not yet in the window, the window, and its     *)
  (* return slot                                                             *)
  todo, batch, slot,
  (* the executor: up or gone; VRAM mapped in its process, and given to it;  *)
  (* the surfaces it knows                                                   *)
  exec, mapped, has_vram, surfs,
  (* bytes it wrote that the adapter's scanout was not told of               *)
  unseen,
  (* a batch was refused since the machine started                           *)
  failed

guestVars == <<alloc, rel, rel_lost, cmds, asking>>
execVars == <<exec, mapped, has_vram, surfs>>
windowVars == <<guestVars, res, todo, batch, slot, execVars, unseen, failed>>

Nowhere == -1
Uses == [op : {"target", "readback"}, h : Handles]
Registers == [op : {"surface"}, h : Handles, at : Addrs]
Releases == [op : {"release"}, h : Handles]
Gets == [op : {"get"}, copied : BOOLEAN]
Records == Uses \cup Registers \cup Releases \cup Gets
(* A query's answer; own: written by the record whose answer is awaited.     *)
Answers == [hr : {"ok", "later"}, own : BOOLEAN]
NotOwn(answer) == [answer EXCEPT !.own = FALSE]

New == [life |-> "new", cur |-> Nowhere, host |-> Nowhere]
Zeroed == [hr |-> "ok", own |-> FALSE]

WindowInit ==
  /\ alloc = [h \in Handles |-> New] /\ rel = {} /\ rel_lost = {}
  /\ cmds = <<>> /\ asking = FALSE /\ res = Zeroed
  /\ todo = <<>> /\ batch = <<>> /\ slot = Zeroed
  /\ exec = "up" /\ mapped \in BOOLEAN /\ has_vram = mapped /\ surfs = <<>>
  /\ unseen = {} /\ failed = FALSE

Idle == todo = <<>> /\ batch = <<>>
Mirrored == Handles \ Unmirrored
Live == {h \in Handles : alloc[h].life = "live"}
Free == Addrs \ {alloc[h].cur : h \in Live}
Named == {cmds[i].h : i \in DOMAIN cmds} \cup
         {todo[i].h : i \in {j \in DOMAIN todo : todo[j].op # "get"}}

-----------------------------------------------------------------------------
(* Allocations: dxgkrnl's calls                                              *)

Create(h) ==
  /\ alloc[h].life = "new"
  /\ alloc' = [alloc EXCEPT ![h].life = "live"]
  /\ UNCHANGED <<rel, rel_lost, cmds, asking, res, todo, batch, slot, execVars, unseen, failed>>

(* Its release waits for the next submission, if it fits the queue.          *)
RelRoomOffByOne == Cardinality(rel) <= MaxRel
RelRoom == Cardinality(rel) < MaxRel

Destroy(h) ==
  /\ h \in Live /\ h \notin Named
  /\ alloc' = [alloc EXCEPT ![h].life = "gone", ![h].cur = Nowhere]
  /\ LET known == alloc[h].host # Nowhere
     IN  /\ rel' = IF known /\ RelRoom THEN rel \cup {h} ELSE rel
         /\ rel_lost' = IF known /\ ~RelRoom THEN rel_lost \cup {h} ELSE rel_lost
  /\ UNCHANGED <<cmds, asking, res, todo, batch, slot, execVars, unseen, failed>>

(* Paging puts it somewhere in VRAM, or out of it; a Patch finds it there    *)
(* (alloc_at). What the host was told stays.                                 *)
Move(h, a) ==
  /\ Idle /\ h \in Live /\ a \in Free \cup {Nowhere}
  /\ alloc' = [alloc EXCEPT ![h].cur = a]
  /\ UNCHANGED <<rel, rel_lost, cmds, asking, res, todo, batch, slot, execVars, unseen, failed>>

-----------------------------------------------------------------------------
(* The user-mode driver                                                      *)

Record(use) ==
  /\ ~asking /\ Len(cmds) < MaxCmds /\ use.h \in Live
  /\ cmds' = Append(cmds, use)
  /\ UNCHANGED <<alloc, rel, rel_lost, asking, res, todo, batch, slot, execVars, unseen, failed>>

(* What run_reg appends: the releases, then each allocation of the list that *)
(* is in VRAM and that the host does not know where it is. (d3d_register     *)
(* leaves host_addr alone if the record does not fit an empty window: one of *)
(* at most 16 levels always does.)                                           *)
NeverRegistered(h) == alloc[h].host = Nowhere /\ alloc[h].cur # Nowhere
Unregistered(h) == alloc[h].cur \notin {Nowhere, alloc[h].host}
ReleaseRecords == {[op |-> "release", h |-> h] : h \in rel}
RegisterRecords(list) ==
  {[op |-> "surface", h |-> h, at |-> alloc[h].cur] : h \in {l \in list : Unregistered(l)}}

Submit(list, records) ==
  /\ Idle
  /\ \E first \in SetToSeqs(ReleaseRecords), then \in SetToSeqs(RegisterRecords(list)) :
       todo' = first \o then \o records
  /\ rel' = {}
  /\ alloc' = [h \in Handles |-> IF h \in list /\ Unregistered(h)
                                  THEN [alloc[h] EXCEPT !.host = alloc[h].cur] ELSE alloc[h]]
  /\ cmds' = <<>>
  /\ UNCHANGED <<rel_lost, batch, execVars, unseen, failed>>

List == {cmds[i].h : i \in DOMAIN cmds}

CmdFlush ==
  /\ ~asking /\ cmds # <<>>
  /\ Submit(List, cmds)
  /\ UNCHANGED <<asking, res, slot>>

(* An occlusion query's result, asked for behind everything recorded. The    *)
(* record that has it copied and the query's own may fall into two buffers:  *)
(* then nothing is copied.                                                   *)
Get(copied) == [op |-> "get", copied |-> copied]
Copies == IF Splits THEN BOOLEAN ELSE {TRUE}

GetQueryData ==
  /\ ~asking /\ asking' = TRUE
  /\ \E copied \in Copies : Submit(List, Append(cmds, Get(copied)))
  /\ res' = NotOwn(res) /\ slot' = NotOwn(slot)

(* The result allocation is read once the submission's fence is done; a      *)
(* query that is not ready is asked for again, up to a thousand times.       *)
TakeResult ==
  /\ asking /\ Idle /\ asking' = FALSE
  /\ res' = NotOwn(res) /\ slot' = NotOwn(slot)
  /\ UNCHANGED <<alloc, rel, rel_lost, cmds, todo, batch, execVars, unseen, failed>>

AskAgain ==
  /\ asking /\ Idle /\ res.hr = "later" /\ asking' = TRUE
  /\ \E copied \in Copies : Submit({}, <<Get(copied)>>)
  /\ res' = NotOwn(res) /\ slot' = NotOwn(slot)

-----------------------------------------------------------------------------
(* The executor runs a batch, record by record, to the first error           *)

With(f, h, a) == [x \in DOMAIN f \cup {h} |-> IF x = h THEN a ELSE f[x]]
Without(f, h) == [x \in DOMAIN f \ {h} |-> f[x]]

(* A surface is refused, or made known, or, if the host does not mirror its  *)
(* format, neither.                                                          *)
ExecOne(st, r, hr) ==
  CASE st.err -> st
    [] ~st.err /\ r.op = "release" -> [st EXCEPT !.surfs = Without(@, r.h)]
    [] ~st.err /\ r.op = "surface" /\ (~has_vram \/ r.h \in Refused) -> [st EXCEPT !.err = TRUE]
    [] ~st.err /\ r.op = "surface" /\ has_vram /\ r.h \notin Refused ->
         IF r.h \in Mirrored THEN [st EXCEPT !.surfs = With(@, r.h, r.at)] ELSE st
    [] ~st.err /\ r.op = "target" -> [st EXCEPT !.err = r.h \notin DOMAIN st.surfs]
    [] ~st.err /\ r.op = "readback" ->
         IF r.h \in DOMAIN st.surfs THEN [st EXCEPT !.wrote = Append(@, st.surfs[r.h])] ELSE st
    [] OTHER -> [st EXCEPT !.slot = [hr |-> hr, own |-> TRUE]]

ExecBatch(records, hr) ==
  LET after[n \in 0 .. Len(records)] ==
        IF n = 0 THEN [surfs |-> surfs, wrote |-> <<>>, slot |-> slot, err |-> FALSE]
        ELSE ExecOne(after[n - 1], records[n], hr)
  IN  after[Len(records)]

(* cb_vram_dirty: a reply's ranges, folded into one when they are too many.  *)
Hull(ranges) == <<Min({r[1] : r \in ranges}), Max({r[2] : r \in ranges})>>
NoteDirtyLatest(ranges, at) ==
  IF Len(ranges) < MaxDirty THEN Append(ranges, <<at, at>>) ELSE << <<at, at>> >>
NoteDirty(ranges, at) ==
  IF Len(ranges) < MaxDirty THEN Append(ranges, <<at, at>>)
  ELSE << Hull(Range(ranges) \cup {<<at, at>>}) >>
DirtyRanges(wrote) ==
  LET noted[n \in 0 .. Len(wrote)] ==
        IF n = 0 THEN <<>> ELSE NoteDirty(noted[n - 1], wrote[n])
  IN  noted[Len(wrote)]
Covered(ranges) == UNION {r[1] .. r[2] : r \in Range(ranges)}

-----------------------------------------------------------------------------
(* The doorbell                                                              *)

(* No process, or one that will not map the VRAM: the batch is dropped.      *)
CallFails ==
  /\ exec = "gone" \/ ~mapped
  /\ failed' = TRUE
  /\ UNCHANGED <<slot, execVars, unseen>>

(* The process dies on the way: what it wrote is in VRAM and in the window,  *)
(* and no reply says so.                                                     *)
ProcessDies ==
  /\ exec = "up" /\ exec' = "gone"
  /\ failed' = TRUE
  /\ \E n \in 0 .. Len(batch) :
       LET st == ExecBatch(SubSeq(batch, 1, n), "ok")
       IN  /\ slot' = st.slot /\ unseen' = unseen \cup Range(st.wrote)
           /\ mapped' = (mapped \/ n > 0)
  /\ surfs' = <<>> /\ UNCHANGED has_vram

Answered ==
  /\ exec = "up" /\ mapped' = TRUE
  /\ \E hr \in {"ok", "later"} :
       LET st == ExecBatch(batch, hr)
       IN  /\ surfs' = st.surfs /\ slot' = st.slot
           /\ unseen' = (unseen \cup Range(st.wrote)) \ Covered(DirtyRanges(st.wrote))
           /\ failed' = (failed \/ st.err)
  /\ UNCHANGED <<exec, has_vram>>

AwaitsCopy == batch # <<>> /\ Last(batch).op = "get" /\ Last(batch).copied

(* A record into the window; a full window is run first.                     *)
Put ==
  /\ todo # <<>> /\ Len(batch) < MaxBatch /\ ~AwaitsCopy
  /\ batch' = Append(batch, Head(todo)) /\ todo' = Tail(todo)
  /\ UNCHANGED <<guestVars, res, slot, execVars, unseen, failed>>

(* d3dpt_enc_flush: behind a query whose result is wanted, which is then     *)
(* copied; on a full window; and once at the end of a submission.            *)
Flush ==
  /\ batch # <<>>
  /\ AwaitsCopy \/ Len(batch) = MaxBatch \/ todo = <<>>
  /\ CallFails \/ ProcessDies \/ Answered
  /\ batch' = <<>>
  /\ res' = IF AwaitsCopy THEN slot' ELSE res
  /\ UNCHANGED <<guestVars, todo>>

(* The machine restarts: the adapter has the executor let go of everything,  *)
(* and clears the window; the guest's drivers start anew.                    *)
MachineReset ==
  /\ surfs' = <<>>
  /\ alloc' = [h \in Handles |-> New] /\ rel' = {} /\ rel_lost' = {}
  /\ cmds' = <<>> /\ asking' = FALSE /\ todo' = <<>> /\ batch' = <<>>
  /\ failed' = FALSE
  /\ UNCHANGED <<res, slot, exec, mapped, has_vram, unseen>>

WindowNext ==
  \/ \E h \in Handles : Create(h) \/ Destroy(h) \/ \E a \in Addrs \cup {Nowhere} : Move(h, a)
  \/ \E use \in Uses : Record(use)
  \/ CmdFlush \/ GetQueryData \/ TakeResult \/ AskAgain
  \/ Put \/ Flush \/ MachineReset

WindowSpec == WindowInit /\ [][WindowNext]_windowVars

-----------------------------------------------------------------------------
(* Properties                                                                *)

(* The values every variable takes; a batch is no longer than the window,    *)
(* whatever a submission holds, and the release queue no longer than its     *)
(* array.                                                                    *)
WindowTypeOK ==
  /\ alloc \in [Handles -> [life : {"new", "live", "gone"}, cur : Addrs \cup {Nowhere},
                            host : Addrs \cup {Nowhere}]]
  /\ rel \subseteq Handles /\ rel_lost \subseteq Handles /\ Cardinality(rel) <= MaxRel
  /\ cmds \in Seq(Uses) /\ Len(cmds) <= MaxCmds
  /\ asking \in BOOLEAN /\ res \in Answers /\ slot \in Answers
  /\ todo \in Seq(Records) /\ batch \in Seq(Records) /\ Len(batch) <= MaxBatch
  /\ exec \in {"up", "gone"} /\ mapped \in BOOLEAN /\ has_vram \in BOOLEAN
  /\ DOMAIN surfs \subseteq Handles /\ Range(surfs) \subseteq Addrs
  /\ unseen \subseteq Addrs /\ failed \in BOOLEAN

(* What is on its way to the host was recorded against the place it has now: *)
(* an allocation in VRAM is where the host was told last. And between        *)
(* submissions the host knows exactly the allocations the driver registered  *)
(* and did not release, each where the driver thinks the host has it. Both   *)
(* over moves, evictions, window-full flushes, destructions in the middle of *)
(* a submission and restarts. The second has the code's two exceptions:      *)
(* after a batch the host refused nothing is said (host_addr is set when the *)
(* record is written, not when it ran: d3d_register), and an allocation of a *)
(* format the host does not mirror is registered all the same and never      *)
(* known (exec_ddi's "not mirrored").                                        *)
HostAgrees ==
  /\ \A r \in Range(todo) \cup Range(batch) :
       r \in Uses => alloc[r.h].cur \in {Nowhere, alloc[r.h].host}
  /\ Idle /\ exec = "up" /\ ~failed
     => LET known == {h \in Mirrored : /\ alloc[h].host # Nowhere
                                       /\ h \in Live \cup rel \cup rel_lost}
        IN  surfs = [h \in known |-> alloc[h].host]

(* Every byte the executor wrote into the guest's VRAM reaches the scanout's *)
(* dirty log, however many ranges a batch had, unless the process died in    *)
(* that batch (cb_vram_dirty: "never a byte it does not see").               *)
NothingUnseen == exec = "up" => unseen = {}

(* While the executor is there and answers, what the user-mode driver takes  *)
(* for a query's result is that query's ("copied into VRAM at `dst` ... once *)
(* the host ran it", wddm/d3dpt_wddm.h:107-109).                             *)
AnswerIsOwn ==
  [][TakeResult /\ res.hr = "ok" /\ exec = "up" /\ mapped => res.own]_windowVars
=============================================================================
