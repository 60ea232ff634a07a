--------------------------- MODULE FreeBufidFifo ---------------------------
(***************************************************************************)
(* SFIFO_9_512, the FIFO of free buffer ids between address_write (which   *)
(* stores released ids) and address_read (which hands ids to the ports).   *)
(* It is built on an asynchronous FIFO whose pointers cross two            *)
(* synchronizer stages, so a stored id reaches the read side's rdempty and *)
(* rdusedw some cycles later: visible counts the ids the read side sees.   *)
(***************************************************************************)
EXTENDS Naturals, Sequences

CONSTANTS
    NumPorts,   \* input/output ports of pkt_centralized_buffer (9 in the RTL)
    NumBufids,  \* buffers of the packet memory (512 in the RTL)
    NoBufid     \* "no id": an id register whose write strobe is low

ASSUME NumPortsAssumption  == NumPorts \in Nat /\ NumPorts >= 2
ASSUME NumBufidsAssumption == NumBufids \in Nat /\ NumBufids > NumPorts

Ports  == 0 .. NumPorts - 1
Bufids == 0 .. NumBufids - 1

ASSUME NoBufidAssumption == NoBufid \notin Bufids

NextPort(p) == IF p = NumPorts - 1 THEN 0 ELSE p + 1
PrevPort(p) == IF p = 0 THEN NumPorts - 1 ELSE p - 1

VARIABLES
    fifo,        \* the ids stored, oldest first
    visible,     \* rdusedw: how many of them the read side knows of
    iv_pkt_bufid \* q as the reader samples it the cycle after rdreq

fifoVars == <<fifo, visible, iv_pkt_bufid>>

FifoTypeOK ==
    /\ fifo \in Seq(Bufids)
    /\ visible \in 0 .. Len(fifo)
    /\ iv_pkt_bufid \in Bufids \cup {NoBufid}

FifoInit == fifo = <<>> /\ visible = 0 /\ iv_pkt_bufid = NoBufid

Empty == visible = 0              \* rdempty
Full  == Len(fifo) = NumBufids    \* wrfull

(* wrreq with data id: dropped when the FIFO is full (we_n = push_full).   *)
StoreBufid(id) ==
    /\ fifo' = IF Full THEN fifo ELSE Append(fifo, id)
    /\ UNCHANGED <<visible, iv_pkt_bufid>>

(* rdreq: the word leaves the FIFO and is on q in the next cycle.          *)
FetchBufid ==
    IF Empty
      THEN UNCHANGED fifoVars
      ELSE /\ iv_pkt_bufid' = Head(fifo)
           /\ fifo' = Tail(fifo)
           /\ visible' = visible - 1

(* The push pointer reaches the read side through the synchronizer.        *)
SyncPushPointer ==
    /\ visible < Len(fifo)
    /\ visible' \in visible + 1 .. Len(fifo)
    /\ UNCHANGED <<fifo, iv_pkt_bufid>>
============================================================================
