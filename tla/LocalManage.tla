---------------------------- MODULE LocalManage ----------------------------
(***************************************************************************)
(* The start of a node: the local management thread (local_mange.c) reads  *)
(* the file reg_info, translates it into NMAC messages and writes them to  *)
(* its transmit queue; the scheduler, once it runs, hands them in order to *)
(* the switch, whose nmac_parse_module writes the words into its tables.   *)
(* The last message sets cfg_finish to 3, with which the input ports let   *)
(* every packet in (gmii_read.v).                                          *)
(*                                                                         *)
(* An address of the switch is a page, which selects the table, and an     *)
(* offset: bits 26:20 and 18:0 of the address word.  A line of the file is a *)
(* key and a value, the digits and the separators are left out.            *)
(*                                                                         *)
(* The thread never waits and nobody reads its queue before the scheduler  *)
(* starts, so a build_..._info_ge is one step.  That the scheduler starts  *)
(* after the thread is done is what the two sleeps of main are for         *)
(* (main.c:52-58); nothing else makes it wait.                             *)
(***************************************************************************)
EXTENDS Integers, Sequences, SequencesExt, FiniteSetsExt

CONSTANTS
    Config,     \* the configurations that reg_info may hold
    Ports,      \* GATE_PORT_NUM
    MaxDepth,   \* GATE_PORT_DEPTH
    Batch,      \* the words of a full message, 24 in the code
    TxCap       \* the capacity of the transmit queue

Port == 0 .. Ports - 1

\* The registers in the order of their messages, and their addresses.
RegisterOrder ==
    << "port_type", "qbv_or_qch", "slot_length", "inject_slot_period",
       "submit_slot_period", "report_type", "report_en", "report_period",
       "rc_regulation_value", "be_regulation_value", "unmap_regulation_value" >>
RegisterAddr ==
    [ slot_length |-> 2, port_type |-> 4, qbv_or_qch |-> 5, report_type |-> 6,
      report_en |-> 7, inject_slot_period |-> 8, submit_slot_period |-> 9,
      report_period |-> 10, rc_regulation_value |-> 12,
      be_regulation_value |-> 13, unmap_regulation_value |-> 14 ]

\* The pages, and the address of cfg_finish.
RegisterPage == 0
InjectPage == 1
SubmitPage == 2
GatePage(p) == 3 + p
ForwardPage == 12
CfgFinish == <<RegisterPage, 3>>

Section == {"register", "forward_info", "inject_time_table", "submit_time_table", "gate_out"}

(* A configuration: the registers that the file gives, in their order there, *)
(* the lists, one gate list of the same depth for each port, the order of    *)
(* the sections, and a section that no version of the parser knows, or none. *)
(*                                                                           *)
(* The depth is a power of two up to 1024 (local_mange.h:155-157).  The last *)
(* message of a gate list is right for all of these: none is a multiple of   *)
(* 24, and none is one less than a multiple.                                 *)
(*                                                                           *)
(* There are 8 ports (GATE_PORT_NUM); with up to 9 the page of the last gate *)
(* list is below ForwardPage.                                                *)
ForwardEntry == [id : Nat, outport : Nat]
TimeEntry == [valid : {0, 1}, slot : 0 .. 1023, addr : 0 .. 31]

ASSUME LoaderAssumption ==
    /\ Ports \in 1 .. 9 /\ MaxDepth \in Nat /\ TxCap \in Nat \ {0} /\ Batch \in Nat \ {0, 1}
    /\ \A c \in Config :
        /\ c.given \in Seq(DOMAIN RegisterAddr) /\ c.reg \in [ToSet(c.given) -> Nat]
        /\ c.forward \in Seq(ForwardEntry)
        /\ c.inject \in Seq(TimeEntry) /\ c.submit \in Seq(TimeEntry)
        /\ c.depth \in 1 .. MaxDepth /\ c.depth % Batch \notin {0, Batch - 1}
        /\ c.gate \in [Port -> Seq(Nat)] /\ \A p \in Port : Len(c.gate[p]) = c.depth
        /\ c.order \in Seq(Section) /\ Len(c.order) = 5 /\ IsInjective(c.order)
        /\ c.unknown \in BOOLEAN

VARIABLES
    config,     \* what reg_info says
    rest,       \* the lines of reg_info that fgets has not returned
    flow_flag,  \* the section the parser is in
    tmp_depth,
    chip,       \* struct chip_cfg_info
    loader,     \* the call that hx_local_mange makes next
    txq,        \* local_mange_context.txq
    full,       \* a message has found txq full and was freed (history)
    table,      \* the words written in the switch, by address
    lost        \* the parser of the switch has taken a packet for the rest of another

vars == <<config, rest, flow_flag, tmp_depth, chip, loader, txq, full, table, lost>>

Line(k, v) == [key |-> k, val |-> v]

\* The lines of a section, and the file.
Lines(c, s) ==
    CASE s = "register" -> [i \in 1 .. Len(c.given) |-> Line(c.given[i], c.reg[c.given[i]])]
      [] s = "forward_info" -> [i \in 1 .. Len(c.forward) |-> Line("entry", c.forward[i])]
      [] s = "inject_time_table" -> [i \in 1 .. Len(c.inject) |-> Line("entry", c.inject[i])]
      [] s = "submit_time_table" -> [i \in 1 .. Len(c.submit) |-> Line("entry", c.submit[i])]
      [] s = "gate_out" ->
            <<Line("depth", c.depth)>> \o
                [i \in 1 .. Ports |-> Line("gate_out", [port |-> i - 1, words |-> c.gate[i - 1]])]
      [] OTHER -> <<Line("depth", 0)>>
Bracketed(c, s) == <<Line("{", 0), Line("type", s)>> \o Lines(c, s) \o <<Line("}", 0)>>
File(c) ==
    FlattenSeq([i \in 1 .. Len(c.order) |-> Bracketed(c, c.order[i])])
        \o IF c.unknown THEN Bracketed(c, "gate_in") ELSE <<>>

Init ==
    /\ config \in Config
    /\ rest = File(config) /\ flow_flag = "no_flow" /\ tmp_depth = 0
    /\ chip = [ reg |-> [r \in DOMAIN RegisterAddr |-> 0],
                forward |-> <<>>, inject |-> <<>>, submit |-> <<>>, depth |-> 0,
                gate_out |-> [p \in Port |-> [i \in 1 .. MaxDepth |-> 0]] ]
    /\ loader = "get_cfg_info_local"
    /\ txq = <<>> /\ full = FALSE
    /\ table = [a \in {CfgFinish} |-> 1] /\ lost = FALSE

-----------------------------------------------------------------------------
(* get_cfg_info_local: one action per section, each reads one line           *)

ThisLine == Head(rest)

ReadIn(flag) ==
    /\ loader = "get_cfg_info_local" /\ rest # <<>>
    /\ flow_flag = flag
    /\ rest' = Tail(rest)
    /\ UNCHANGED <<config, loader, txq, full, table, lost>>

Outside ==
    /\ ReadIn("no_flow")
    /\ flow_flag' = IF ThisLine.key = "{" THEN "new_flow" ELSE "no_flow"
    /\ UNCHANGED <<tmp_depth, chip>>

TypeLine ==
    /\ ReadIn("new_flow")
    /\ flow_flag' =
        IF ThisLine.key = "type" /\ ThisLine.val \in Section THEN ThisLine.val ELSE "no_flow"
    /\ UNCHANGED <<tmp_depth, chip>>

\* A closing brace ends a section of any type.
EndSection ==
    /\ \E s \in Section : ReadIn(s)
    /\ ThisLine.key = "}"
    /\ flow_flag' = "no_flow"
    /\ UNCHANGED <<tmp_depth, chip>>

InSection(s) ==
    /\ ReadIn(s)
    /\ ThisLine.key # "}"
    /\ UNCHANGED flow_flag

RegisterLine ==
    /\ InSection("register")
    /\ chip' = IF ThisLine.key \in DOMAIN RegisterAddr
               THEN [chip EXCEPT !.reg[ThisLine.key] = ThisLine.val] ELSE chip
    /\ UNCHANGED tmp_depth

\* The new node is linked behind the tail.
ForwardLine ==
    /\ InSection("forward_info")
    /\ chip' = [chip EXCEPT !.forward = Append(@, ThisLine.val)]
    /\ UNCHANGED tmp_depth

\* The code never sets the next pointer of a new inject or submit node and walks the
\* lists until it is NULL: the nodes are taken to come from a fresh heap, zeroed.
InjectLine ==
    /\ InSection("inject_time_table")
    /\ chip' = [chip EXCEPT !.inject = Append(@, ThisLine.val)]
    /\ UNCHANGED tmp_depth

SubmitLine ==
    /\ InSection("submit_time_table")
    /\ chip' = [chip EXCEPT !.submit = Append(@, ThisLine.val)]
    /\ UNCHANGED tmp_depth

DepthLine ==
    /\ InSection("gate_out") /\ ThisLine.key = "depth"
    /\ tmp_depth' = ThisLine.val
    /\ chip' = [chip EXCEPT !.depth = ThisLine.val]

\* As many words as the depth line said; the rest of the array stays.
GateLine ==
    /\ InSection("gate_out") /\ ThisLine.key = "gate_out"
    /\ chip' = [chip EXCEPT !.gate_out[ThisLine.val.port] =
                    [i \in 1 .. MaxDepth |-> IF i <= tmp_depth THEN ThisLine.val.words[i] ELSE @[i]]]
    /\ UNCHANGED tmp_depth

EndOfFile ==
    /\ loader = "get_cfg_info_local" /\ rest = <<>>
    /\ loader' = "build_forward_info_ge"
    /\ UNCHANGED <<config, rest, flow_flag, tmp_depth, chip, txq, full, table, lost>>

GetCfgInfo ==
    \/ Outside \/ TypeLine \/ EndSection \/ RegisterLine \/ ForwardLine
    \/ InjectLine \/ SubmitLine \/ DepthLine \/ GateLine \/ EndOfFile

-----------------------------------------------------------------------------
(* The messages that the calls build                                         *)

Nmac(page, offset, count, words) ==
    [addr |-> <<page, offset>>, count |-> count, words |-> words]

\* The words of the k-th message of a table.  (Mutant: one more is stored than
\* counted.)
PartOver(words, k) == SubSeq(words, k * Batch + 1, Min({(k + 1) * Batch + 1, Len(words)}))
Part(words, k) == SubSeq(words, k * Batch + 1, Min({(k + 1) * Batch, Len(words)}))

\* build_forward_info_ge: a message for each run of consecutive ids, cut at
\* Batch words.  (Mutant: the run is not cut where an id is left out.)
RunUncut(i) == Min({Batch, Len(chip.forward) - i + 1})
Run(i) ==
    Max({n \in 1 .. Min({Batch, Len(chip.forward) - i + 1}) :
            \A k \in 1 .. n - 1 : chip.forward[i + k].id = chip.forward[i].id + k})
ForwardMessages ==
    LET Outports(i) == [k \in 1 .. Run(i) |-> chip.forward[i + k - 1].outport]
        From[i \in 1 .. Len(chip.forward) + 1] ==
            IF i > Len(chip.forward) THEN <<>>
            ELSE <<Nmac(ForwardPage, chip.forward[i].id, Run(i), Outports(i))>> \o From[i + Run(i)]
    IN  From[1]

\* build_gate_info_ge: the message behind the last full one is sent unless the
\* depth is one less than a multiple of Batch.
GateTail(depth) == IF (depth + 1) % Batch # 0 THEN 1 ELSE 0
GateMessages(p) ==
    LET words == SubSeq(chip.gate_out[p], 1, chip.depth)
        fulls == chip.depth \div Batch
    IN  [k \in 1 .. fulls + GateTail(chip.depth) |->
            Nmac(GatePage(p), (k - 1) * Batch,
                 IF k <= fulls THEN Batch ELSE chip.depth % Batch, Part(words, k - 1))]

\* build_inject_info_ge and build_submit_info_ge: valid, slot and address in a
\* word.  (Mutant: behind the last full message an empty one is sent.)
SlotWord(e) == e.valid * 32768 + e.slot * 32 + e.addr
SlotMessageCountOver(n) == n \div Batch + 1
SlotMessageCount(n) == (n + Batch - 1) \div Batch
SlotMessages(page, entries) ==
    LET words == [i \in 1 .. Len(entries) |-> SlotWord(entries[i])]
    IN  [k \in 1 .. SlotMessageCount(Len(entries)) |->
            Nmac(page, (k - 1) * Batch, Len(Part(words, k - 1)), Part(words, k - 1))]

\* build_register_info_ge and build_register_info
RegisterMessages ==
    [i \in 1 .. Len(RegisterOrder) |->
        LET r == RegisterOrder[i] IN Nmac(RegisterPage, RegisterAddr[r], 1, <<chip.reg[r]>>)]

\* hx_write_msg_quene_node: what finds the queue full is freed.
Write(messages) ==
    LET room == Min({Len(messages), TxCap - Len(txq)}) IN
    /\ txq' = txq \o SubSeq(messages, 1, room)
    /\ full' = (full \/ room < Len(messages))
    /\ UNCHANGED <<config, rest, flow_flag, tmp_depth, chip, table, lost>>

Call(this, following, messages) ==
    loader = this /\ loader' = following /\ Write(messages)

BuildForward == Call("build_forward_info_ge", "build_gate_info_ge", ForwardMessages)
BuildGate ==
    Call("build_gate_info_ge", "build_register_info_ge",
         FlattenSeq([i \in 1 .. Ports |-> GateMessages(i - 1)]))
BuildRegister == Call("build_register_info_ge", "build_inject_info_ge", RegisterMessages)
BuildInject ==
    Call("build_inject_info_ge", "build_submit_info_ge", SlotMessages(InjectPage, chip.inject))
BuildSubmit ==
    Call("build_submit_info_ge", "send_cfg_finish_pkt", SlotMessages(SubmitPage, chip.submit))
SendCfgFinish == Call("send_cfg_finish_pkt", "pause", <<Nmac(RegisterPage, 3, 1, <<3>>)>>)

Loader ==
    \/ GetCfgInfo \/ BuildForward \/ BuildGate \/ BuildRegister
    \/ BuildInject \/ BuildSubmit \/ SendCfgFinish

-----------------------------------------------------------------------------
(* The switch: nmac_parse_module takes count words from the packet.  It never  *)
(* looks for the end of the packet before it has them, so a count of zero, or  *)
(* one that the packet cannot hold, makes it read on in the next packets.      *)
Written(m) == {<<m.addr[1], m.addr[2] + k>> : k \in 0 .. m.count - 1}
NmacParse ==
    /\ loader = "pause" /\ txq # <<>>
    /\ LET m == Head(txq) IN
        /\ lost' = (lost \/ m.count \notin 1 .. Len(m.words))
        /\ table' =
            IF lost' THEN table
            ELSE [a \in Written(m) \cup DOMAIN table |->
                    IF a \in Written(m) THEN m.words[a[2] - m.addr[2] + 1] ELSE table[a]]
    /\ txq' = Tail(txq)
    /\ UNCHANGED <<config, rest, flow_flag, tmp_depth, chip, loader, full>>

Next == Loader \/ NmacParse

Spec == Init /\ [][Next]_vars
FairSpec == Spec /\ WF_vars(Loader) /\ WF_vars(NmacParse)

-----------------------------------------------------------------------------
(* What the file means, and the properties                                   *)

\* The word that the file gives the address, as the user of each table reads it:
\* the outport of the id (in the end that of its last entry), the gates of a port
\* at a slot, the fields of a slot entry.
Opened == table[CfgFinish] = 3

SlotEntry(w) == [valid |-> w \div 32768, slot |-> (w \div 32) % 1024, addr |-> w % 32]

ForwardMeant(id, w) ==
    LET of == {i \in 1 .. Len(config.forward) : config.forward[i].id = id}
    IN  \E i \in of : w = config.forward[i].outport /\ (Opened => i = Max(of))
Meant(a, w) ==
    \/ a = CfgFinish /\ w \in {1, 3}
    \/ a[1] = ForwardPage /\ ForwardMeant(a[2], w)
    \/ a[1] = InjectPage /\ a[2] < Len(config.inject) /\ SlotEntry(w) = config.inject[a[2] + 1]
    \/ a[1] = SubmitPage /\ a[2] < Len(config.submit) /\ SlotEntry(w) = config.submit[a[2] + 1]
    \/ \E r \in DOMAIN RegisterAddr :
            a = <<RegisterPage, RegisterAddr[r]>>
                /\ w = IF r \in DOMAIN config.reg THEN config.reg[r] ELSE 0
    \/ \E p \in Port :
            a[1] = GatePage(p) /\ a[2] < config.depth /\ w = config.gate[p][a[2] + 1]
Addresses ==
    {<<RegisterPage, RegisterAddr[r]>> : r \in DOMAIN RegisterAddr}
    \cup {<<ForwardPage, config.forward[i].id>> : i \in 1 .. Len(config.forward)}
    \cup {<<InjectPage, k>> : k \in 0 .. Len(config.inject) - 1}
    \cup {<<SubmitPage, k>> : k \in 0 .. Len(config.submit) - 1}
    \cup {<<GatePage(p), k>> : p \in Port, k \in 0 .. config.depth - 1}

\* The types; no message is built longer than its buffer, the queue not past its end.
TypeOK ==
    /\ flow_flag \in Section \cup {"no_flow", "new_flow"}
    /\ tmp_depth = chip.depth /\ chip.depth \in 0 .. MaxDepth
    /\ Len(txq) <= TxCap
    /\ \A i \in 1 .. Len(txq) : Len(txq[i].words) <= Batch /\ txq[i].count \in 0 .. Batch
    /\ full \in BOOLEAN /\ lost \in BOOLEAN

\* Whatever the order of the sections, the gaps in the ids and the lengths of the
\* lists, and even when the transmit queue overflows: no word of the switch is
\* ever another than the file's, and when the ports open every word is there.
\* (The messages that overflow are the last ones, cfg_finish among them: the
\* switch then stays shut.)
OpensConfigured ==
    /\ \A a \in DOMAIN table : Meant(a, table[a])
    /\ Opened => Addresses \subseteq DOMAIN table

\* A file whose messages fit in the queue opens the switch: no message before
\* cfg_finish has a count with which the parser would read on past its packet.
Opens == <>(Opened \/ full)
=============================================================================
