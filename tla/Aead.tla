-------------------------------- MODULE Aead --------------------------------
(***************************************************************************)
(* bm_aead_run() of lib/src/aead.c: the program feeds the AEAD core the    *)
(* blocks of the additional data, then those of the payload, through its   *)
(* input FIFO, and takes the result from its output FIFO, while the core   *)
(* works.  FIFO_STATUS is read first and acted on later.  The core is      *)
(* external: it works off one block after the other, those of the payload  *)
(* only when there is room for their result, and its tag covers what it    *)
(* has worked off.                                                         *)
(***************************************************************************)
EXTENDS Integers, Sequences

CONSTANTS Depth,            \* blocks that a FIFO holds
          AdSizes,          \* sizes of commands, in blocks
          PayloadSizes

VARIABLES
    stage,      \* the next step of bm_aead_run()
    num,        \* blocks of the additional data and of the payload
    part,       \* which of them aead_data_in_out() works on
    written,    \* blocks_written_in
    read,       \* blocks_read_out
    ready,      \* blocks_ready
    data_out, tag,              \* the command's results
    input, output, absorbed     \* the core: its FIFOs, what it has worked off

results == <<data_out, tag>>
core == <<input, output, absorbed>>
vars == <<stage, num, part, written, read, ready, results, core>>

Parts == {"ad", "payload"}
Blocks(p) == [i \in 1 .. num[p] |-> <<p, i>>]
Least(a, b) == IF a < b THEN a ELSE b

Init ==
    /\ stage = "idle"
    /\ num = [p \in Parts |-> 0] /\ part = "ad"
    /\ written = 0 /\ read = 0 /\ ready = 0
    /\ data_out = <<>> /\ tag = <<>>
    /\ input = <<>> /\ output = <<>> /\ absorbed = <<>>

\* bm_aead_run(), up to COMMAND_CONFIG_SET.
Run ==
    /\ stage = "idle"
    /\ num' \in [Parts -> AdSizes \cup PayloadSizes]
    /\ num'["ad"] \in AdSizes /\ num'["payload"] \in PayloadSizes
    /\ part' = "ad" /\ stage' = "loop" /\ written' = 0 /\ read' = 0
    /\ data_out' = <<>> /\ tag' = <<>>
    /\ absorbed' = <<>>
    /\ UNCHANGED <<ready, input, output>>

\* Mutant: the loop ends when all blocks have been written.
Done_AllWritten == written = num[part]

\* The condition of the loop of aead_data_in_out(), which has no data_out for the
\* additional data.
Done == IF part = "payload" THEN read = num[part] ELSE written = num[part]

Goto(from, to) == stage = from /\ stage' = to /\ UNCHANGED <<num, part>>

\* How many blocks the input FIFO takes, read from FIFO_STATUS.
InputStatus ==
    /\ ~ Done
    /\ Goto("loop", "write")
    /\ ready' = Least(Depth - Len(input), num[part] - written)
    /\ UNCHANGED <<written, read, results, core>>

WriteBlock ==
    /\ ready > 0
    /\ Goto("write", "write")
    /\ ready' = ready - 1
    /\ written' = written + 1
    /\ input' = Append(input, <<part, written + 1>>)
    /\ UNCHANGED <<read, results, output, absorbed>>

\* Mutant: the results are taken when all blocks have been written.
OutputStatus_Last ==
    /\ ready = 0
    /\ IF part = "payload" /\ written = num[part]
       THEN /\ Goto("write", "read")
            /\ ready' = Least(Len(output), num[part] - read)
       ELSE Goto("write", "loop") /\ UNCHANGED ready
    /\ UNCHANGED <<written, read, results, core>>

\* How many results there are, read from FIFO_STATUS.
OutputStatus ==
    /\ ready = 0
    /\ IF part = "payload"
       THEN /\ Goto("write", "read")
            /\ ready' = Least(Len(output), num[part] - read)
       ELSE Goto("write", "loop") /\ UNCHANGED ready
    /\ UNCHANGED <<written, read, results, core>>

ReadBlock ==
    /\ ready > 0
    /\ Goto("read", "read")
    /\ ready' = ready - 1
    /\ read' = read + 1
    /\ data_out' = Append(data_out, Head(output))
    /\ output' = Tail(output)
    /\ UNCHANGED <<written, tag, input, absorbed>>

Repeat ==
    /\ ready = 0
    /\ Goto("read", "loop")
    /\ UNCHANGED <<written, read, ready, results, core>>

\* The second call of aead_data_in_out().
NextPart ==
    /\ Done /\ stage = "loop" /\ part = "ad"
    /\ part' = "payload" /\ written' = 0 /\ read' = 0
    /\ UNCHANGED <<stage, num, ready, results, core>>

\* The tag is read, and COMMAND_FINALIZE resets the core.
Finalize ==
    /\ Done /\ part = "payload"
    /\ Goto("loop", "idle")
    /\ tag' = absorbed
    /\ input' = <<>> /\ output' = <<>> /\ absorbed' = <<>>
    /\ UNCHANGED <<written, read, ready, data_out>>

\* The core works off a block.
Absorb ==
    /\ input # <<>>
    /\ LET block == Head(input)
       IN /\ input' = Tail(input)
          /\ absorbed' = Append(absorbed, block)
          /\ IF block[1] = "payload"
             THEN Len(output) < Depth /\ output' = Append(output, block)
             ELSE UNCHANGED output
    /\ UNCHANGED <<stage, num, part, written, read, ready, results>>

\* bm_aead_run() once it is called.
Driver == InputStatus \/ WriteBlock \/ OutputStatus \/ ReadBlock \/ Repeat
             \/ NextPart \/ Finalize

Next == Run \/ Driver \/ Absorb

FairSpec == Init /\ [][Next]_vars /\ WF_vars(Driver) /\ WF_vars(Absorb)
-----------------------------------------------------------------------------
\* The FIFOs never overflow, and bm_aead_run() returns all blocks of the result in
\* their order and the tag of the whole command, though the core works at its own
\* speed between the reads of FIFO_STATUS and what the driver does about them.
CommandIsExact ==
    /\ Len(input) <= Depth /\ Len(output) <= Depth
    /\ stage = "idle" => data_out = Blocks("payload")
                         /\ tag = Blocks("ad") \o Blocks("payload")

\* bm_aead_run() returns, whatever the sizes: the driver does not wait for room in
\* the input FIFO while the core waits for room in the output FIFO.
RunReturns == []<>(stage = "idle")
=============================================================================
