---------------------------- MODULE DevicesProof ----------------------------
(***************************************************************************)
(* The drivers that work with something that has a state of its own, for   *)
(* any sizes: what the AEAD driver returns, what the file calls reach on   *)
(* the host, what the flash holds after a call and after a failure, what a *)
(* transfer of the SD card moves, on any card exchanged at any time, and   *)
(* what is read from counters that run.                                    *)
(*                                                                         *)
(* bm_counter_read() returns a value the counter had during the call, for  *)
(* counters of any width.  The argument: low was read at a moment between  *)
(* the two reads of the high word.  The high word never decreases while    *)
(* the counter counts, so if it was the same at both reads it had that     *)
(* value at that moment too, and <<high, low>> was the counter then.       *)
(*                                                                         *)
(* bm_hpmcounter_read() returns how often an event came, for any number of *)
(* events and counters.  The argument: no two counters are of one event,   *)
(* the event CSR of a counter is what the table says, and a counter        *)
(* nobody uses is never inhibited, so who claims it next starts afresh.    *)
(***************************************************************************)
EXTENDS MCDevices, TLAPS
-----------------------------------------------------------------------------
(* bm_aead_run(): the inductive invariant *)

NumAd == num["ad"]
NumPayload == num["payload"]

\* The blocks of the command, one after the other.
Block(i) == IF i <= NumAd THEN <<"ad", i>> ELSE <<"payload", i - NumAd>>

BlockType == A!Parts \X Nat

AeadTypes ==
    /\ stage \in {"idle", "loop", "write", "read"}
    /\ num \in [A!Parts -> Nat]
    /\ stage # "idle" => num["payload"] \in PayloadSizes
    /\ part \in A!Parts
    /\ written \in Nat /\ read \in Nat /\ ready \in Nat
    /\ input \in Seq(BlockType) /\ output \in Seq(BlockType)
    /\ data_out \in Seq(BlockType) /\ absorbed \in Seq(BlockType)

\* How many blocks the core has been given, and how many of their results there are.
Sent == IF part = "ad" THEN written ELSE NumAd + written
Produced == IF Len(absorbed) < NumAd THEN 0 ELSE Len(absorbed) - NumAd

\* The blocks are in the core, in their order ...
InOrder ==
    /\ Len(absorbed) + Len(input) = Sent
    /\ \A i \in 1 .. Len(absorbed) : absorbed[i] = Block(i)
    /\ \A i \in 1 .. Len(input) : input[i] = Block(Len(absorbed) + i)

\* ... and the results are in the output FIFO or with the program.
OutInOrder ==
    /\ Len(data_out) = read
    /\ read + Len(output) = Produced
    /\ \A i \in 1 .. read : data_out[i] = <<"payload", i>>
    /\ \A i \in 1 .. Len(output) : output[i] = <<"payload", read + i>>

\* What FIFO_STATUS said is still true, though the core has gone on.
StatusHolds ==
    /\ Len(input) <= Depth /\ Len(output) <= Depth
    /\ written <= num[part]
    /\ stage = "write" => Len(input) + ready <= Depth /\ written + ready <= num[part]
    /\ stage = "read" => part = "payload" /\ ready <= Len(output)
    /\ part = "ad" => read = 0

AeadInv ==
    /\ AeadTypes
    /\ stage # "idle" => InOrder /\ OutInOrder /\ StatusHolds
    /\ stage = "idle" => /\ input = <<>> /\ output = <<>> /\ absorbed = <<>>
                         /\ data_out = A!Blocks("payload")
                         /\ tag = A!Blocks("ad") \o A!Blocks("payload")
-----------------------------------------------------------------------------
(* queues *)

LEMMA SameSeq ==
  ASSUME NEW B, NEW s \in Seq(B), NEW t \in Seq(B), Len(s) = Len(t),
         \A i \in 1 .. Len(s) : s[i] = t[i]
  PROVE  s = t
OBVIOUS

LEMMA Push ==
  ASSUME NEW B, NEW s \in Seq(B), NEW e \in B
  PROVE  /\ Append(s, e) \in Seq(B) /\ Len(Append(s, e)) = Len(s) + 1
         /\ Append(s, e)[Len(s) + 1] = e
         /\ \A i \in 1 .. Len(s) : Append(s, e)[i] = s[i]
OBVIOUS

LEMMA Pop ==
  ASSUME NEW B, NEW s \in Seq(B), s # <<>>
  PROVE  /\ Tail(s) \in Seq(B) /\ Head(s) \in B /\ Head(s) = s[1]
         /\ Len(s) \in Nat /\ Len(s) >= 1 /\ Len(Tail(s)) = Len(s) - 1
         /\ \A i \in 1 .. Len(s) - 1 : Tail(s)[i] = s[i + 1]
OBVIOUS
LEMMA Concat ==
  ASSUME NEW B, NEW s \in Seq(B), NEW t \in Seq(B)
  PROVE  /\ s \o t \in Seq(B) /\ Len(s \o t) = Len(s) + Len(t)
         /\ \A i \in 1 .. Len(s) : (s \o t)[i] = s[i]
         /\ \A i \in Len(s) + 1 .. Len(s) + Len(t) : (s \o t)[i] = t[i - Len(s)]
OBVIOUS
-----------------------------------------------------------------------------
(* bm_aead_run(): the steps *)

\* The blocks of the additional data, then those of the payload.
LEMMA StreamIs ==
  ASSUME num \in [A!Parts -> Nat]
  PROVE  LET both == A!Blocks("ad") \o A!Blocks("payload")
         IN  /\ both \in Seq(BlockType) /\ Len(both) = NumAd + NumPayload
             /\ \A i \in 1 .. NumAd + NumPayload : both[i] = Block(i)
<1> DEFINE a == A!Blocks("ad")
           b == A!Blocks("payload")
<1>1. NumAd \in Nat /\ NumPayload \in Nat
  BY DEF NumAd, NumPayload, A!Parts
<1>2. \A i \in 1 .. NumAd : <<"ad", i>> \in BlockType
  BY <1>1 DEF BlockType, A!Parts
<1>3. \A i \in 1 .. NumPayload : <<"payload", i>> \in BlockType
  BY <1>1 DEF BlockType, A!Parts
<1>4. a \in Seq(BlockType) /\ Len(a) = NumAd /\ \A i \in 1 .. NumAd : a[i] = <<"ad", i>>
  BY <1>1, <1>2 DEF A!Blocks, NumAd
<1>5. /\ b \in Seq(BlockType) /\ Len(b) = NumPayload
      /\ \A i \in 1 .. NumPayload : b[i] = <<"payload", i>>
  BY <1>1, <1>3 DEF A!Blocks, NumPayload
<1> HIDE DEF a, b
<1>6. a \o b \in Seq(BlockType) /\ Len(a \o b) = NumAd + NumPayload
  BY <1>4, <1>5, Concat
<1>7. ASSUME NEW i \in 1 .. NumAd + NumPayload PROVE (a \o b)[i] = Block(i)
  <2>1. CASE i <= NumAd
    <3>1. i \in 1 .. NumAd /\ (a \o b)[i] = a[i]
      BY <1>1, <1>4, <1>5, <2>1, Concat
    <3> QED  BY <1>4, <2>1, <3>1 DEF Block
  <2>2. CASE ~ (i <= NumAd)
    <3>1. i \in NumAd + 1 .. NumAd + NumPayload /\ i - NumAd \in 1 .. NumPayload
      BY <1>1, <2>2
    <3>2. (a \o b)[i] = b[i - NumAd]
      BY <1>4, <1>5, <3>1, Concat
    <3> QED  BY <1>1, <1>5, <2>2, <3>1, <3>2 DEF Block
  <2> QED  BY <2>1, <2>2
<1> QED  BY <1>6, <1>7 DEF a, b

LEMMA AeadInit ==
  ASSUME A!Init
  PROVE  AeadInv
<1> USE DEF A!Init
<1>1. AeadTypes
  BY DEF AeadTypes, A!Parts
<1>2. NumAd = 0 /\ NumPayload = 0
  BY DEF NumAd, NumPayload, A!Parts
<1>3. A!Blocks("payload") = <<>> /\ A!Blocks("ad") = <<>>
  BY <1>2 DEF A!Blocks, NumAd, NumPayload
<1> QED  BY <1>1, <1>3 DEF AeadInv

\* What an invariant state looks like while a command is worked on.
LEMMA AeadRunning ==
  ASSUME AeadInv, stage # "idle"
  PROVE  /\ AeadTypes /\ InOrder /\ OutInOrder /\ StatusHolds
         /\ NumAd \in Nat /\ NumPayload \in Nat /\ num[part] \in Nat
         /\ part = "ad" => num[part] = NumAd
         /\ part # "ad" => part = "payload" /\ num[part] = NumPayload
         /\ Len(input) \in Nat /\ Len(output) \in Nat /\ Len(absorbed) \in Nat
         /\ written \in Nat /\ read \in Nat /\ ready \in Nat
BY DEF AeadInv, AeadTypes, NumAd, NumPayload, A!Parts

LEMMA AeadRun ==
  ASSUME AeadInv, A!Run
  PROVE  AeadInv'
<1> USE DEF A!Run
<1>1. input = <<>> /\ output = <<>> /\ AeadTypes
  BY DEF AeadInv
<1>2. num' \in [A!Parts -> Nat]
  BY AeadAssumption
<1>3. AeadTypes'
  BY <1>1, <1>2 DEF AeadTypes, A!Parts
<1>4. NumAd' \in Nat /\ num'["ad"] \in Nat
  BY <1>2 DEF NumAd, A!Parts
<1>5. InOrder'
  BY <1>1, <1>4 DEF InOrder, Sent
<1>6. OutInOrder'
  <2>1. Len(absorbed') = 0
    OBVIOUS
  <2>2. Produced' = 0
    <3> HIDE DEF A!Run
    <3>1. CASE Len(absorbed') < NumAd'
      BY <3>1 DEF Produced
    <3>2. CASE ~ (Len(absorbed') < NumAd')
      <4>1. NumAd' = 0
        BY <1>4, <2>1, <3>2
      <4> QED  BY <2>1, <3>2, <4>1 DEF Produced
    <3> QED  BY <3>1, <3>2
  <2> QED  BY <1>1, <2>2 DEF OutInOrder
<1>7. StatusHolds'
  BY <1>1, <1>4, AeadAssumption DEF StatusHolds
<1> QED  BY <1>3, <1>5, <1>6, <1>7 DEF AeadInv

\* The driver reads FIFO_STATUS, or goes on with the loop or with the payload.
LEMMA AeadLook ==
  ASSUME AeadInv, A!InputStatus \/ A!OutputStatus \/ A!Repeat \/ A!NextPart
  PROVE  AeadInv'
<1>1. stage # "idle" /\ stage' # "idle"
  BY DEF A!InputStatus, A!OutputStatus, A!Repeat, A!NextPart, A!Goto
<1>2. /\ AeadTypes /\ InOrder /\ OutInOrder /\ StatusHolds
      /\ NumAd \in Nat /\ NumPayload \in Nat /\ num[part] \in Nat
      /\ Len(input) \in Nat /\ Len(output) \in Nat /\ Len(absorbed) \in Nat
      /\ written \in Nat /\ read \in Nat /\ ready \in Nat
      /\ part = "ad" => num[part] = NumAd
      /\ part # "ad" => part = "payload" /\ num[part] = NumPayload
  BY <1>1, AeadRunning
<1>3. UNCHANGED <<num, data_out, tag, input, output, absorbed>>
  BY DEF A!InputStatus, A!OutputStatus, A!Repeat, A!NextPart, A!Goto, A!results, A!core
<1>4. UNCHANGED <<NumAd, Produced>> /\ \A i : Block(i)' = Block(i)
  BY <1>3 DEF NumAd, Produced, Block
<1>5. CASE A!InputStatus
  <2>1. /\ stage' = "write" /\ UNCHANGED <<part, written, read>>
        /\ ready' = A!Least(Depth - Len(input), num[part] - written)
    BY <1>5 DEF A!InputStatus, A!Goto
  <2>2. /\ ready' \in Nat /\ Len(input) + ready' <= Depth /\ written + ready' <= num[part]
    BY <1>2, <2>1, AeadAssumption DEF StatusHolds, A!Least
  <2>3. AeadTypes'
    BY <1>1, <1>2, <1>3, <2>1, <2>2 DEF AeadTypes
  <2>4. InOrder' /\ OutInOrder'
    BY <1>2, <1>3, <1>4, <2>1 DEF InOrder, OutInOrder, Sent
  <2>5. StatusHolds'
    BY <1>2, <1>3, <2>1, <2>2 DEF StatusHolds
  <2> QED  BY <1>1, <2>3, <2>4, <2>5 DEF AeadInv
<1>6. CASE A!OutputStatus
  <2>1. /\ UNCHANGED <<part, written, read>>
        /\ part # "payload" => stage' = "loop" /\ ready' = ready
        /\ part = "payload" => stage' = "read"
                               /\ ready' = A!Least(Len(output), num[part] - read)
    BY <1>6 DEF A!OutputStatus, A!Goto
  <2>2. ready' \in Nat /\ (part = "payload" => ready' <= Len(output))
    <3>1. CASE part = "payload"
      <4>1. Len(absorbed) <= NumAd + written /\ written <= num[part]
        BY <1>2, <3>1 DEF InOrder, Sent, StatusHolds
      <4>2. read + Len(output) <= written
        <5>1. CASE Len(absorbed) < NumAd
          BY <1>2, <5>1 DEF OutInOrder, Produced
        <5>2. CASE ~ (Len(absorbed) < NumAd)
          <6>1. read + Len(output) = Len(absorbed) - NumAd
            BY <1>2, <5>2 DEF OutInOrder, Produced
          <6> QED  BY <1>2, <4>1, <6>1
        <5> QED  BY <5>1, <5>2
      <4>3. num[part] - read >= Len(output)
        BY <1>2, <4>1, <4>2
      <4> QED  BY <1>2, <2>1, <3>1, <4>3 DEF A!Least
    <3> QED  BY <1>2, <2>1, <3>1
  <2>3. AeadTypes'
    BY <1>1, <1>2, <1>3, <2>1, <2>2 DEF AeadTypes
  <2>4. InOrder' /\ OutInOrder'
    BY <1>2, <1>3, <1>4, <2>1 DEF InOrder, OutInOrder, Sent
  <2>5. StatusHolds'
    BY <1>2, <1>3, <2>1, <2>2 DEF StatusHolds
  <2> QED  BY <1>1, <2>3, <2>4, <2>5 DEF AeadInv
<1>7. CASE A!Repeat
  <2>1. stage' = "loop" /\ UNCHANGED <<part, written, read, ready>>
    BY <1>7 DEF A!Repeat, A!Goto
  <2>2. AeadTypes'
    BY <1>1, <1>2, <1>3, <2>1 DEF AeadTypes
  <2>3. InOrder' /\ OutInOrder' /\ StatusHolds'
    BY <1>2, <1>3, <1>4, <2>1 DEF InOrder, OutInOrder, Sent, StatusHolds
  <2> QED  BY <1>1, <2>2, <2>3 DEF AeadInv
<1>8. CASE A!NextPart
  <2>1. /\ part = "ad" /\ part' = "payload" /\ written = num[part] /\ written' = 0
        /\ read' = 0 /\ stage' = stage /\ ready' = ready /\ stage = "loop"
    BY <1>8 DEF A!NextPart, A!Done
  <2>2. AeadTypes'
    BY <1>2, <1>3, <2>1 DEF AeadTypes, A!Parts
  <2>3. Sent' = Sent /\ read = 0
    BY <1>2, <1>4, <2>1 DEF Sent, StatusHolds
  <2>4. InOrder' /\ OutInOrder'
    BY <1>2, <1>3, <1>4, <2>1, <2>3 DEF InOrder, OutInOrder
  <2>5. StatusHolds'
    <3>1. num'["payload"] \in Nat
      BY <2>2 DEF AeadTypes, A!Parts
    <3> QED  BY <1>2, <1>3, <2>1, <3>1 DEF StatusHolds
  <2> QED  BY <1>1, <2>2, <2>4, <2>5 DEF AeadInv
<1> QED  BY <1>5, <1>6, <1>7, <1>8

\* A block is written to the input FIFO.
LEMMA AeadWrite ==
  ASSUME AeadInv, A!WriteBlock
  PROVE  AeadInv'
<1>1. stage = "write" /\ stage' = "write"
  BY DEF A!WriteBlock, A!Goto
<1>2. /\ AeadTypes /\ InOrder /\ OutInOrder /\ StatusHolds
      /\ NumAd \in Nat /\ NumPayload \in Nat /\ num[part] \in Nat
      /\ Len(input) \in Nat /\ Len(output) \in Nat /\ Len(absorbed) \in Nat
      /\ written \in Nat /\ read \in Nat /\ ready \in Nat
      /\ part = "ad" => num[part] = NumAd
      /\ part # "ad" => part = "payload" /\ num[part] = NumPayload
  BY <1>1, AeadRunning
<1>3. /\ UNCHANGED <<num, part, read, data_out, tag, output, absorbed>>
      /\ ready > 0 /\ ready' = ready - 1 /\ written' = written + 1
      /\ input' = Append(input, <<part, written + 1>>)
  BY DEF A!WriteBlock, A!Goto, A!results
<1>4. UNCHANGED <<NumAd, Produced>> /\ \A i : Block(i)' = Block(i)
  BY <1>3 DEF NumAd, Produced, Block
<1>5. written + 1 <= num[part] /\ Len(input) + ready <= Depth /\ written + ready <= num[part]
  BY <1>1, <1>2, <1>3 DEF StatusHolds
<1>6. <<part, written + 1>> \in BlockType
  BY <1>2 DEF BlockType, AeadTypes
<1>7. /\ input' \in Seq(BlockType) /\ Len(input') = Len(input) + 1
      /\ input'[Len(input) + 1] = <<part, written + 1>>
      /\ \A i \in 1 .. Len(input) : input'[i] = input[i]
  BY <1>2, <1>3, <1>6, Push DEF AeadTypes
<1>8. AeadTypes'
  BY <1>1, <1>2, <1>3, <1>7 DEF AeadTypes
<1>9. Sent \in Nat /\ Sent' = Sent + 1 /\ Block(Sent + 1) = <<part, written + 1>>
  <2>1. CASE part = "ad"
    BY <1>2, <1>3, <1>4, <1>5, <2>1 DEF Sent, Block
  <2>2. CASE part # "ad"
    <3>1. Sent = NumAd + written /\ Sent' = NumAd + (written + 1)
      BY <1>2, <1>3, <1>4, <2>2 DEF Sent
    <3>2. ~ (Sent + 1 <= NumAd) /\ (Sent + 1) - NumAd = written + 1
      BY <1>2, <3>1
    <3> QED  BY <1>2, <2>2, <3>1, <3>2 DEF Block
  <2> QED  BY <2>1, <2>2
<1>10. InOrder'
  <2>1. Len(absorbed) + Len(input) = Sent
    BY <1>2 DEF InOrder
  <2>2. ASSUME NEW i \in 1 .. Len(input') PROVE input'[i] = Block(Len(absorbed) + i)
    <3>1. CASE i = Len(input) + 1
      <4>1. Len(absorbed) + i = Sent + 1
        BY <1>2, <2>1, <3>1
      <4> QED  BY <1>7, <1>9, <3>1, <4>1
    <3>2. CASE i # Len(input) + 1
      <4>1. i \in 1 .. Len(input)
        BY <1>2, <1>7, <3>2
      <4> QED  BY <1>2, <1>7, <4>1 DEF InOrder
    <3> QED  BY <3>1, <3>2
  <2>3. Len(absorbed) + Len(input') = Sent'
    BY <1>2, <1>7, <1>9, <2>1
  <2> QED  BY <1>2, <1>3, <1>4, <2>2, <2>3 DEF InOrder
<1>11. OutInOrder'
  BY <1>2, <1>3, <1>4 DEF OutInOrder
<1>12. StatusHolds'
  <2>1. num'[part'] = num[part] /\ Len(output') = Len(output) /\ part' = part /\ read' = read
    BY <1>3
  <2>2. /\ Len(input') + ready' <= Depth /\ Len(input') <= Depth
        /\ written' + ready' <= num[part] /\ written' <= num[part]
    BY <1>2, <1>3, <1>5, <1>7, AeadAssumption
  <2> QED  BY <1>1, <1>2, <2>1, <2>2 DEF StatusHolds
<1> QED  BY <1>1, <1>8, <1>10, <1>11, <1>12 DEF AeadInv

\* A result is read from the output FIFO.
LEMMA AeadRead ==
  ASSUME AeadInv, A!ReadBlock
  PROVE  AeadInv'
<1>1. stage = "read" /\ stage' = "read"
  BY DEF A!ReadBlock, A!Goto
<1>2. /\ AeadTypes /\ InOrder /\ OutInOrder /\ StatusHolds
      /\ Len(input) \in Nat /\ Len(output) \in Nat /\ Len(absorbed) \in Nat
      /\ written \in Nat /\ read \in Nat /\ ready \in Nat
  BY <1>1, AeadRunning
<1>3. /\ UNCHANGED <<num, part, written, tag, input, absorbed>>
      /\ ready > 0 /\ ready' = ready - 1 /\ read' = read + 1
      /\ data_out' = Append(data_out, Head(output)) /\ output' = Tail(output)
  BY DEF A!ReadBlock, A!Goto
<1>4. UNCHANGED <<NumAd, Produced, Sent>> /\ \A i : Block(i)' = Block(i)
  BY <1>3 DEF NumAd, Produced, Sent, Block
<1>5. ready <= Len(output) /\ part = "payload"
  BY <1>1, <1>2 DEF StatusHolds
<1>6. output # <<>>
  BY <1>2, <1>3, <1>5
<1>7. /\ output' \in Seq(BlockType) /\ Head(output) \in BlockType /\ Head(output) = output[1]
      /\ Len(output) >= 1 /\ Len(output') = Len(output) - 1
      /\ \A i \in 1 .. Len(output) - 1 : output'[i] = output[i + 1]
  BY <1>2, <1>3, <1>6, Pop DEF AeadTypes
<1>8. /\ data_out' \in Seq(BlockType) /\ Len(data_out') = Len(data_out) + 1
      /\ data_out'[Len(data_out) + 1] = Head(output)
      /\ \A i \in 1 .. Len(data_out) : data_out'[i] = data_out[i]
  BY <1>2, <1>3, <1>7, Push DEF AeadTypes
<1>9. AeadTypes'
  BY <1>1, <1>2, <1>3, <1>7, <1>8 DEF AeadTypes
<1>10. InOrder'
  BY <1>2, <1>3, <1>4 DEF InOrder
<1>11. OutInOrder'
  <2>1. Len(data_out) = read /\ read + Len(output) = Produced
    BY <1>2 DEF OutInOrder
  <2>2. output[1] = <<"payload", read + 1>>
    BY <1>2, <1>7 DEF OutInOrder
  <2>3. ASSUME NEW i \in 1 .. read' PROVE data_out'[i] = <<"payload", i>>
    <3>1. CASE i = read + 1
      BY <1>7, <1>8, <2>1, <2>2, <3>1
    <3>2. CASE i # read + 1
      <4>1. i \in 1 .. read
        BY <1>2, <1>3, <3>2
      <4> QED  BY <1>2, <1>8, <2>1, <4>1 DEF OutInOrder
    <3> QED  BY <3>1, <3>2
  <2>4. ASSUME NEW i \in 1 .. Len(output') PROVE output'[i] = <<"payload", read' + i>>
    <3>1. i \in 1 .. Len(output) - 1 /\ i + 1 \in 1 .. Len(output) /\ read + (i + 1) = read' + i
      BY <1>2, <1>3, <1>7
    <3>2. output'[i] = output[i + 1]
      BY <1>7, <3>1
    <3>3. output[i + 1] = <<"payload", read + (i + 1)>>
      BY <1>2, <3>1 DEF OutInOrder
    <3> QED  BY <3>1, <3>2, <3>3
  <2>5. Len(data_out') = read' /\ read' + Len(output') = Produced'
    BY <1>2, <1>3, <1>4, <1>7, <1>8, <2>1
  <2> QED  BY <2>3, <2>4, <2>5 DEF OutInOrder
<1>12. StatusHolds'
  <2>1. num'[part'] = num[part] /\ input' = input /\ part' = part /\ written' = written
    BY <1>3
  <2>2. Len(output') <= Depth /\ ready' <= Len(output')
    BY <1>2, <1>3, <1>5, <1>7, AeadAssumption DEF StatusHolds
  <2> QED  BY <1>1, <1>2, <1>5, <2>1, <2>2 DEF StatusHolds
<1> QED  BY <1>1, <1>9, <1>10, <1>11, <1>12 DEF AeadInv

\* The core works off a block.
LEMMA AeadAbsorb ==
  ASSUME AeadInv, A!Absorb
  PROVE  AeadInv'
<1>1. stage # "idle" /\ stage' = stage
  BY DEF A!Absorb, AeadInv
<1>2. /\ AeadTypes /\ InOrder /\ OutInOrder /\ StatusHolds /\ NumAd \in Nat
      /\ Len(input) \in Nat /\ Len(output) \in Nat /\ Len(absorbed) \in Nat
      /\ written \in Nat /\ read \in Nat /\ ready \in Nat
  BY <1>1, AeadRunning
<1> DEFINE block == Head(input)
<1>3. /\ UNCHANGED <<num, part, written, read, ready, data_out, tag>>
      /\ input # <<>> /\ input' = Tail(input) /\ absorbed' = Append(absorbed, block)
      /\ block[1] = "payload" => Len(output) < Depth /\ output' = Append(output, block)
      /\ block[1] # "payload" => output' = output
  BY DEF A!Absorb, A!results
<1>4. UNCHANGED <<NumAd, Sent>> /\ \A i : Block(i)' = Block(i)
  BY <1>3 DEF NumAd, Sent, Block
<1>5. /\ input' \in Seq(BlockType) /\ block \in BlockType /\ block = input[1]
      /\ Len(input) >= 1 /\ Len(input') = Len(input) - 1
      /\ \A i \in 1 .. Len(input) - 1 : input'[i] = input[i + 1]
  BY <1>2, <1>3, Pop DEF AeadTypes
<1>6. block = Block(Len(absorbed) + 1)
  BY <1>2, <1>5 DEF InOrder
<1> HIDE DEF block
<1>7. /\ absorbed' \in Seq(BlockType) /\ Len(absorbed') = Len(absorbed) + 1
      /\ absorbed'[Len(absorbed) + 1] = block
      /\ \A i \in 1 .. Len(absorbed) : absorbed'[i] = absorbed[i]
  BY <1>2, <1>3, <1>5, Push DEF AeadTypes
<1>8. InOrder'
  <2>1. Len(absorbed') + Len(input') = Sent'
    BY <1>2, <1>4, <1>5, <1>7 DEF InOrder
  <2>2. ASSUME NEW i \in 1 .. Len(absorbed') PROVE absorbed'[i] = Block(i)
    <3>1. CASE i = Len(absorbed) + 1
      BY <1>6, <1>7, <3>1
    <3>2. CASE i # Len(absorbed) + 1
      <4>1. i \in 1 .. Len(absorbed)
        BY <1>2, <1>7, <3>2
      <4> QED  BY <1>2, <1>7, <4>1 DEF InOrder
    <3> QED  BY <3>1, <3>2
  <2>3. ASSUME NEW i \in 1 .. Len(input') PROVE input'[i] = Block(Len(absorbed') + i)
    <3>1. /\ i \in 1 .. Len(input) - 1 /\ i + 1 \in 1 .. Len(input)
          /\ Len(absorbed) + (i + 1) = Len(absorbed') + i
      BY <1>2, <1>5, <1>7
    <3>2. input[i + 1] = Block(Len(absorbed) + (i + 1))
      BY <1>2, <3>1 DEF InOrder
    <3> QED  BY <1>5, <3>1, <3>2
  <2> QED  BY <1>4, <2>1, <2>2, <2>3 DEF InOrder
<1>9. CASE Len(absorbed) < NumAd
  <2>1. block[1] = "ad"
    BY <1>2, <1>6, <1>9 DEF Block
  <2>2. output' = output
    BY <1>3, <2>1
  <2>3. Produced = 0 /\ Produced' = 0
    <3>1. Produced = 0
      BY <1>9 DEF Produced
    <3>2. CASE Len(absorbed') < NumAd'
      BY <3>1, <3>2 DEF Produced
    <3>3. CASE ~ (Len(absorbed') < NumAd')
      <4>1. Len(absorbed') - NumAd' = 0
        BY <1>2, <1>4, <1>7, <1>9, <3>3
      <4>2. Produced' = Len(absorbed') - NumAd'
        BY <3>3 DEF Produced
      <4> QED  BY <3>1, <4>1, <4>2
    <3> QED  BY <3>2, <3>3
  <2>4. OutInOrder'
    BY <1>2, <1>3, <2>2, <2>3 DEF OutInOrder
  <2>5. AeadTypes'
    BY <1>1, <1>2, <1>3, <1>5, <1>7, <2>2 DEF AeadTypes
  <2>6. StatusHolds'
    <3>1. num'[part'] = num[part] /\ part' = part /\ Len(output') = Len(output)
      BY <1>3, <2>2
    <3>2. Len(input') <= Depth /\ (Len(input) + ready <= Depth => Len(input') + ready' <= Depth)
      BY <1>2, <1>3, <1>5, AeadAssumption DEF StatusHolds
    <3> QED  BY <1>1, <1>2, <1>3, <3>1, <3>2 DEF StatusHolds
  <2> QED  BY <1>1, <1>8, <2>4, <2>5, <2>6 DEF AeadInv
<1>10. CASE ~ (Len(absorbed) < NumAd)
  <2>1. block = <<"payload", Produced + 1>> /\ Produced' = Produced + 1
    <3>1. Produced = Len(absorbed) - NumAd
      BY <1>10 DEF Produced
    <3>2. ~ (Len(absorbed) + 1 <= NumAd) /\ (Len(absorbed) + 1) - NumAd = Produced + 1
      BY <1>2, <1>10, <3>1
    <3>3. ~ (Len(absorbed') < NumAd) /\ Len(absorbed') - NumAd = Produced + 1
      BY <1>2, <1>7, <1>10, <3>2
    <3> QED  BY <1>4, <1>6, <3>2, <3>3 DEF Block, Produced
  <2>2. Len(output) < Depth /\ output' = Append(output, block)
    BY <1>3, <2>1
  <2>3. /\ output' \in Seq(BlockType) /\ Len(output') = Len(output) + 1
        /\ output'[Len(output) + 1] = block
        /\ \A i \in 1 .. Len(output) : output'[i] = output[i]
    BY <1>2, <1>5, <2>2, Push DEF AeadTypes
  <2>4. OutInOrder'
    <3>1. read + Len(output) = Produced
      BY <1>2 DEF OutInOrder
    <3>2. ASSUME NEW i \in 1 .. Len(output') PROVE output'[i] = <<"payload", read + i>>
      <4>1. CASE i = Len(output) + 1
        <5>1. read + i = Produced + 1
          BY <1>2, <3>1, <4>1
        <5> QED  BY <2>1, <2>3, <4>1, <5>1
      <4>2. CASE i # Len(output) + 1
        <5>1. i \in 1 .. Len(output)
          BY <1>2, <2>3, <4>2
        <5> QED  BY <1>2, <2>3, <5>1 DEF OutInOrder
      <4> QED  BY <4>1, <4>2
    <3>3. read + Len(output') = Produced'
      BY <1>2, <2>1, <2>3, <3>1
    <3> QED  BY <1>2, <1>3, <3>2, <3>3 DEF OutInOrder
  <2>5. AeadTypes'
    BY <1>1, <1>2, <1>3, <1>5, <1>7, <2>3 DEF AeadTypes
  <2>6. StatusHolds'
    <3>1. num'[part'] = num[part] /\ part' = part
      BY <1>3
    <3>2. Len(input') <= Depth /\ (Len(input) + ready <= Depth => Len(input') + ready' <= Depth)
      BY <1>2, <1>3, <1>5, AeadAssumption DEF StatusHolds
    <3>3. Len(output') <= Depth /\ (ready <= Len(output) => ready' <= Len(output'))
      BY <1>2, <1>3, <2>2, <2>3, AeadAssumption
    <3> QED  BY <1>1, <1>2, <1>3, <3>1, <3>2, <3>3 DEF StatusHolds
  <2> QED  BY <1>1, <1>8, <2>4, <2>5, <2>6 DEF AeadInv
<1> QED  BY <1>9, <1>10

\* The command is finalized when the core has worked off all of it.
LEMMA AeadFinalize ==
  ASSUME 0 \notin PayloadSizes, AeadInv, A!Finalize
  PROVE  AeadInv'
<1>1. /\ stage = "loop" /\ stage' = "idle" /\ part = "payload" /\ read = num[part]
      /\ tag' = absorbed /\ input' = <<>> /\ output' = <<>> /\ absorbed' = <<>>
      /\ UNCHANGED <<num, part, written, read, ready, data_out>>
  BY DEF A!Finalize, A!Done, A!Goto
<1>2. /\ AeadTypes /\ InOrder /\ OutInOrder /\ StatusHolds
      /\ NumAd \in Nat /\ NumPayload \in Nat /\ num[part] = NumPayload
      /\ Len(input) \in Nat /\ Len(output) \in Nat /\ Len(absorbed) \in Nat
      /\ written \in Nat /\ read \in Nat /\ NumPayload # 0
  BY <1>1, AeadRunning DEF AeadTypes, NumPayload
<1>3. Len(absorbed) = NumAd + NumPayload
  <2>1. Len(absorbed) + Len(input) = NumAd + written /\ written <= NumPayload
    BY <1>1, <1>2 DEF InOrder, Sent, StatusHolds
  <2>2. NumPayload + Len(output) = Produced
    BY <1>1, <1>2 DEF OutInOrder
  <2>3. CASE Len(absorbed) < NumAd
    <3>1. Produced = 0
      BY <2>3 DEF Produced
    <3> QED  BY <1>1, <1>2, <2>1, <2>2, <3>1
  <2>4. CASE ~ (Len(absorbed) < NumAd)
    <3>1. Produced = Len(absorbed) - NumAd
      BY <2>4 DEF Produced
    <3> QED  BY <1>2, <2>1, <2>2, <3>1
  <2> QED  BY <2>3, <2>4
<1>4. absorbed = A!Blocks("ad") \o A!Blocks("payload")
  <2> DEFINE both == A!Blocks("ad") \o A!Blocks("payload")
  <2>1. /\ both \in Seq(BlockType) /\ Len(both) = NumAd + NumPayload
        /\ \A i \in 1 .. NumAd + NumPayload : both[i] = Block(i)
    BY <1>2, StreamIs DEF AeadTypes
  <2>2. absorbed \in Seq(BlockType) /\ \A i \in 1 .. Len(absorbed) : absorbed[i] = Block(i)
    BY <1>2 DEF AeadTypes, InOrder
  <2> HIDE DEF both
  <2>3. absorbed = both
    BY <1>3, <2>1, <2>2, SameSeq
  <2> QED  BY <2>3 DEF both
<1>5. data_out = A!Blocks("payload")
  <2>1. Len(data_out) = NumPayload /\ data_out \in Seq(BlockType)
        /\ \A i \in 1 .. NumPayload : data_out[i] = <<"payload", i>>
    BY <1>1, <1>2 DEF OutInOrder, AeadTypes
  <2> DEFINE b == A!Blocks("payload")
  <2>2. \A i \in 1 .. NumPayload : <<"payload", i>> \in BlockType
    BY <1>2 DEF BlockType, A!Parts
  <2>3. /\ b \in Seq(BlockType) /\ Len(b) = NumPayload
        /\ \A i \in 1 .. NumPayload : b[i] = <<"payload", i>>
    BY <1>2, <2>2 DEF A!Blocks, NumPayload
  <2> HIDE DEF b
  <2>4. data_out = b
    BY <2>1, <2>3, SameSeq
  <2> QED  BY <2>4 DEF b
<1>6. \A p : A!Blocks(p)' = A!Blocks(p)
  BY <1>1 DEF A!Blocks
<1>7. AeadTypes'
  BY <1>1, <1>2 DEF AeadTypes
<1> QED  BY <1>1, <1>4, <1>5, <1>6, <1>7 DEF AeadInv

\* Whatever the driver and the core do, in whatever order.
LEMMA AeadStep ==
  ASSUME 0 \notin PayloadSizes, AeadInv, [A!Next]_(A!vars)
  PROVE  AeadInv'
<1>1. CASE UNCHANGED A!vars
  BY <1>1 DEF A!vars, A!results, A!core, AeadInv, AeadTypes, InOrder, OutInOrder, StatusHolds,
              Sent, Produced, Block, NumAd, NumPayload, A!Blocks
<1> QED  BY <1>1, AeadRun, AeadLook, AeadWrite, AeadRead, AeadAbsorb, AeadFinalize
         DEF A!Next, A!Driver

\* The FIFOs never overflow, and bm_aead_run() returns the result of every block
\* in order and the tag of the whole command, for FIFOs of any depth and commands
\* of any sizes, however the core and the driver take turns.  The payload must not
\* be empty: without one aead_data_in_out() reads no result, and bm_aead_run() reads
\* TAG while the core may still be at work.
THEOREM CommandsAreExact ==
  ASSUME 0 \notin PayloadSizes
  PROVE  A!FairSpec => []CommandIsExact
<1>1. AeadInv => CommandIsExact
  BY AeadAssumption DEF AeadInv, StatusHolds, CommandIsExact, A!CommandIsExact
<1>2. AeadInv /\ [A!Next]_(A!vars) => AeadInv'
  BY AeadStep
<1> QED  BY <1>1, <1>2, AeadInit, PTL DEF A!FairSpec
-----------------------------------------------------------------------------
(* the file calls: the inductive invariant *)

Modes == {"R", "W", "A", "WPLUS", "APLUS", "RPLUS", "EINVAL"}

\* What the host knows of a handle, and the program of a descriptor.
Position == [file : Files \cup {"none", "cut"}, mode : Modes \cup {"none"}, pos : Int]

FilesTypes ==
    /\ open_fd \subseteq H!Fds
    /\ fp \in [H!Fds -> [handle : Handles \cup {0}, pos : Int]]
    /\ host \in [Handles -> Position]
    /\ \A h \in Handles : host[h] = H!Closed \/ (host[h].file \in Files /\ host[h].mode # "none")
    /\ length \in [Files -> Int]
    /\ want \in [H!Fds -> Position]

Known(fd) == want[fd].file # "cut"

\* An open descriptor has a handle, which is open at the host for what the program
\* has opened it for; and as long as it has transferred nothing fp[fd].pos is where
\* it is, unless it was sought to elsewhere.
Reaches(fd) ==
    /\ fp[fd].handle \in Handles
    /\ ~ Known(fd) => want[fd] = H!Cut
    /\ Known(fd) =>
          /\ want[fd].file \in Files /\ want[fd].mode # "none"
          /\ host[fp[fd].handle].file = want[fd].file
          /\ host[fp[fd].handle].mode = want[fd].mode
          /\ want[fd].pos # H!Unknown =>
                /\ host[fp[fd].handle].pos = want[fd].pos
                /\ fd \notin used => fp[fd].pos = want[fd].pos

\* The handle of a descriptor that has not been cut off belongs to no other one.
Apart == \A fd, e \in open_fd : Known(fd) /\ fp[fd].handle = fp[e].handle => fd = e

FilesInv == FilesTypes /\ (\A fd \in open_fd : Reaches(fd)) /\ Apart
-----------------------------------------------------------------------------
(* the file calls: the steps *)

LEMMA FilesStart ==
  ASSUME H!Init
  PROVE  FilesInv
<1>1. H!Closed \in Position
  BY DEF H!Closed, Position
<1>2. length \in [Files -> Int]
  BY DEF H!Init
<1> QED  BY <1>1, <1>2 DEF H!Init, FilesInv, FilesTypes, Apart

LEMMA FilesOpen ==
  ASSUME FilesInv, NEW file \in Files, NEW flags, H!Open(file, flags)
  PROVE  FilesInv'
<1>1. PICK fd \in H!Fds, h \in Handles :
         /\ H!FreeFd(fd) /\ H!HostOpen(h, file, H!Mode(flags)) /\ H!Mode(flags) # "EINVAL"
         /\ open_fd' = open_fd \cup {fd}
         /\ fp' = [fp EXCEPT ![fd] = [handle |-> h, pos |-> 0]]
         /\ want' = [want EXCEPT ![fd] =
                        IF H!Owners(h) # {} THEN H!Cut
                        ELSE [file |-> file, mode |-> H!Mode(flags), pos |-> 0]]
         /\ used' = used \ {fd}
  BY DEF H!Open
<1> DEFINE mode == H!Mode(flags)
           new == [file |-> file, mode |-> mode, pos |-> 0]
           told == IF H!Owners(h) # {} THEN H!Cut ELSE new
<1>2. mode \in Modes
  BY DEF H!Mode, Modes
<1> HIDE DEF mode
<1>3. /\ new \in Position /\ new.file = file /\ new.mode = mode /\ new.mode # "none"
      /\ new.pos = 0
      /\ H!Cut \in Position /\ H!Cut.file = "cut"
  BY <1>2 DEF Position, Modes, H!Cut, H!Unknown
<1>4. FilesTypes /\ fd \notin open_fd /\ host[h] = H!Closed
  BY <1>1 DEF FilesInv, H!FreeFd, H!HostOpen
<1>5. host' = [host EXCEPT ![h] = new] /\ want' = [want EXCEPT ![fd] = told]
  BY <1>1 DEF H!HostOpen, mode
<1>6. length' \in [Files -> Int]
  <2>1. \E c \in BOOLEAN :
           length' = [length EXCEPT ![file] = IF c \/ @ = -1 THEN 0 ELSE @]
    BY <1>1 DEF H!HostOpen
  <2> QED  BY <1>4, <2>1 DEF FilesTypes
<1>7. told \in Position /\ (told = H!Cut \/ (told = new /\ H!Owners(h) = {}))
  BY <1>3
<1> HIDE DEF new, told
<1>8. \A e \in open_fd : Reaches(e) /\ (Known(e) => fp[e].handle # h)
  BY <1>4 DEF FilesInv, Reaches, H!Closed
<1>9. FilesTypes'
  <2>1. \A g \in Handles : host'[g] = IF g = h THEN new ELSE host[g]
    BY <1>4, <1>5 DEF FilesTypes
  <2> QED  BY <1>1, <1>3, <1>4, <1>5, <1>6, <1>7, <2>1 DEF FilesTypes
<1>10. /\ fp'[fd] = [handle |-> h, pos |-> 0] /\ host'[h] = new /\ want'[fd] = told
       /\ \A e \in open_fd : /\ fp'[e] = fp[e] /\ want'[e] = want[e] /\ e # fd
                             /\ e \in used' <=> e \in used
                             /\ Known(e) => host'[fp[e].handle] = host[fp[e].handle]
  BY <1>1, <1>4, <1>5, <1>8 DEF FilesTypes, Reaches
<1>11. Reaches(fd)'
  <2>1. /\ fp'[fd].handle = h /\ fp'[fd].pos = 0 /\ h \in Handles
        /\ host'[h] = new /\ want'[fd] = told
    BY <1>10
  <2>2. Known(fd)' => told = new
    BY <1>3, <1>7, <2>1 DEF Known
  <2>3. ~ Known(fd)' => want'[fd] = H!Cut
    <3>1. CASE told = H!Cut
      BY <2>1, <3>1
    <3>2. CASE told = new
      BY <1>3, <2>1, <3>2, FilesAssumption DEF Known
    <3> QED  BY <1>7, <3>1, <3>2
  <2> QED  BY <1>3, <2>1, <2>2, <2>3 DEF Reaches
<1>12. ASSUME NEW e \in open_fd PROVE Reaches(e)'
  <2>1. /\ Reaches(e) /\ fp'[e] = fp[e] /\ want'[e] = want[e] /\ (e \in used' <=> e \in used)
        /\ Known(e) => host'[fp[e].handle] = host[fp[e].handle]
    BY <1>8, <1>10
  <2>2. Known(e)' <=> Known(e)
    BY <2>1 DEF Known
  <2> QED  BY <2>1, <2>2 DEF Reaches
<1>13. Apart'
  <2>1. \A e \in open_fd : Known(e)' <=> Known(e)
    BY <1>10 DEF Known
  <2>2. Known(fd)' => \A e \in open_fd : fp[e].handle # h
    BY <1>3, <1>7, <1>10 DEF Known, H!Owners
  <2> QED  BY <1>1, <1>8, <1>10, <2>1, <2>2 DEF Apart, FilesInv
<1> QED  BY <1>1, <1>9, <1>11, <1>12, <1>13 DEF FilesInv

\* SEMIHOSTING_SYS_CLOSE of a descriptor closes the handle with its number.
LEMMA FilesClose ==
  ASSUME FilesInv, NEW fd \in H!Fds, H!Close(fd)
  PROVE  FilesInv'
<1>1. FilesTypes /\ Apart /\ \A e \in open_fd : Reaches(e)
  BY DEF FilesInv
<1>2. /\ open_fd' = open_fd \ {fd} /\ UNCHANGED <<fp, length, used>>
      /\ host' = [h \in Handles |-> IF h = fd THEN H!Closed ELSE host[h]]
      /\ want' = [e \in H!Fds |-> IF e = fd THEN H!Closed
                                  ELSE IF e \in H!Owners(fd) THEN H!Cut ELSE want[e]]
  BY DEF H!Close
<1>3. H!Closed \in Position /\ H!Cut \in Position /\ H!Cut.file = "cut"
  BY DEF H!Closed, H!Cut, H!Unknown, Position
<1>4. FilesTypes'
  BY <1>1, <1>2, <1>3 DEF FilesTypes
<1>5. ASSUME NEW e \in open_fd'
      PROVE  /\ e \in open_fd
             /\ ~ Known(e)' => want'[e] = H!Cut
             /\ Known(e)' => /\ Known(e) /\ want'[e] = want[e]
                             /\ host'[fp[e].handle] = host[fp[e].handle]
  <2>1. e \in open_fd /\ e # fd /\ e \in H!Fds /\ Reaches(e)
    BY <1>1, <1>2 DEF FilesTypes
  <2>2. CASE e \in H!Owners(fd)
    BY <1>2, <1>3, <2>1, <2>2 DEF Known
  <2>3. CASE e \notin H!Owners(fd)
    <3>1. want'[e] = want[e] /\ fp[e].handle # fd
      BY <1>2, <2>1, <2>3 DEF H!Owners
    <3> QED  BY <1>2, <2>1, <3>1 DEF Known, Reaches
  <2> QED  BY <2>2, <2>3
<1>6. \A e \in open_fd' : Reaches(e)'
  <2> SUFFICES ASSUME NEW e \in open_fd' PROVE Reaches(e)'
    OBVIOUS
  <2>1. Reaches(e)
    BY <1>1, <1>5
  <2> QED  BY <1>2, <1>5, <2>1 DEF Reaches
<1>7. Apart'
  BY <1>1, <1>2, <1>5 DEF Apart
<1> QED  BY <1>4, <1>6, <1>7 DEF FilesInv

\* A call that takes the handle of an open descriptor, and what is known of it, from
\* one position to another.
LEMMA FilesMove ==
  ASSUME FilesInv, NEW fd \in open_fd, NEW to \in Int, NEW w \in Int, UNCHANGED open_fd,
         length' \in [Files -> Int],
         fp' \in [H!Fds -> [handle : Handles \cup {0}, pos : Int]],
         \A e \in H!Fds : fp'[e].handle = fp[e].handle,
         \A e \in H!Fds : e # fd => fp'[e] = fp[e] /\ (e \in used' <=> e \in used),
         host' = [host EXCEPT ![fp[fd].handle].pos = to],
         host[fp[fd].handle] = H!Closed => to = 0,
         want' = [want EXCEPT ![fd].pos = w],
         ~ Known(fd) => w = H!Unknown,
         Known(fd) /\ w # H!Unknown => w = to /\ (fd \notin used' => fp'[fd].pos = w)
  PROVE  FilesInv'
<1>1. FilesTypes /\ Apart /\ open_fd \subseteq H!Fds /\ \A e \in open_fd : Reaches(e)
  BY DEF FilesInv, FilesTypes
<1> DEFINE h == fp[fd].handle
<1>2. h \in Handles /\ host[h] \in Position /\ want[fd] \in Position /\ fd \in H!Fds
  BY <1>1 DEF FilesTypes, Reaches
<1>3. \A p \in Position : \A n \in Int :
         /\ [p EXCEPT !.pos = n] \in Position
         /\ [p EXCEPT !.pos = n].file = p.file
         /\ [p EXCEPT !.pos = n].mode = p.mode
         /\ [p EXCEPT !.pos = n].pos = n
         /\ p.pos = n => [p EXCEPT !.pos = n] = p
  BY DEF Position
<1>4. /\ host'[h] = [host[h] EXCEPT !.pos = to]
      /\ want'[fd] = [want[fd] EXCEPT !.pos = w]
      /\ \A g \in Handles : g # h => host'[g] = host[g]
      /\ \A e \in H!Fds : e # fd => want'[e] = want[e]
  BY <1>1, <1>2 DEF FilesTypes
<1>5. /\ host'[h].file = host[h].file /\ host'[h].mode = host[h].mode /\ host'[h].pos = to
      /\ want'[fd].file = want[fd].file /\ want'[fd].mode = want[fd].mode
      /\ want'[fd].pos = w
      /\ host'[h] \in Position /\ want'[fd] \in Position
  <2>1. /\ [host[h] EXCEPT !.pos = to] \in Position
        /\ [host[h] EXCEPT !.pos = to].file = host[h].file
        /\ [host[h] EXCEPT !.pos = to].mode = host[h].mode
        /\ [host[h] EXCEPT !.pos = to].pos = to
    BY <1>2, <1>3
  <2>2. /\ [want[fd] EXCEPT !.pos = w] \in Position
        /\ [want[fd] EXCEPT !.pos = w].file = want[fd].file
        /\ [want[fd] EXCEPT !.pos = w].mode = want[fd].mode
        /\ [want[fd] EXCEPT !.pos = w].pos = w
    BY <1>2, <1>3
  <2> QED  BY <1>4, <2>1, <2>2
<1>6. FilesTypes'
  <2>1. host[h] = H!Closed => host'[h] = H!Closed
    BY <1>2, <1>3, <1>4 DEF H!Closed
  <2>2. \A g \in Handles :
           host'[g] = H!Closed \/ (host'[g].file \in Files /\ host'[g].mode # "none")
    BY <1>1, <1>4, <1>5, <2>1 DEF FilesTypes
  <2>3. host' \in [Handles -> Position] /\ want' \in [H!Fds -> Position]
    BY <1>1, <1>2, <1>3 DEF FilesTypes
  <2> QED  BY <1>1, <2>2, <2>3 DEF FilesTypes
<1>7. \A e \in open_fd : Known(e)' <=> Known(e)
  BY <1>1, <1>4, <1>5 DEF Known
<1>8. ASSUME NEW e \in open_fd PROVE Reaches(e)'
  <2>1. CASE e = fd
    <3>1. ~ Known(fd) => want'[fd] = H!Cut
      <4>1. ~ Known(fd) => want[fd] = H!Cut
        BY <1>1 DEF Reaches
      <4> QED  BY <1>2, <1>3, <1>4, <4>1 DEF H!Cut
    <3>2. Known(fd) => /\ want[fd].file \in Files /\ want[fd].mode # "none"
                       /\ host[h].file = want[fd].file /\ host[h].mode = want[fd].mode
      BY <1>1 DEF Reaches
    <3> QED  BY <1>1, <1>2, <1>5, <1>7, <2>1, <3>1, <3>2 DEF Reaches
  <2>2. CASE e # fd
    <3>1. Known(e) => fp[e].handle # h
      BY <1>1, <2>2 DEF Apart
    <3>2. /\ want'[e] = want[e] /\ fp'[e] = fp[e] /\ (e \in used' <=> e \in used)
          /\ Known(e) => host'[fp[e].handle] = host[fp[e].handle]
      BY <1>1, <1>4, <2>2, <3>1 DEF Reaches
    <3>3. Reaches(e) /\ (Known(e)' <=> Known(e))
      BY <1>1, <1>7
    <3> QED  BY <3>2, <3>3 DEF Reaches
  <2> QED  BY <2>1, <2>2
<1>9. Apart'
  BY <1>1, <1>7 DEF Apart
<1> QED  BY <1>6, <1>8, <1>9 DEF FilesInv

LEMMA FilesRead ==
  ASSUME FilesInv, NEW fd \in H!Fds, NEW len \in 1 .. MaxLength, H!Read(fd, len)
  PROVE  FilesInv'
<1> DEFINE h == fp[fd].handle
           more == H!Readable(h)
           n == IF len < more THEN len ELSE more
           to == host[h].pos + n
           w == IF n = 0 \/ want[fd].pos = H!Unknown THEN want[fd].pos ELSE want[fd].pos + n
<1>1. /\ fd \in open_fd /\ UNCHANGED <<open_fd, fp, length>>
      /\ host' = [host EXCEPT ![h].pos = @ + n]
      /\ H!Counted(fd, want[fd].pos, H!Returned(len, len - n))
  BY DEF H!Read
<1>2. FilesTypes /\ Reaches(fd)
  BY <1>1 DEF FilesInv
<1>3. /\ h \in Handles /\ host[h] \in Position /\ want[fd] \in Position
      /\ host[h].pos \in Int /\ want[fd].pos \in Int
      /\ host[h] = H!Closed \/ length[host[h].file] \in Int
  BY <1>2 DEF Reaches, FilesTypes, Position
<1>4. more \in Int /\ (host[h] = H!Closed => more = 0)
  BY <1>3 DEF H!Readable, H!Closed
<1> HIDE DEF more
<1>5. /\ n \in Int /\ to \in Int /\ w \in Int /\ H!Returned(len, len - n) = n
      /\ host[h] = H!Closed => n = 0
  BY <1>3, <1>4 DEF H!Returned
<1> HIDE DEF n
<1>6. /\ want' = [want EXCEPT ![fd].pos =
                     IF n = 0 \/ @ = H!Unknown THEN @ ELSE want[fd].pos + n]
      /\ used' = IF n = 0 THEN used ELSE used \cup {fd}
  BY <1>1, <1>5 DEF H!Counted
<1>7. host' = [host EXCEPT ![h].pos = to] /\ want' = [want EXCEPT ![fd].pos = w]
  BY <1>1, <1>2, <1>3, <1>6 DEF FilesTypes, Position
<1>8. /\ ~ Known(fd) => w = H!Unknown
      /\ Known(fd) /\ w # H!Unknown => w = to /\ (fd \notin used' => fp'[fd].pos = w)
      /\ host[h] = H!Closed => to = 0
  BY <1>1, <1>2, <1>3, <1>5, <1>6 DEF Reaches, H!Cut, H!Unknown, H!Closed
<1>9. \A e \in H!Fds : e # fd => (e \in used' <=> e \in used)
  BY <1>6
<1> HIDE DEF to, w
<1> QED  BY <1>1, <1>2, <1>5, <1>7, <1>8, <1>9, FilesMove DEF FilesTypes

LEMMA FilesWrite ==
  ASSUME FilesInv, NEW fd \in H!Fds, NEW len \in 1 .. MaxLength, H!Write(fd, len)
  PROVE  FilesInv'
<1> DEFINE h == fp[fd].handle
           file == host[h].file
           start == IF H!Appends(host[h].mode) THEN length[file] ELSE host[h].pos
           begin == IF H!Appends(want[fd].mode) THEN length[want[fd].file] ELSE want[fd].pos
<1>1. PICK n \in 0 .. len :
         /\ fd \in open_fd /\ UNCHANGED <<open_fd, fp>>
         /\ n > 0 => host[h].mode \notin {"R", "none"}
         /\ IF n = 0 THEN UNCHANGED <<host, length>>
            ELSE /\ host' = [host EXCEPT ![h].pos = start + n]
                 /\ length' = [length EXCEPT ![file] = IF @ < start + n THEN start + n ELSE @]
         /\ H!Counted(fd, begin, H!Returned(len, len - n))
  BY DEF H!Write
<1>2. FilesTypes /\ Reaches(fd)
  BY <1>1 DEF FilesInv
<1>3. /\ h \in Handles /\ host[h] \in Position /\ want[fd] \in Position
      /\ host[h].pos \in Int /\ want[fd].pos \in Int /\ n \in Nat
      /\ H!Returned(len, len - n) = n
  BY <1>2 DEF Reaches, FilesTypes, Position, H!Returned
<1>4. /\ want' = [want EXCEPT ![fd].pos = IF n = 0 \/ @ = H!Unknown THEN @ ELSE begin + n]
      /\ used' = IF n = 0 THEN used ELSE used \cup {fd}
  BY <1>1, <1>3 DEF H!Counted
<1>5. \A e \in H!Fds : e # fd => (e \in used' <=> e \in used)
  BY <1>4
<1>6. CASE n = 0
  <2> DEFINE to == host[h].pos
             w == want[fd].pos
  <2>1. host' = [host EXCEPT ![h].pos = to] /\ want' = [want EXCEPT ![fd].pos = w]
    BY <1>1, <1>2, <1>3, <1>4, <1>6 DEF FilesTypes, Position
  <2>2. /\ ~ Known(fd) => w = H!Unknown
        /\ Known(fd) /\ w # H!Unknown => w = to /\ (fd \notin used' => fp'[fd].pos = w)
        /\ host[h] = H!Closed => to = 0
    BY <1>1, <1>2, <1>3, <1>4, <1>6 DEF Reaches, H!Cut, H!Closed
  <2>3. to \in Int /\ w \in Int /\ UNCHANGED length
    BY <1>1, <1>3, <1>6
  <2> HIDE DEF to, w
  <2> QED  BY <1>1, <1>2, <1>5, <2>1, <2>2, <2>3, FilesMove DEF FilesTypes
<1>7. CASE n # 0
  <2> DEFINE to == start + n
             w == IF want[fd].pos = H!Unknown THEN want[fd].pos ELSE begin + n
  <2>1. /\ host[h] # H!Closed /\ file \in Files /\ length[file] \in Int
        /\ start \in Int
    BY <1>1, <1>2, <1>3, <1>7 DEF FilesTypes, H!Closed
  <2>2. length' \in [Files -> Int]
    BY <1>1, <1>2, <1>7, <2>1 DEF FilesTypes
  <2>3. host' = [host EXCEPT ![h].pos = to]
    BY <1>1, <1>7
  <2>4. want' = [want EXCEPT ![fd].pos = w]
    BY <1>2, <1>3, <1>4, <1>7 DEF FilesTypes, Position
  <2>5. Known(fd) => begin = start \/ want[fd].pos = H!Unknown
    BY <1>2 DEF Reaches
  <2>6. ~ Known(fd) => want[fd].pos = H!Unknown
    BY <1>2 DEF Reaches, H!Cut
  <2>7. to \in Int /\ w \in Int /\ (Known(fd) /\ w # H!Unknown => w = to)
    BY <1>3, <2>1, <2>5, <2>6 DEF Known
  <2>8. ~ Known(fd) => w = H!Unknown
    BY <2>6
  <2>9. fd \in used'
    BY <1>4, <1>7
  <2> HIDE DEF to, w, start
  <2> QED  BY <1>1, <1>2, <1>5, <2>1, <2>2, <2>3, <2>4, <2>7, <2>8, <2>9, FilesMove
           DEF FilesTypes
<1> QED  BY <1>6, <1>7

LEMMA FilesSeek ==
  ASSUME FilesInv, NEW fd \in H!Fds, NEW offset \in Int, NEW whence \in Whences,
         H!Lseek(fd, offset, whence)
  PROVE  FilesInv'
<1> DEFINE h == fp[fd].handle
           to == H!Target(fd, offset, whence)
           w == H!Asked(fd, offset, whence)
<1>1. /\ fd \in open_fd /\ UNCHANGED <<open_fd, length>> /\ host[h] # H!Closed
      /\ to \in 0 .. length[host[h].file]
      /\ host' = [host EXCEPT ![h].pos = to] /\ fp' = [fp EXCEPT ![fd].pos = to]
      /\ want' = [want EXCEPT ![fd].pos = w] /\ used' = used \ {fd}
  BY DEF H!Lseek
<1>2. FilesTypes /\ Reaches(fd) /\ whence \in {"SEEK_SET", "SEEK_CUR", "SEEK_END"}
  BY <1>1, FilesAssumption DEF FilesInv
<1>3. h \in Handles /\ host[h].file \in Files /\ length[host[h].file] \in Int
  BY <1>1, <1>2 DEF Reaches, FilesTypes
<1>4. to \in Int
  BY <1>1, <1>3
<1>5. w \in Int /\ (~ Known(fd) => w = H!Unknown) /\ (Known(fd) /\ w # H!Unknown => w = to)
  <2>1. CASE ~ Known(fd)
    BY <2>1 DEF H!Asked, H!Unknown, Known
  <2>2. CASE Known(fd) /\ whence = "SEEK_SET"
    BY <2>2 DEF H!Asked, H!Target, H!Unknown, Known
  <2>3. CASE Known(fd) /\ whence = "SEEK_CUR"
    <3>1. w = IF fd \in used \/ want[fd].pos = H!Unknown THEN H!Unknown
              ELSE want[fd].pos + offset
      BY <2>3 DEF H!Asked, Known
    <3>2. to = fp[fd].pos + offset
      BY <2>3 DEF H!Target
    <3>3. want[fd].pos \in Int /\ H!Unknown \in Int
      BY <1>2 DEF FilesTypes, Position, H!Unknown
    <3>4. fd \notin used /\ want[fd].pos # H!Unknown => fp[fd].pos = want[fd].pos
      BY <1>2, <2>3 DEF Reaches
    <3> HIDE DEF to, w
    <3> QED  BY <2>3, <3>1, <3>2, <3>3, <3>4
  <2>4. CASE Known(fd) /\ whence = "SEEK_END"
    BY <1>2, <1>3, <2>4 DEF H!Asked, H!Target, Reaches, Known
  <2> QED  BY <1>2, <2>1, <2>2, <2>3, <2>4
<1> HIDE DEF to, w
<1>6. /\ fp' \in [H!Fds -> [handle : Handles \cup {0}, pos : Int]]
      /\ \A e \in H!Fds : fp'[e].handle = fp[e].handle
      /\ \A e \in H!Fds : e # fd => fp'[e] = fp[e] /\ (e \in used' <=> e \in used)
      /\ fp'[fd].pos = to
  BY <1>1, <1>2, <1>4 DEF FilesTypes
<1> QED  BY <1>1, <1>2, <1>4, <1>5, <1>6, FilesMove DEF FilesTypes

LEMMA FilesStep ==
  ASSUME FilesInv, [H!Next]_(H!vars)
  PROVE  FilesInv'
<1>1. CASE UNCHANGED H!vars
  BY <1>1 DEF H!vars, FilesInv, FilesTypes, Reaches, Known, Apart
<1>2. \A offset \in -MaxLength .. MaxLength : offset \in Int
  OBVIOUS
<1> QED  BY <1>1, <1>2, FilesOpen, FilesClose, FilesRead, FilesWrite, FilesSeek DEF H!Next

\* An open descriptor reaches the file it was opened for, at the position at which
\* the calls have left it according to what they returned, for any number of
\* descriptors, files and handles, whatever part of a transfer the host makes, and
\* even if _close() has closed the files of others.
THEOREM DescriptorsStayExact == H!Spec => []DescriptorsAreExact
<1>1. FilesInv => DescriptorsAreExact
  BY DEF FilesInv, Reaches, Known, DescriptorsAreExact, H!DescriptorsAreExact
<1>2. FilesInv /\ [H!Next]_(H!vars) => FilesInv'
  BY FilesStep
<1> QED  BY <1>1, <1>2, FilesStart, PTL DEF H!Spec
-----------------------------------------------------------------------------
(* the flash: the inductive invariant *)

Bytes == {0, Erased}
AtErase == pc \in {"erase", "erase_command", "erase_wait"}
AtPage == pc \in {"page", "page_command", "page_wait"}

FlashTypes ==
    /\ pc \in {"idle", "write"} \/ AtErase \/ AtPage
    /\ address \in Nat /\ buffer \in Seq(Bytes)
    /\ paddress \in Nat /\ pbuffer \in Seq(Bytes)
    /\ mem \in [Addresses -> Bytes] /\ before \in [Addresses -> Bytes]
    /\ call \in [op : {"write", "erase", "program"}, address : Nat, data : Seq(Bytes)]
    /\ call.address + Len(call.data) <= Size

\* The sector that flash_sector_erase() erases, and what flash_page_program() has
\* yet to program.
Area == From(SectorOf(paddress), Sector)
Todo == From(paddress, Len(pbuffer))

\* What flash_write() has made of byte a when it is at address, and what the call
\* is to have made of it then.
Written(a) == IF a \in call.address .. address - 1 THEN call.data[a - call.address + 1]
              ELSE before[a]
Goal(a) == IF call.op = "write" THEN Written(a) ELSE Expected(a)

\* What flash_write() has left to write is the rest of its data.
Remains ==
    call.op = "write" /\ pc # "idle" =>
       /\ call.address <= address /\ address + Len(buffer) = call.address + Len(call.data)
       /\ \A i \in 1 .. Len(buffer) : buffer[i] = call.data[address - call.address + i]

Writing == pc = "write" => call.op = "write" /\ \A a \in Addresses : mem[a] = Written(a)

\* Outside the sector the chip holds what it should; what flash_write() is going to
\* program holds what the sector should, and once the erase is over the sector is
\* empty.
Erasing ==
    AtErase =>
       /\ call.op \in {"write", "erase"} /\ paddress \in Addresses
       /\ Area \subseteq Exposed
       /\ \A a \in Addresses \ Area : mem[a] = Goal(a)
       /\ call.op = "write" =>
             /\ SectorOf(paddress) = paddress /\ Len(pbuffer) = Sector
             /\ \A a \in Area : pbuffer[a - paddress + 1] = Written(a)
       /\ call.op = "erase" => paddress = call.address
       /\ pc = "erase_wait" /\ busy = Rest /\ ~ failed => \A a \in Area : mem[a] = Erased

\* Elsewhere the chip holds what it should, and programming the bytes that remain
\* gives them what they should hold, however many of them have their bits cleared.
Programming ==
    AtPage =>
       /\ call.op \in {"write", "program"}
       /\ Todo \subseteq Exposed /\ Todo \subseteq Addresses
       /\ \A a \in Addresses \ Todo : mem[a] = Goal(a)
       /\ \A a \in Todo :
             Goal(a) = IF pbuffer[a - paddress + 1] # Erased THEN 0 ELSE mem[a]
       /\ pc = "page_wait" /\ busy = Rest /\ ~ failed =>
             \A a \in From(paddress, WriteSize) : mem[a] = Goal(a)

\* The chip works only on what the driver waits for.
Working ==
    /\ busy # Rest =>
          \/ pc = "erase_wait" /\ busy = Work("erase", paddress, <<>>)
          \/ pc = "page_wait" /\ busy = Work("program", paddress, SubSeq(pbuffer, 1, WriteSize))
    /\ pc \in {"erase_command", "page_command"} => wel

FlashInv ==
    FlashTypes /\ Remains /\ Writing /\ Erasing /\ Programming /\ Working
       /\ WritesAreExact /\ DamageIsLocal
-----------------------------------------------------------------------------
(* the flash: sectors and pages *)

LEMMA Divides ==
  ASSUME NEW n \in Nat \ {0}, NEW a \in Nat
  PROVE  a % n \in 0 .. n - 1 /\ a \div n \in Nat /\ a = (n * (a \div n)) + (a % n)
OBVIOUS

LEMMA Remainder ==
  ASSUME NEW n \in Nat \ {0}, NEW q \in Nat, NEW r \in 0 .. n - 1
  PROVE  ((n * q) + r) % n = r
OBVIOUS

LEMMA Shift ==
  ASSUME NEW n \in Nat \ {0}, NEW a \in Nat, NEW j \in Nat, (a % n) + j < n
  PROVE  (a + j) % n = (a % n) + j
<1> DEFINE q == a \div n
           r == a % n
<1>1. q \in Nat /\ r \in Nat /\ a = (n * q) + r
  BY Divides
<1>2. a + j = (n * q) + (r + j) /\ r + j \in 0 .. n - 1
  BY <1>1
<1>3. ((n * q) + (r + j)) % n = r + j
  BY <1>1, <1>2, Remainder
<1> QED  BY <1>2, <1>3

LEMMA Floor ==
  ASSUME NEW n \in Nat \ {0}, NEW a \in Nat
  PROVE  a - (a % n) \in Nat /\ (a - (a % n)) % n = 0
<1> DEFINE q == a \div n
           r == a % n
<1>1. q \in Nat /\ r \in Nat /\ a = (n * q) + r
  BY Divides
<1>2. a - r = (n * q) + 0 /\ n * q \in Nat
  BY <1>1
<1>3. ((n * q) + 0) % n = 0
  BY <1>1, Remainder
<1> QED  BY <1>2, <1>3

\* The sector of a byte, all bytes of which are on the chip.
LEMMA Sectors ==
  ASSUME NEW a \in Addresses
  PROVE  /\ SectorOf(a) \in Addresses /\ SectorOf(a) <= a /\ a < SectorOf(a) + Sector
         /\ a \in From(SectorOf(a), Sector)
         /\ SectorOf(a) + Sector <= Size
         /\ SectorOf(SectorOf(a)) = SectorOf(a)
         /\ \A x \in From(SectorOf(a), Sector) : x \in Addresses /\ SectorOf(x) = SectorOf(a)
<1> DEFINE r == a % Sector
           s == a - r
<1>1. a \in Nat /\ a < Size /\ Sector \in Nat /\ Sector > 0 /\ Size \in Nat /\ Size % Sector = 0
      /\ Sector \in Nat \ {0}
  BY FlashAssumption DEF Addresses
<1>2. r \in 0 .. Sector - 1 /\ s \in Nat /\ s % Sector = 0
  BY <1>1, Divides, Floor
<1> HIDE DEF r
<1>3. s <= a /\ a < s + Sector
  BY <1>1, <1>2
<1> DEFINE t == s
<1>4. t \in Nat /\ t % Sector = 0 /\ t <= a /\ a < t + Sector
  BY <1>2, <1>3
<1>5. SectorOf(a) = t
  BY DEF SectorOf, r
<1> HIDE DEF t
<1>6. ASSUME NEW j \in 0 .. Sector - 1 PROVE (t + j) % Sector = j
  <2> DEFINE u == t % Sector
  <2>1. u = 0 /\ j \in Nat /\ u + j < Sector /\ u + j = j
    BY <1>1, <1>4
  <2>2. (t + j) % Sector = u + j
    BY <1>1, <1>4, <2>1, Shift
  <2> HIDE DEF u
  <2> QED  BY <2>1, <2>2
<1>7. t + Sector <= Size
  <2>1. SUFFICES ASSUME ~ (t + Sector <= Size) PROVE FALSE
    OBVIOUS
  <2> DEFINE j == Size - t
  <2>2. j \in 0 .. Sector - 1 /\ j # 0 /\ t + j = Size
    BY <1>1, <1>4, <2>1
  <2> HIDE DEF j
  <2>3. Size % Sector = j
    BY <1>6, <2>2
  <2> QED  BY <1>1, <2>2, <2>3
<1>8. ASSUME NEW x \in From(t, Sector) PROVE x \in Addresses /\ SectorOf(x) = t
  <2> DEFINE j == x - t
  <2>1. x \in Int /\ j \in 0 .. Sector - 1 /\ t + j = x /\ x < Size /\ x >= 0
    BY <1>1, <1>4, <1>7 DEF From
  <2>2. x % Sector = j
    <3> HIDE DEF j
    <3> QED  BY <1>6, <2>1
  <2>3. SectorOf(x) = x - j
    BY <2>2 DEF SectorOf
  <2> QED  BY <1>1, <1>4, <2>1, <2>3 DEF Addresses
<1>9. t \in From(t, Sector) /\ a \in From(t, Sector)
  BY <1>1, <1>4 DEF From
<1> QED  BY <1>4, <1>5, <1>7, <1>8, <1>9

\* The program of a page does not go round in it.
LEMMA InPage ==
  ASSUME NEW a \in Nat, NEW i \in Nat, 1 <= i, i <= Page - (a % Page)
  PROVE  PageOf(a) + ((a + i - 1) % Page) = a + i - 1
<1> DEFINE r == a % Page
           j == i - 1
<1>1. Page \in Nat \ {0} /\ r \in 0 .. Page - 1
  BY FlashAssumption, Divides
<1>2. j \in Nat /\ r + j < Page /\ a + i - 1 = a + j
  BY <1>1
<1>3. (a + j) % Page = r + j
  BY <1>1, <1>2, Shift
<1>4. PageOf(a) = a - r
  BY DEF PageOf
<1> HIDE DEF r, j
<1> QED  BY <1>1, <1>2, <1>3, <1>4

LEMMA WriteSizeIs ==
  ASSUME FlashTypes
  PROVE  /\ WriteSize \in Nat /\ WriteSize <= Len(pbuffer)
         /\ WriteSize <= Page - (paddress % Page)
<1> DEFINE r == paddress % Page
<1>1. Page \in Nat \ {0} /\ r \in 0 .. Page - 1 /\ Len(pbuffer) \in Nat
  BY FlashAssumption, Divides DEF FlashTypes
<1> HIDE DEF r
<1>2. WriteSize = IF Len(pbuffer) < Page - r THEN Len(pbuffer) ELSE Page - r
  BY DEF WriteSize, r
<1>3. WriteSize \in Nat /\ WriteSize <= Len(pbuffer) /\ WriteSize <= Page - r
  BY <1>1, <1>2
<1> QED  BY <1>3 DEF r

\* The chip clears exactly the bytes of this page that the data have clear.
LEMMA PageChanges ==
  ASSUME FlashTypes
  PROVE  Changed(Work("program", paddress, SubSeq(pbuffer, 1, WriteSize))) =
            {a \in From(paddress, WriteSize) : pbuffer[a - paddress + 1] # Erased}
<1> DEFINE data == SubSeq(pbuffer, 1, WriteSize)
           work == Work("program", paddress, data)
<1>1. /\ WriteSize \in Nat /\ WriteSize <= Len(pbuffer) /\ Len(pbuffer) \in Nat
      /\ paddress \in Nat /\ WriteSize <= Page - (paddress % Page)
  BY WriteSizeIs DEF FlashTypes
<1>2. DOMAIN data = 1 .. WriteSize /\ \A i \in 1 .. WriteSize : data[i] = pbuffer[i]
  BY <1>1 DEF FlashTypes
<1> HIDE DEF data
<1>3. work.op = "program" /\ work.address = paddress /\ work.data = data
  BY DEF Work
<1> HIDE DEF work
<1>4. Page - (paddress % Page) \in Int
  BY <1>1, FlashAssumption
<1>5. ASSUME NEW i \in 1 .. WriteSize PROVE Place(work, i) = paddress + i - 1
  <2>1. i \in Nat /\ 1 <= i /\ i <= Page - (paddress % Page)
    BY <1>1, <1>4
  <2> QED  BY <1>1, <1>3, <2>1, InPage DEF Place
<1>6. Changed(work) = Cleared(work)
  BY <1>3 DEF Changed
<1>7. Cleared(work) = {Place(work, i) : i \in {j \in 1 .. WriteSize : pbuffer[j] # Erased}}
  BY <1>2, <1>3 DEF Cleared
<1>8. ASSUME NEW a \in Cleared(work)
      PROVE  a \in From(paddress, WriteSize) /\ pbuffer[a - paddress + 1] # Erased
  <2>1. PICK i \in 1 .. WriteSize : a = paddress + i - 1 /\ pbuffer[i] # Erased
    BY <1>5, <1>7
  <2>2. a - paddress + 1 = i /\ a \in paddress .. paddress + WriteSize - 1
    BY <1>1, <2>1
  <2> QED  BY <2>1, <2>2 DEF From
<1>9. ASSUME NEW a \in From(paddress, WriteSize), pbuffer[a - paddress + 1] # Erased
      PROVE  a \in Cleared(work)
  <2> DEFINE i == a - paddress + 1
  <2>1. i \in 1 .. WriteSize /\ a = paddress + i - 1
    BY <1>1, <1>9 DEF From
  <2>2. pbuffer[i] # Erased
    BY <1>9
  <2> HIDE DEF i
  <2> QED  BY <1>5, <1>7, <2>1, <2>2
<1>10. Cleared(work) = {a \in From(paddress, WriteSize) : pbuffer[a - paddress + 1] # Erased}
  BY <1>8, <1>9
<1> QED  BY <1>6, <1>10 DEF work, data
-----------------------------------------------------------------------------
(* the flash: the steps *)

LEMMA FlashStart ==
  ASSUME Init
  PROVE  FlashInv
<1> USE DEF Init, Work
<1>1. mem \in [Addresses -> Bytes] /\ before = mem
  BY FlashAssumption DEF Bytes
<1>2. Size \in Nat /\ Len(<<>>) = 0 /\ DOMAIN <<>> = {}
  BY FlashAssumption
<1>3. FlashTypes
  BY <1>1, <1>2 DEF FlashTypes
<1>4. \A a \in Addresses : Expected(a) = before[a]
  BY <1>2 DEF Expected
<1>5. WritesAreExact /\ DamageIsLocal
  BY <1>1, <1>4 DEF WritesAreExact, DamageIsLocal
<1> QED  BY <1>3, <1>5 DEF FlashInv, Remains, Writing, Erasing, Programming, Working, AtErase, AtPage

\* What the chip changes when it comes to an end, or when the power fails.
LEMMA BusyChanges ==
  ASSUME FlashInv
  PROVE  /\ Changed(busy) \subseteq Exposed
         /\ busy = Rest => Changed(busy) = {}
         /\ busy # Rest => (pc = "erase_wait" /\ busy.op = "erase" /\ Changed(busy) = Area)
                           \/ (/\ pc = "page_wait" /\ busy.op = "program"
                               /\ Changed(busy) = {a \in From(paddress, WriteSize) :
                                                      pbuffer[a - paddress + 1] # Erased}
                               /\ From(paddress, WriteSize) \subseteq Todo)
<1>1. CASE busy = Rest
  BY <1>1 DEF Rest, Changed
<1>2. CASE busy # Rest /\ pc = "erase_wait" /\ busy = Work("erase", paddress, <<>>)
  <2>1. busy.op = "erase" /\ busy.address = paddress
    BY <1>2 DEF Work
  <2>2. Changed(busy) = Area
    BY <2>1 DEF Changed, Area
  <2> QED  BY <1>2, <2>1, <2>2 DEF FlashInv, Erasing, AtErase
<1>3. CASE /\ busy # Rest /\ pc = "page_wait"
           /\ busy = Work("program", paddress, SubSeq(pbuffer, 1, WriteSize))
  <2>1. busy.op = "program"
    BY <1>3 DEF Work
  <2>2. Changed(busy) = {a \in From(paddress, WriteSize) : pbuffer[a - paddress + 1] # Erased}
    BY <1>3, PageChanges DEF FlashInv
  <2>3. /\ WriteSize \in Nat /\ WriteSize <= Len(pbuffer)
        /\ Len(pbuffer) \in Nat /\ paddress \in Nat
    BY WriteSizeIs DEF FlashInv, FlashTypes
  <2>4. From(paddress, WriteSize) \subseteq Todo
    BY <2>3 DEF From, Todo
  <2> QED  BY <1>3, <2>1, <2>2, <2>4 DEF FlashInv, Programming, AtPage
<1> QED  BY <1>1, <1>2, <1>3 DEF FlashInv, Working

LEMMA WorkedIs ==
  ASSUME FlashTypes, NEW done
  PROVE  /\ Worked(done) \in [Addresses -> Bytes]
         /\ \A a \in Addresses \ done : Worked(done)[a] = mem[a]
         /\ \A a \in Addresses \cap done :
               Worked(done)[a] = IF busy.op = "erase" THEN Erased ELSE 0
BY DEF Worked, FlashTypes, Bytes, Erased

\* What follows from the call alone.
LEMMA SameCall ==
  ASSUME UNCHANGED <<call, before>>
  PROVE  Exposed' = Exposed /\ \A a : Expected(a)' = Expected(a)
BY DEF Exposed, Expected, Changed, Cleared, Place, Work

\* The power fails in whatever state.
LEMMA FlashLosesPower ==
  ASSUME FlashInv, LosePower
  PROVE  FlashInv'
<1>1. PICK done \in SUBSET Changed(busy) : mem' = Worked(done)
  BY DEF LosePower
<1>2. /\ UNCHANGED <<call, before>> /\ pc' = "idle" /\ outcome' = Lost /\ busy' = Rest
      /\ address' = 0 /\ buffer' = <<>> /\ paddress' = 0 /\ pbuffer' = <<>>
  BY DEF LosePower
<1>3. FlashTypes /\ DamageIsLocal /\ done \subseteq Exposed
  BY <1>1, BusyChanges DEF FlashInv
<1>4. FlashTypes'
  BY <1>1, <1>2, <1>3, WorkedIs DEF FlashTypes, AtErase, AtPage
<1>5. Exposed' = Exposed
  BY <1>2, SameCall
<1>6. DamageIsLocal'
  BY <1>1, <1>2, <1>3, <1>5, WorkedIs DEF DamageIsLocal
<1>7. WritesAreExact'
  BY <1>2 DEF WritesAreExact, Lost
<1> QED  BY <1>2, <1>4, <1>6, <1>7
         DEF FlashInv, Remains, Writing, Erasing, Programming, Working, AtErase, AtPage

\* The chip comes to the end of its work, or fails in it.
LEMMA FlashFinish ==
  ASSUME FlashInv, Finish
  PROVE  FlashInv'
<1>1. PICK done \in SUBSET Changed(busy) :
         mem' = Worked(done) /\ (failed' \/ done = Changed(busy))
  BY DEF Finish
<1>2. /\ UNCHANGED <<pc, outcome, address, buffer, paddress, pbuffer, call, before>>
      /\ busy # Rest /\ busy' = Rest
  BY DEF Finish, program
<1>3. FlashTypes /\ DamageIsLocal /\ done \subseteq Exposed /\ Remains
  BY <1>1, BusyChanges DEF FlashInv
<1>4. FlashTypes'
  BY <1>1, <1>2, <1>3, WorkedIs DEF FlashTypes, AtErase, AtPage
<1>5. Exposed' = Exposed /\ \A a \in Addresses : Expected(a)' = Expected(a)
  BY <1>2, SameCall
<1>6. DamageIsLocal'
  BY <1>1, <1>2, <1>3, <1>5, WorkedIs DEF DamageIsLocal
<1>7. pc \in {"erase_wait", "page_wait"}
  BY <1>2, BusyChanges
<1>8. WritesAreExact' /\ Writing' /\ Working' /\ Remains'
  BY <1>2, <1>3, <1>7 DEF WritesAreExact, Writing, Working, Remains
<1>9. \A a \in Addresses : Goal(a)' = Goal(a)
  BY <1>2, <1>5 DEF Goal, Written
<1>10. Area' = Area /\ Todo' = Todo /\ WriteSize' = WriteSize
  BY <1>2 DEF Area, Todo, WriteSize, SectorOf
<1>11. CASE pc = "erase_wait"
  <2>1. busy.op = "erase" /\ Changed(busy) = Area
    BY <1>2, <1>11, BusyChanges
  <2>2. AtErase /\ ~ AtPage /\ Erasing /\ paddress \in Addresses
    BY <1>11 DEF AtErase, AtPage, FlashInv, Erasing
  <2>3. Area \subseteq Addresses
    BY <2>2, Sectors DEF Area
  <2>4. \A a \in Addresses \ Area : mem'[a] = mem[a]
    BY <1>1, <1>3, <2>1, WorkedIs
  <2>5. ~ failed' => \A a \in Area : mem'[a] = Erased
    BY <1>1, <1>3, <2>1, <2>3, WorkedIs
  <2>6. \A a \in Area : Written(a)' = Written(a)
    BY <1>2 DEF Written
  <2>7. Erasing'
    <3>1. SectorOf(paddress)' = SectorOf(paddress)
      BY <1>2 DEF SectorOf
    <3> QED  BY <1>2, <1>5, <1>9, <1>10, <2>2, <2>4, <2>5, <2>6, <3>1 DEF Erasing
  <2>8. Programming'
    BY <1>2, <2>2 DEF Programming, AtPage
  <2> QED  BY <1>4, <1>6, <1>8, <2>7, <2>8 DEF FlashInv
<1>12. CASE pc = "page_wait"
  <2>1. /\ busy.op = "program"
        /\ Changed(busy) = {a \in From(paddress, WriteSize) : pbuffer[a - paddress + 1] # Erased}
        /\ From(paddress, WriteSize) \subseteq Todo
    BY <1>2, <1>12, BusyChanges
  <2>2. AtPage /\ ~ AtErase /\ Programming /\ Todo \subseteq Addresses
    BY <1>12 DEF AtErase, AtPage, FlashInv, Programming
  <2>3. \A a \in Addresses \ Todo : mem'[a] = mem[a]
    BY <1>1, <1>3, <2>1, WorkedIs
  <2>4. \A a \in Todo : IF a \in done THEN mem'[a] = 0 ELSE mem'[a] = mem[a]
    BY <1>1, <1>3, <2>1, <2>2, WorkedIs
  <2>5. \A a \in Todo : Goal(a) = IF pbuffer[a - paddress + 1] # Erased THEN 0 ELSE mem'[a]
    BY <1>1, <2>1, <2>2, <2>4 DEF Programming
  <2>6. ~ failed' => \A a \in From(paddress, WriteSize) : mem'[a] = Goal(a)
    BY <1>1, <2>1, <2>4, <2>5
  <2>7. Programming'
    BY <1>2, <1>5, <1>9, <1>10, <2>1, <2>2, <2>3, <2>5, <2>6 DEF Programming
  <2>8. Erasing'
    BY <1>2, <2>2 DEF Erasing, AtErase
  <2> QED  BY <1>4, <1>6, <1>8, <2>7, <2>8 DEF FlashInv
<1> QED  BY <1>7, <1>11, <1>12

\* The program calls the driver.
LEMMA FlashCall ==
  ASSUME FlashInv, NEW op \in {"write", "erase", "program"}, NEW a \in Addresses,
         NEW data \in Seq(Bytes), a + Len(data) <= Size, Call(op, a, data)
  PROVE  FlashInv'
<1> USE DEF Work
<1>1. /\ pc = "idle" /\ UNCHANGED <<outcome, mem, wel, busy, failed>>
      /\ call' = [op |-> op, address |-> a, data |-> data] /\ before' = mem
      /\ pc' = IF op = "write" THEN "write" ELSE IF op = "erase" THEN "erase" ELSE "page"
      /\ address' = a /\ buffer' = data /\ paddress' = a /\ pbuffer' = data
  BY DEF Call, chip
<1>2. FlashTypes /\ busy = Rest
  BY <1>1 DEF FlashInv, Working
<1>3. a \in Nat /\ a < Size /\ Len(data) \in Nat /\ Size \in Nat /\ DOMAIN data = 1 .. Len(data)
  BY FlashAssumption DEF Addresses
<1>4. FlashTypes'
  BY <1>1, <1>2, <1>3 DEF FlashTypes, AtErase, AtPage
<1>5. DamageIsLocal' /\ WritesAreExact' /\ Working'
  BY <1>1, <1>2 DEF DamageIsLocal, WritesAreExact, Working
<1>6. CASE op = "write"
  <2>1. Remains'
    BY <1>1, <1>3, <1>6 DEF Remains
  <2>2. \A x \in Addresses : Written(x)' = before'[x]
    BY <1>1, <1>3 DEF Written
  <2>3. Writing'
    BY <1>1, <1>6, <2>2 DEF Writing
  <2> QED  BY <1>1, <1>4, <1>5, <1>6, <2>1, <2>3
           DEF FlashInv, Erasing, Programming, AtErase, AtPage
<1>7. CASE op = "erase"
  <2>1. Exposed' = Area' /\ \A x \in Addresses \ Area' : Expected(x)' = before'[x]
    BY <1>1, <1>7 DEF Exposed, Expected, Changed, Area, SectorOf
  <2>2. Erasing'
    BY <1>1, <1>7, <2>1 DEF Erasing, Goal
  <2> QED  BY <1>1, <1>4, <1>5, <1>7, <2>2
           DEF FlashInv, Remains, Writing, Programming, AtErase, AtPage
<1>8. CASE op = "program"
  <2>1. Exposed' = Todo' /\ Todo' = From(a, Len(data))
    BY <1>1, <1>8 DEF Exposed, Todo
  <2>2. Todo' \subseteq Addresses
    BY <1>3, <2>1 DEF From, Addresses
  <2>3. ASSUME NEW x \in Addresses \ Todo' PROVE Expected(x)' = before'[x]
    <3>1. x \in Int /\ ~ (x - a + 1 \in 1 .. Len(data))
      BY <1>3, <2>1 DEF From, Addresses
    <3> QED  BY <1>1, <1>3, <1>8, <3>1 DEF Expected
  <2>4. ASSUME NEW x \in Todo'
        PROVE  Expected(x)' = IF data[x - a + 1] # Erased THEN 0 ELSE before'[x]
    <3>1. x \in Int /\ x - a + 1 \in 1 .. Len(data)
      BY <1>3, <2>1 DEF From, Addresses
    <3> QED  BY <1>1, <1>3, <1>8, <3>1 DEF Expected
  <2>5. Programming'
    BY <1>1, <1>8, <2>1, <2>2, <2>3, <2>4 DEF Programming, Goal
  <2> QED  BY <1>1, <1>4, <1>5, <1>8, <2>5
           DEF FlashInv, Remains, Writing, Erasing, AtErase, AtPage
<1> QED  BY <1>6, <1>7, <1>8

\* The driver enables a write, when the chip is at rest.
LEMMA FlashEnable ==
  ASSUME FlashInv, EnableErase \/ EnableProgram
  PROVE  FlashInv'
<1>1. /\ UNCHANGED <<outcome, address, buffer, paddress, pbuffer, mem, busy, failed, call, before>>
      /\ (pc = "erase" /\ pc' = "erase_command") \/ (pc = "page" /\ pc' = "page_command")
      /\ wel' = (wel \/ busy = Rest)
  BY DEF EnableErase, EnableProgram, Enable, Goto, program, history
<1>2. FlashTypes /\ Remains /\ Erasing /\ Programming /\ Working /\ DamageIsLocal
  BY DEF FlashInv
<1>3. busy = Rest /\ wel'
  BY <1>1, <1>2 DEF Working
<1>4. FlashTypes' /\ Remains'
  BY <1>1, <1>2 DEF FlashTypes, Remains, AtErase, AtPage
<1>5. Exposed' = Exposed /\ \A a \in Addresses : Expected(a)' = Expected(a)
  BY <1>1, SameCall
<1>6. \A a : Written(a)' = Written(a)
  BY <1>1 DEF Written
<1>7. \A a \in Addresses : Goal(a)' = Goal(a)
  BY <1>1, <1>5, <1>6 DEF Goal
<1>8. Area' = Area /\ Todo' = Todo /\ SectorOf(paddress)' = SectorOf(paddress)
  BY <1>1 DEF Area, Todo, SectorOf
<1>9. AtErase' = AtErase /\ AtPage' = AtPage
  BY <1>1 DEF AtErase, AtPage
<1>10. DamageIsLocal' /\ WritesAreExact' /\ Writing' /\ Working'
  BY <1>1, <1>2, <1>3, <1>5 DEF DamageIsLocal, WritesAreExact, Writing, Working
<1>11. Erasing'
  BY <1>1, <1>2, <1>5, <1>6, <1>7, <1>8, <1>9 DEF Erasing
<1>12. Programming'
  BY <1>1, <1>2, <1>5, <1>7, <1>8, <1>9 DEF Programming
<1> QED  BY <1>4, <1>10, <1>11, <1>12 DEF FlashInv

\* The chip takes the command.
LEMMA FlashCommand ==
  ASSUME FlashInv, Erase \/ Program
  PROVE  FlashInv'
<1>1. UNCHANGED <<outcome, address, buffer, paddress, pbuffer, mem, wel, failed, call, before>>
  BY DEF Erase, Program, Goto, Accept, program, history
<1>2. FlashTypes /\ Remains /\ Erasing /\ Programming /\ Working /\ DamageIsLocal
  BY DEF FlashInv
<1>3. \/ /\ pc = "erase_command" /\ pc' = "erase_wait"
         /\ busy' = Work("erase", paddress, <<>>)
      \/ /\ pc = "page_command" /\ pc' = "page_wait"
         /\ busy' = Work("program", paddress, SubSeq(pbuffer, 1, WriteSize))
  BY <1>2 DEF Erase, Program, Goto, Accept, Polled, Working
<1>4. busy' # Rest
  BY <1>3 DEF Work, Rest
<1>5. FlashTypes' /\ Remains'
  BY <1>1, <1>2, <1>3 DEF FlashTypes, Remains, AtErase, AtPage
<1>6. Exposed' = Exposed /\ \A a \in Addresses : Expected(a)' = Expected(a)
  BY <1>1, SameCall
<1>7. \A a : Written(a)' = Written(a)
  BY <1>1 DEF Written
<1>8. \A a \in Addresses : Goal(a)' = Goal(a)
  BY <1>1, <1>6, <1>7 DEF Goal
<1>9. /\ Area' = Area /\ Todo' = Todo /\ SectorOf(paddress)' = SectorOf(paddress)
      /\ WriteSize' = WriteSize
  BY <1>1 DEF Area, Todo, SectorOf, WriteSize
<1>10. AtErase' = AtErase /\ AtPage' = AtPage
  BY <1>3 DEF AtErase, AtPage
<1>11. DamageIsLocal' /\ WritesAreExact' /\ Writing' /\ Working'
  BY <1>1, <1>2, <1>3, <1>6, <1>9 DEF DamageIsLocal, WritesAreExact, Writing, Working
<1>12. Erasing'
  BY <1>1, <1>2, <1>4, <1>6, <1>7, <1>8, <1>9, <1>10 DEF Erasing
<1>13. Programming'
  BY <1>1, <1>2, <1>4, <1>6, <1>8, <1>9, <1>10 DEF Programming
<1> QED  BY <1>5, <1>11, <1>12, <1>13 DEF FlashInv

\* The call returns an error.
LEMMA FlashFails ==
  ASSUME FlashInv, EraseFails \/ ProgramFails
  PROVE  FlashInv'
<1>1. /\ UNCHANGED <<address, buffer, paddress, pbuffer, mem, wel, busy, failed, call, before>>
      /\ pc' = "idle" /\ outcome' # 0 /\ busy = Rest
  BY DEF EraseFails, ProgramFails, Return, Polled, program, chip, history
<1>2. FlashTypes /\ DamageIsLocal
  BY DEF FlashInv
<1>3. FlashTypes'
  BY <1>1, <1>2 DEF FlashTypes, AtErase, AtPage
<1>4. DamageIsLocal' /\ WritesAreExact'
  BY <1>1, <1>2, SameCall DEF DamageIsLocal, WritesAreExact
<1> QED  BY <1>1, <1>3, <1>4
         DEF FlashInv, Remains, Writing, Erasing, Programming, Working, AtErase, AtPage

\* The call returns 0.
LEMMA FlashReturns ==
  ASSUME FlashInv, UNCHANGED <<mem, wel, busy, call, before>>, pc' = "idle", busy = Rest,
         UNCHANGED <<address, buffer, paddress, pbuffer>>,
         \A a \in Addresses : mem[a] = Expected(a)
  PROVE  FlashInv'
<1>1. FlashTypes /\ DamageIsLocal
  BY DEF FlashInv
<1>2. FlashTypes'
  BY <1>1 DEF FlashTypes, AtErase, AtPage
<1>3. DamageIsLocal' /\ WritesAreExact'
  BY <1>1, SameCall DEF DamageIsLocal, WritesAreExact
<1> QED  BY <1>2, <1>3
         DEF FlashInv, Remains, Writing, Erasing, Programming, Working, AtErase, AtPage

\* flash_write() has written all of its data.
LEMMA FlashWritten ==
  ASSUME FlashInv, WriteEnds
  PROVE  FlashInv'
<1>1. /\ pc = "write" /\ buffer = <<>> /\ pc' = "idle"
      /\ UNCHANGED <<mem, wel, busy, call, before, address, buffer, paddress, pbuffer>>
  BY DEF WriteEnds, Return, program, chip, history
<1>2. FlashTypes /\ Remains /\ busy = Rest /\ call.op = "write"
      /\ \A a \in Addresses : mem[a] = Written(a)
  BY <1>1 DEF FlashInv, Working, Writing
<1>3. Len(buffer) = 0
  BY <1>1
<1>4. /\ address = call.address + Len(call.data) /\ call.address \in Nat
      /\ Len(call.data) \in Nat /\ DOMAIN call.data = 1 .. Len(call.data) /\ address \in Nat
  BY <1>1, <1>2, <1>3 DEF Remains, FlashTypes
<1>5. ASSUME NEW a \in Addresses PROVE Written(a) = Expected(a)
  <2> DEFINE i == a - call.address + 1
  <2>1. a \in call.address .. address - 1 <=> i \in 1 .. Len(call.data)
    BY <1>4 DEF Addresses
  <2> QED  BY <1>2, <1>4, <2>1 DEF Written, Expected
<1> QED  BY <1>1, <1>2, <1>5, FlashReturns

\* flash_write() goes on with a sector.
LEMMA FlashSector ==
  ASSUME FlashInv, NextSector
  PROVE  FlashInv'
<1> DEFINE start == SectorOf(address)
           room == start + Sector - address
           n == IF Len(buffer) < room THEN Len(buffer) ELSE room
<1>1. /\ buffer # <<>> /\ pc = "write" /\ pc' = "erase"
      /\ UNCHANGED <<outcome, mem, wel, busy, failed, call, before>>
      /\ paddress' = start /\ pbuffer' = Image(start) /\ address' = address + n
      /\ buffer' = SubSeq(buffer, n + 1, Len(buffer))
  BY DEF NextSector, Goto, chip, history
<1>2. /\ FlashTypes /\ Remains /\ DamageIsLocal /\ busy = Rest /\ call.op = "write"
      /\ \A a \in Addresses : mem[a] = Written(a)
  BY <1>1 DEF FlashInv, Working, Writing
<1>3. /\ call.address \in Nat /\ address \in Nat /\ Len(buffer) \in Nat /\ Len(buffer) >= 1
      /\ Len(call.data) \in Nat /\ call.address + Len(call.data) <= Size
      /\ Size \in Nat /\ Sector \in Nat
  BY <1>1, <1>2, FlashAssumption DEF FlashTypes
<1>4. /\ call.address <= address /\ address + Len(buffer) = call.address + Len(call.data)
      /\ \A i \in 1 .. Len(buffer) : buffer[i] = call.data[address - call.address + i]
  BY <1>1, <1>2 DEF Remains
<1>5. address \in Addresses
  BY <1>3, <1>4 DEF Addresses
<1>6. /\ start \in Addresses /\ start <= address /\ address < start + Sector
      /\ start + Sector <= Size /\ SectorOf(start) = start
      /\ \A x \in From(start, Sector) : x \in Addresses /\ SectorOf(x) = start
  BY <1>5, Sectors
<1>7. start \in Nat
  BY <1>6 DEF Addresses
<1> HIDE DEF start
<1>8. /\ n \in Nat /\ n <= Len(buffer) /\ address + n <= start + Sector
      /\ n = Len(buffer) \/ address + n = start + Sector
  BY <1>3, <1>6, <1>7
<1> HIDE DEF n
<1>9. call' = call /\ before' = before /\ address' = address + n
  BY <1>1
<1>10. Area' = From(start, Sector) /\ SectorOf(paddress)' = start
  BY <1>1, <1>6 DEF Area, SectorOf
<1>11. ASSUME NEW a \in From(start, Sector)
       PROVE  /\ a - start + 1 \in 1 .. Sector /\ pbuffer'[a - start + 1] = Written(a)'
              /\ Written(a)' \in Bytes
  <2>1. a \in Addresses /\ a \in Int /\ a - start + 1 \in 1 .. Sector
        /\ start + (a - start + 1) - 1 = a /\ a < start + Sector
    BY <1>3, <1>6, <1>7 DEF From
  <2>2. pbuffer'[a - start + 1] =
           IF a \in From(address, Len(buffer)) THEN buffer[a - address + 1] ELSE mem[a]
    BY <1>1, <2>1 DEF Image
  <2>3. Written(a)' = IF a \in call.address .. address + n - 1
                      THEN call.data[a - call.address + 1] ELSE before[a]
    BY <1>3, <1>8, <1>9 DEF Written
  <2>4. mem[a] = Written(a) /\ mem[a] \in Bytes
    BY <1>2, <2>1 DEF FlashTypes
  <2>5. CASE a < address
    <3>1. a \notin From(address, Len(buffer))
      BY <1>3, <2>1, <2>5 DEF From
    <3>2. a \in call.address .. address - 1 <=> a \in call.address .. address + n - 1
      BY <1>3, <1>8, <2>1, <2>5
    <3> QED  BY <2>1, <2>2, <2>3, <2>4, <3>1, <3>2 DEF Written
  <2>6. CASE ~ (a < address) /\ a < address + n
    <3> DEFINE i == a - address + 1
    <3>1. a \in Int /\ n \in Nat /\ address \in Nat /\ Len(buffer) \in Nat
          /\ call.address \in Nat /\ n <= Len(buffer) /\ a < address + n /\ address <= a
          /\ call.address <= address
      BY <1>3, <1>4, <1>8, <2>1, <2>6
    <3>2. i \in 1 .. Len(buffer) /\ address - call.address + i = a - call.address + 1
      BY <3>1
    <3>3. a \in From(address, Len(buffer)) /\ a \in call.address .. address + n - 1
      BY <3>1 DEF From
    <3>4. pbuffer'[a - start + 1] = buffer[i]
      BY <2>2, <3>3
    <3> HIDE DEF i
    <3>5. buffer[i] = call.data[address - call.address + i] /\ buffer[i] \in Bytes
      BY <1>2, <1>4, <3>2 DEF FlashTypes
    <3> QED  BY <2>1, <2>3, <3>2, <3>3, <3>4, <3>5
  <2>7. CASE ~ (a < address + n)
    <3>1. n = Len(buffer)
      BY <1>3, <1>7, <1>8, <2>1, <2>7
    <3>2. /\ a \notin From(address, Len(buffer)) /\ a \notin call.address .. address - 1
          /\ a \notin call.address .. address + n - 1
      BY <1>3, <1>8, <2>1, <2>7, <3>1 DEF From
    <3> QED  BY <2>1, <2>2, <2>3, <2>4, <3>2 DEF Written
  <2> QED  BY <1>3, <1>8, <2>1, <2>5, <2>6, <2>7
<1>12. pbuffer' \in Seq(Bytes) /\ Len(pbuffer') = Sector
  <2>1. ASSUME NEW i \in 1 .. Sector PROVE Image(start)[i] \in Bytes
    <3> DEFINE a == start + i - 1
    <3>1. a \in From(start, Sector) /\ a - start + 1 = i
      BY <1>3, <1>7 DEF From
    <3> HIDE DEF a
    <3> QED  BY <1>1, <1>11, <3>1
  <2>2. DOMAIN Image(start) = 1 .. Sector /\ Image(start) = [i \in 1 .. Sector |-> Image(start)[i]]
    BY DEF Image
  <2>3. Image(start) \in [1 .. Sector -> Bytes]
    BY <2>1, <2>2
  <2> QED  BY <1>1, <1>3, <2>3
<1>13. /\ buffer' \in Seq(Bytes) /\ Len(buffer') = Len(buffer) - n
       /\ \A i \in 1 .. Len(buffer) - n : buffer'[i] = buffer[n + i]
  BY <1>1, <1>2, <1>3, <1>8 DEF FlashTypes
<1>14. FlashTypes'
  BY <1>1, <1>2, <1>3, <1>7, <1>8, <1>12, <1>13 DEF FlashTypes, AtErase, AtPage
<1>15. Remains'
  <2>1. ASSUME NEW i \in 1 .. Len(buffer')
        PROVE  buffer'[i] = call.data[(address + n) - call.address + i]
    <3>1. n + i \in 1 .. Len(buffer)
          /\ address - call.address + (n + i) = (address + n) - call.address + i
      BY <1>3, <1>8, <1>13
    <3> QED  BY <1>4, <1>13, <3>1
  <2>2. call.address <= address + n /\ address + n + Len(buffer') = call.address + Len(call.data)
    BY <1>3, <1>4, <1>8, <1>13
  <2> QED  BY <1>1, <2>1, <2>2 DEF Remains
<1>16. Exposed' = Exposed /\ From(start, Sector) \subseteq Exposed
  <2>1. address \in From(call.address, Len(call.data))
    BY <1>3, <1>4 DEF From
  <2>2. SectorOf(address) = start
    BY DEF start
  <2> QED  BY <1>1, <1>2, <1>6, <2>1, <2>2, SameCall DEF Exposed
<1>17. ASSUME NEW a \in Addresses \ From(start, Sector) PROVE Written(a)' = mem[a]
  <2>1. Written(a)' = IF a \in call.address .. address + n - 1
                      THEN call.data[a - call.address + 1] ELSE before[a]
    BY <1>3, <1>8, <1>9 DEF Written
  <2>2. a \in call.address .. address - 1 <=> a \in call.address .. address + n - 1
    BY <1>3, <1>6, <1>7, <1>8 DEF From, Addresses
  <2>3. mem[a] = Written(a)
    BY <1>2
  <2> QED  BY <2>2, <2>3, <2>1 DEF Written
<1>18. Erasing'
  BY <1>1, <1>2, <1>6, <1>10, <1>11, <1>12, <1>16, <1>17 DEF Erasing, Goal
<1>19. DamageIsLocal' /\ WritesAreExact' /\ Writing' /\ Working' /\ Programming'
  BY <1>1, <1>2, <1>16 DEF DamageIsLocal, WritesAreExact, Writing, Working, Programming, AtPage
<1> QED  BY <1>14, <1>15, <1>18, <1>19 DEF FlashInv

\* The sector is empty: flash_write() goes on to program it.
LEMMA FlashErased ==
  ASSUME FlashInv, EraseEnds
  PROVE  FlashInv'
<1>1. /\ pc = "erase_wait" /\ busy = Rest /\ ~ failed
      /\ UNCHANGED <<mem, wel, busy, failed, call, before, address, buffer, paddress, pbuffer>>
      /\ call.op = "write" => pc' = "page" /\ outcome' = outcome
      /\ call.op # "write" => pc' = "idle"
  BY DEF EraseEnds, Polled, Goto, Return, program, chip, history
<1>2. FlashTypes /\ Remains /\ DamageIsLocal
  BY DEF FlashInv
<1>3. /\ call.op \in {"write", "erase"} /\ paddress \in Addresses /\ Area \subseteq Exposed
      /\ \A a \in Addresses \ Area : mem[a] = Goal(a)
      /\ \A a \in Area : mem[a] = Erased
  BY <1>1 DEF FlashInv, Erasing, AtErase
<1>4. Area \subseteq Addresses
  BY <1>3, Sectors DEF Area
<1>5. CASE call.op = "erase"
  <2>1. paddress = call.address
    BY <1>1, <1>5 DEF FlashInv, Erasing, AtErase
  <2>2. Changed(call) = Area
    BY <1>5, <2>1 DEF Changed, Area
  <2>3. ASSUME NEW a \in Addresses PROVE mem[a] = Expected(a)
    BY <1>3, <1>5, <2>2 DEF Goal, Expected
  <2> QED  BY <1>1, <1>5, <2>3, FlashReturns
<1>6. CASE call.op = "write"
  <2>1. /\ SectorOf(paddress) = paddress /\ Len(pbuffer) = Sector
        /\ \A a \in Area : pbuffer[a - paddress + 1] = Written(a)
    BY <1>1, <1>6 DEF FlashInv, Erasing, AtErase
  <2>2. Todo = Area /\ Todo' = Todo
    BY <1>1, <2>1 DEF Todo, Area
  <2>3. ASSUME NEW a \in Area PROVE pbuffer[a - paddress + 1] \in Bytes
    <3>1. a - paddress + 1 \in 1 .. Len(pbuffer)
      BY <1>3, <2>1, FlashAssumption DEF Area, From, Addresses
    <3> QED  BY <1>2, <3>1 DEF FlashTypes
  <2>4. \A a \in Area : Goal(a) = IF pbuffer[a - paddress + 1] # Erased THEN 0 ELSE mem[a]
    BY <1>3, <1>6, <2>1, <2>3 DEF Goal, Bytes
  <2>5. Exposed' = Exposed /\ \A a \in Addresses : Goal(a)' = Goal(a)
    BY <1>1, <1>6, SameCall DEF Goal, Written
  <2>6. Programming'
    BY <1>1, <1>3, <1>4, <1>6, <2>2, <2>4, <2>5 DEF Programming
  <2>7. FlashTypes' /\ Remains'
    BY <1>1, <1>2, <1>6 DEF FlashTypes, Remains, AtErase, AtPage
  <2>8. DamageIsLocal' /\ WritesAreExact' /\ Writing' /\ Working' /\ Erasing'
    BY <1>1, <1>2, <1>6, <2>5 DEF DamageIsLocal, WritesAreExact, Writing, Working, Erasing, AtErase
  <2> QED  BY <2>6, <2>7, <2>8 DEF FlashInv
<1> QED  BY <1>3, <1>5, <1>6

\* The chip has programmed what was left of the page.
LEMMA FlashProgrammed ==
  ASSUME FlashInv, ProgramGoesOn
  PROVE  FlashInv'
<1>1. /\ pc = "page_wait" /\ pc' = "page" /\ busy = Rest /\ ~ failed
      /\ UNCHANGED <<outcome, mem, wel, busy, failed, call, before, address, buffer>>
      /\ paddress' = paddress + WriteSize
      /\ pbuffer' = SubSeq(pbuffer, WriteSize + 1, Len(pbuffer))
  BY DEF ProgramGoesOn, Polled, Goto, chip, history
<1> DEFINE n == WriteSize
<1>2. FlashTypes /\ Remains /\ DamageIsLocal
  BY DEF FlashInv
<1>3. /\ call.op \in {"write", "program"} /\ Todo \subseteq Exposed /\ Todo \subseteq Addresses
      /\ \A a \in Addresses \ Todo : mem[a] = Goal(a)
      /\ \A a \in Todo : Goal(a) = IF pbuffer[a - paddress + 1] # Erased THEN 0 ELSE mem[a]
      /\ \A a \in From(paddress, n) : mem[a] = Goal(a)
  BY <1>1 DEF FlashInv, Programming, AtPage
<1>4. paddress \in Nat /\ n \in Nat /\ n <= Len(pbuffer) /\ Len(pbuffer) \in Nat
  BY <1>2, WriteSizeIs DEF FlashTypes
<1> HIDE DEF n
<1>5. paddress' = paddress + n /\ pbuffer' = SubSeq(pbuffer, n + 1, Len(pbuffer))
  BY <1>1 DEF n
<1>6. /\ pbuffer' \in Seq(Bytes) /\ Len(pbuffer') = Len(pbuffer) - n
      /\ \A i \in 1 .. Len(pbuffer) - n : pbuffer'[i] = pbuffer[n + i]
  BY <1>2, <1>4, <1>5 DEF FlashTypes
<1>7. FlashTypes' /\ Remains'
  <2>1. paddress' \in Nat
    BY <1>4, <1>5
  <2>2. FlashTypes'
    BY <1>1, <1>2, <1>6, <2>1 DEF FlashTypes, AtErase, AtPage
  <2>3. Remains'
    BY <1>1, <1>2 DEF Remains
  <2> QED  BY <2>2, <2>3
<1>8. Exposed' = Exposed /\ \A a \in Addresses : Goal(a)' = Goal(a)
  BY <1>1, SameCall DEF Goal, Written
<1>9. DamageIsLocal' /\ WritesAreExact' /\ Writing' /\ Working' /\ Erasing'
  BY <1>1, <1>2, <1>8 DEF DamageIsLocal, WritesAreExact, Writing, Working, Erasing, AtErase
<1>10. ASSUME NEW a \in Todo'
       PROVE  a \in Todo /\ pbuffer'[a - paddress' + 1] = pbuffer[a - paddress + 1]
  <2> DEFINE i == a - (paddress + n) + 1
  <2>1. a \in paddress + n .. (paddress + n) + (Len(pbuffer) - n) - 1
    BY <1>5, <1>6 DEF Todo, From
  <2>2. i \in 1 .. Len(pbuffer) - n /\ n + i = a - paddress + 1
    BY <1>4, <2>1
  <2>3. a \in Todo
    BY <1>4, <2>1 DEF Todo, From
  <2>4. pbuffer'[a - paddress' + 1] = pbuffer'[i]
    BY <1>5
  <2> HIDE DEF i
  <2> QED  BY <1>6, <2>2, <2>3, <2>4
<1>11. ASSUME NEW a \in Addresses \ Todo' PROVE mem[a] = Goal(a)
  <2>1. CASE a \in From(paddress, n)
    BY <1>3, <2>1
  <2>2. CASE a \notin From(paddress, n)
    <3>1. Todo' = paddress + n .. (paddress + n) + (Len(pbuffer) - n) - 1
      BY <1>5, <1>6 DEF Todo, From
    <3>2. a \in Int /\ a \notin paddress .. paddress + n - 1 /\ a \notin Todo'
      BY <2>2 DEF From, Addresses
    <3>3. a \notin paddress .. paddress + Len(pbuffer) - 1
      BY <1>4, <3>1, <3>2
    <3>4. a \notin Todo
      BY <3>3 DEF Todo, From
    <3> QED  BY <1>3, <3>4
  <2> QED  BY <2>1, <2>2
<1>12. Programming'
  BY <1>1, <1>3, <1>8, <1>10, <1>11 DEF Programming
<1> QED  BY <1>7, <1>9, <1>12 DEF FlashInv

\* flash_page_program() returns, to flash_write() or to the program.
LEMMA FlashPageEnds ==
  ASSUME FlashInv, ProgramEnds
  PROVE  FlashInv'
<1>1. /\ pc = "page" /\ pbuffer = <<>>
      /\ UNCHANGED <<mem, wel, busy, failed, call, before, address, buffer, paddress, pbuffer>>
      /\ call.op = "write" => pc' = "write" /\ outcome' = outcome
      /\ call.op # "write" => pc' = "idle"
  BY DEF ProgramEnds, Goto, Return, program, chip, history
<1>2. FlashTypes /\ Remains /\ DamageIsLocal /\ busy = Rest
  BY <1>1 DEF FlashInv, Working
<1>3. call.op \in {"write", "program"} /\ \A a \in Addresses \ Todo : mem[a] = Goal(a)
  BY <1>1 DEF FlashInv, Programming, AtPage
<1>4. Todo = {}
  <2>1. Len(pbuffer) = 0 /\ paddress \in Nat
    BY <1>1, <1>2 DEF FlashTypes
  <2> QED  BY <2>1 DEF Todo, From
<1>5. CASE call.op = "program"
  BY <1>1, <1>2, <1>3, <1>4, <1>5, FlashReturns DEF Goal
<1>6. CASE call.op = "write"
  <2>1. \A a \in Addresses : mem'[a] = Written(a)'
    BY <1>1, <1>3, <1>4, <1>6 DEF Goal, Written
  <2>2. FlashTypes' /\ Remains'
    BY <1>1, <1>2, <1>6 DEF FlashTypes, Remains, AtErase, AtPage
  <2>3. DamageIsLocal' /\ WritesAreExact' /\ Writing' /\ Working'
    BY <1>1, <1>2, <1>6, <2>1, SameCall DEF DamageIsLocal, WritesAreExact, Writing, Working
  <2>4. Erasing' /\ Programming'
    BY <1>1, <1>6 DEF Erasing, Programming, AtErase, AtPage
  <2> QED  BY <2>2, <2>3, <2>4 DEF FlashInv
<1> QED  BY <1>3, <1>5, <1>6

LEMMA FlashStep ==
  ASSUME FlashInv, [Next]_vars
  PROVE  FlashInv'
<1>1. CASE UNCHANGED vars
  <2> USE DEF vars, program, chip, history
  <2>1. Exposed' = Exposed /\ \A a : Goal(a)' = Goal(a)
    BY <1>1, SameCall DEF Goal, Written
  <2>2. Area' = Area /\ Todo' = Todo /\ WriteSize' = WriteSize
        /\ SectorOf(paddress)' = SectorOf(paddress)
    BY <1>1 DEF Area, Todo, WriteSize, SectorOf
  <2>3. FlashTypes' /\ Remains' /\ Writing'
    BY <1>1 DEF FlashInv, FlashTypes, Remains, Writing, Written, AtErase, AtPage
  <2>4. Erasing'
    BY <1>1, <2>1, <2>2 DEF FlashInv, Erasing, AtErase, Written
  <2>5. Programming'
    BY <1>1, <2>1, <2>2 DEF FlashInv, Programming, AtPage
  <2>6. Working'
    BY <1>1, <2>2 DEF FlashInv, Working
  <2>7. DamageIsLocal' /\ WritesAreExact'
    BY <1>1, <2>1, SameCall DEF FlashInv, DamageIsLocal, WritesAreExact
  <2> QED  BY <2>3, <2>4, <2>5, <2>6, <2>7 DEF FlashInv
<1>2. CASE Calls
  <2>1. CASE \E a \in Addresses, data \in Buffers, op \in {"write", "program"} :
                a + Len(data) <= Size /\ Call(op, a, data)
    BY <2>1, FlashCall, FlashAssumption DEF Bytes
  <2>2. CASE \E a \in Addresses : Call("erase", a, <<>>)
    <3>1. <<>> \in Seq(Bytes) /\ \A a \in Addresses : a + Len(<<>>) <= Size
      BY FlashAssumption DEF Addresses
    <3> QED  BY <2>2, <3>1, FlashCall
  <2> QED  BY <1>2, <2>1, <2>2 DEF Calls
<1> QED  BY <1>1, <1>2, FlashSector, FlashWritten, FlashEnable, FlashCommand, FlashFails,
            FlashErased, FlashProgrammed, FlashPageEnds, FlashFinish, FlashLosesPower
         DEF Next, Driver

LEMMA FlashInvariance == FairSpec => []FlashInv
<1>1. FlashInv /\ [Next]_vars => FlashInv'
  BY FlashStep
<1> QED  BY <1>1, FlashStart, PTL DEF FairSpec

\* A call that returns 0 has made of the flash what it is for and has changed
\* nothing else, for sectors and pages of any sizes, data of any length at any
\* place, and any failures of the chip and of the power before it.
THEOREM FlashWritesAreExact == FairSpec => []WritesAreExact
<1>1. FlashInv => WritesAreExact
  BY DEF FlashInv
<1> QED  BY <1>1, FlashInvariance, PTL

\* Whenever the chip or the power fails, and all along, nothing has changed outside
\* the sectors that flash_write() writes, the sector that flash_sector_erase()
\* erases and the data of flash_page_program().
THEOREM FlashDamageIsLocal == FairSpec => []DamageIsLocal
<1>1. FlashInv => DamageIsLocal
  BY DEF FlashInv
<1> QED  BY <1>1, FlashInvariance, PTL
-----------------------------------------------------------------------------
(* mmc.c: the inductive invariant *)

CardTypes ==
    /\ kind \in Kinds /\ present \in BOOLEAN /\ powered \in BOOLEAN
    /\ power_control \in BOOLEAN /\ known \in BOOLEAN /\ noinit \in BOOLEAN
    /\ write \in BOOLEAN /\ programming \in BOOLEAN /\ unstopped \in BOOLEAN
    /\ card \in {"raw", "confused", "idle", "ready", "sending", "receiving"}
    /\ events \in Nat /\ sect \in Nat /\ count \in Nat \ {0} /\ at \in Int
    /\ tries \in {0, 1, 2}

Starting == {"init", "detect", "cmd0"}
Knows8 == {"acmd41", "cmd58"}
Older == {"probe", "sd_leave_idle", "mmc_leave_idle", "cmd16", "bad_length"}
Initializing == Starting \cup {"cmd8", "finish"} \cup Knows8 \cup Older
Calling == {"read", "read_block", "read_stop", "write", "write_block", "write_stop",
            "succeeded", "failed"}

Places ==
    /\ step \in {"app", "opened"} \cup Initializing \cup Calling
    /\ step \in {"opened"} \cup Initializing => tries \in {1, 2}
    /\ step \in {"read", "read_block", "read_stop"} => ~ write
    /\ step \in {"write", "write_block", "write_stop"} => write

\* A socket without power control is always on; a card in one with it has been
\* turned off by the reset.
Power ==
    /\ power_control => card # "confused"
    /\ power_control /\ ~ powered /\ ~ known => card = "raw"
    /\ ~ power_control => powered

\* Nothing has been written before the first initialization that succeeds, and a
\* card that has answered CMD0 has stored what it had received.  So has one that
\* has just been told to receive.
Settled ==
    /\ step \in Calling => ~ noinit
    /\ noinit => ~ programming
    /\ step \in {"cmd8"} \cup Knows8 \cup Older => ~ programming
    /\ step = "write_block" /\ programming => Len(got) # 0

\* Are cards of the two types addressed alike?
Alike(t, k) == t = "sd2block" <=> k = "sd2block"

\* What MMC_disk_initialize() has come to, if the card is still there: a card that
\* has been exchanged is raw.
Identified ==
    C!Alive /\ card # "raw" =>
       /\ step \in {"cmd8"} \cup Knows8 \cup Older => card \in {"idle", "ready"}
       /\ step \in {"cmd8", "probe"} => card = "idle"
       /\ step = "cmd58" => card = "ready"
       /\ step \in Knows8 => kind \in {"sd2", "sd2block"}
       /\ step \in Older => kind \in {"mmc", "sd1"}
       /\ step \in Older \ {"probe"} => ty \in {"mmc", "sd1"}
       /\ step = "finish" /\ ty # "none" => Alike(ty, kind)
       /\ /\ step \notin Initializing /\ CardType # "none"
          /\ card \in {"ready", "sending", "receiving"}
          => Alike(CardType, kind)

\* The card sends or receives while the driver expects it to, or it has missed a
\* stop token: it does so until it is started again.
InTransfer ==
    C!Alive =>
       /\ card = "sending" => step \in {"read_block", "read_stop"}
       /\ card = "receiving" =>
             IF unstopped
             THEN step \in {"app", "opened", "finish", "read", "write", "failed"}
                           \cup Starting
             ELSE step \in {"write_block", "write_stop"}

Progressing ==
    /\ got \in Seq(Int) /\ Len(got) <= count
    /\ step \in {"read_block", "write_block"} => Len(got) < count
    /\ step \in {"read", "write"} => Len(got) = 0
    /\ step = "succeeded" => Len(got) = count

\* On a drive with a card of a known type, what has been read or written are the
\* first sectors of the request, and the card is at the next one.
Exact ==
    step \in Calling /\ CardType # "none" =>
       /\ got = [k \in 1 .. Len(got) |-> sect + k - 1]
       /\ moved = IF write THEN sect .. sect + Len(got) - 1 ELSE {}
       /\ /\ step \in {"read_block", "write_block"}
          /\ C!Alive /\ card \in {"sending", "receiving"}
          => at = sect + Len(got)

\* A card that stays in its socket fails to start at most once, after the reset.
Stays ==
    present /\ events = 0 =>
       /\ noinit =>
             /\ known => powered
             /\ step \in {"detect", "cmd0", "cmd8", "finish"} \cup Knows8 \cup Older => known
             /\ step \in {"cmd8"} \cup Knows8 \cup Older => card # "raw"
             /\ step # "bad_length"
             /\ step \in Starting /\ tries = 2 => card # "confused"
             /\ step \in {"sd_leave_idle", "mmc_leave_idle"} =>
                   kind = IF step = "sd_leave_idle" THEN "sd1" ELSE "mmc"
             /\ step = "cmd16" => card = "ready"
             /\ step = "finish" =>
                   ty # "none" \/ (tries = 1 /\ card = "raw" /\ ~ power_control)
             /\ step = "opened" => tries = 1 /\ card = "raw" /\ ~ power_control
       /\ result # "no_device"

CardInv ==
    /\ CardTypes /\ Places /\ Power /\ Settled
    /\ Identified /\ InTransfer /\ Progressing /\ Exact /\ Stays
-----------------------------------------------------------------------------
(* mmc.c: what the card answers, and the steps of the driver *)

Commands == {"CMD0", "CMD1", "CMD8", "CMD12", "CMD16", "CMD17", "CMD18", "CMD24",
             "CMD25", "CMD58", "ACMD41"}
CardStates == {"raw", "confused", "idle", "ready", "sending", "receiving"}

\* No card, one that has just been inserted, and one in the middle of something
\* answer no command but CMD0.
LEMMA AnswersOfOthers ==
    ASSUME card \in CardStates, NEW cmd \in Commands, NEW answer \in C!Answers(cmd)
    PROVE  /\ ~ C!Alive => answer[1] = "none" /\ answer[2] = card
           /\ C!Alive /\ card = "raw" /\ cmd # "CMD0" =>
                 answer[1] = "none" /\ answer[2] = "raw"
           /\ C!Alive /\ card = "confused" => answer[1] = "illegal" /\ answer[2] = "raw"
           /\ C!Alive /\ card # "confused" /\ cmd = "CMD0" =>
                 answer[1] = "idle" /\ answer[2] = "idle"
  BY DEF C!Answers, CardStates, Commands

\* What a card that has been woken answers.
LEMMA AnswersOfCard ==
    ASSUME card \in CardStates, NEW cmd \in Commands, NEW answer \in C!Answers(cmd),
           C!Alive, card \notin {"raw", "confused"}
    PROVE  /\ cmd = "CMD8" =>
                 IF card = "idle" /\ kind \in {"sd2", "sd2block"}
                 THEN answer[1] = "idle" /\ answer[2] = "idle"
                 ELSE answer[1] = "illegal" /\ answer[2] = card
           /\ cmd \in {"CMD1", "ACMD41"} =>
                 IF card \in {"idle", "ready"} /\ (cmd = "CMD1" <=> kind = "mmc")
                 THEN \/ answer[1] = "ok" /\ answer[2] = "ready"
                      \/ card = "idle" /\ answer[1] = "idle" /\ answer[2] = "idle"
                 ELSE answer[1] = "illegal" /\ answer[2] = card
           /\ cmd \in {"CMD16", "CMD58"} =>
                 IF card = "ready" THEN answer[1] = "ok" /\ answer[2] = "ready"
                                   ELSE answer[1] = "illegal" /\ answer[2] = card
           /\ cmd = "CMD12" =>
                 IF card = "sending" THEN answer[1] = "ok" /\ answer[2] = "ready"
                                     ELSE answer[1] = "illegal" /\ answer[2] = card
           /\ cmd \in {"CMD17", "CMD18"} =>
                 IF card = "ready" THEN answer[1] = "ok" /\ answer[2] = "sending"
                                   ELSE answer[1] = "illegal" /\ answer[2] = card
           /\ cmd \in {"CMD24", "CMD25"} =>
                 IF card = "ready" THEN answer[1] = "ok" /\ answer[2] = "receiving"
                                   ELSE answer[1] = "illegal" /\ answer[2] = card
<1>1. CASE cmd = "CMD8"
  BY <1>1 DEF C!Answers, CardStates
<1>2. CASE cmd \in {"CMD1", "ACMD41"}
  BY <1>2 DEF C!Answers, CardStates
<1>3. CASE cmd \in {"CMD16", "CMD58"}
  BY <1>3 DEF C!Answers, CardStates
<1>4. CASE cmd = "CMD12"
  BY <1>4 DEF C!Answers, CardStates
<1>5. CASE cmd \in {"CMD17", "CMD18"}
  BY <1>5 DEF C!Answers, CardStates
<1>6. CASE cmd \in {"CMD24", "CMD25"}
  BY <1>6 DEF C!Answers, CardStates
<1>7. CASE cmd = "CMD0"
  BY <1>7
<1> QED
  BY <1>1, <1>2, <1>3, <1>4, <1>5, <1>6, <1>7 DEF Commands

InitCommands == {"CMD0", "CMD1", "CMD8", "CMD16", "CMD58", "ACMD41"}
Awake == {"cmd8"} \cup Knows8 \cup Older

\* A command of MMC_disk_initialize() to a card that is ready for it starts no transfer
\* and changes nothing but the card, the place and the type.
LEMMA InitStep ==
    ASSUME CardInv, NEW cmd \in InitCommands, NEW from \in {"cmd0"} \cup Awake, NEW After,
           cmd = "CMD0" \/ from \in Awake, programming' = FALSE,
           C!InitCmd(cmd, from, After), After \in [C!Responses -> Initializing]
    PROVE  /\ step = from /\ step' \in Initializing
           /\ UNCHANGED <<power_control, kind, present, events, powered, write, sect,
                          count, at, moved, known, noinit, CardType, got, result, tries>>
           /\ C!Alive' = C!Alive
           /\ \E answer \in C!Answers(cmd) :
                 card' = answer[2] /\ step' = After[answer[1]] /\ answer[1] \in C!Responses
           /\ CardTypes' /\ Places' /\ Power' /\ Settled' /\ InTransfer' /\ Progressing'
           /\ Exact'
<1>1. /\ step = from
      /\ UNCHANGED <<power_control, kind, present, events, powered, write, sect, count,
                     moved, known, noinit, CardType, got, result, tries>>
      /\ at' = IF card' # card /\ card' \in {"sending", "receiving"} THEN C!SectorAt(0)
               ELSE at
      /\ unstopped' = (unstopped /\ card' = card)
  BY DEF C!InitCmd, C!SendCmd, C!env, C!args, C!status
<1>2. PICK answer \in C!Answers(cmd) : card' = answer[2] /\ step' = After[answer[1]]
  BY DEF C!InitCmd, C!SendCmd, C!WaitTimesOut
<1>3. cmd \in Commands /\ card \in CardStates
  BY DEF InitCommands, Commands, CardInv, CardTypes, CardStates
<1>4. C!Alive' = C!Alive
  BY <1>1 DEF C!Alive
<1>5. C!Alive /\ cmd # "CMD0" => card \notin {"sending", "receiving"}
  BY <1>1 DEF CardInv, InTransfer, Initializing, Starting, Knows8, Older, Awake
<1>6. /\ answer[1] \in C!Responses
      /\ answer[2] = card \/ answer[2] \in {"raw", "idle", "ready"}
      /\ answer[2] # card => C!Alive
      /\ C!Alive => answer[2] \notin {"sending", "receiving"}
  <2>1. CASE ~ C!Alive
    BY <2>1, <1>3, AnswersOfOthers DEF C!Responses
  <2>2. ASSUME C!Alive, card \in {"raw", "confused"} \/ cmd = "CMD0"
        PROVE  /\ answer[1] \in C!Responses
               /\ answer[2] \in {"raw", "idle", "ready"}
    BY <2>2, <1>3, AnswersOfOthers DEF C!Responses, InitCommands, C!Answers
  <2>3. ASSUME C!Alive, card \notin {"raw", "confused"}, cmd # "CMD0"
        PROVE  /\ answer[1] \in C!Responses
               /\ answer[2] \in {card, "raw", "idle", "ready"}
    BY <2>3, <1>3, AnswersOfCard DEF C!Responses, InitCommands, CardStates
  <2>4. CASE C!Alive
    BY <2>2, <2>3, <2>4, <1>5
  <2> QED
    BY <2>1, <2>4
<1>7. step' \in Initializing
  BY <1>2, <1>6
<1>8. at' = at
  BY <1>1, <1>2, <1>6
<1>9. CardTypes'
  <2>1. unstopped' \in BOOLEAN /\ programming' \in BOOLEAN
    BY <1>1, Zenon
  <2> QED
    BY <1>1, <1>2, <1>6, <1>8, <2>1 DEF CardInv, CardTypes
<1>10. Places'
  BY <1>1, <1>7 DEF CardInv, Places, Initializing, Starting, Knows8, Older, Awake, Calling
<1>11. Power'
  BY <1>1, <1>2, <1>6 DEF CardInv, Power, C!Alive
<1>12. InTransfer'
  BY <1>2, <1>4, <1>6 DEF InTransfer
<1>13. Settled' /\ Progressing' /\ Exact'
  <2>1. step' \notin Calling
    BY <1>7 DEF Initializing, Starting, Knows8, Older, Calling
  <2>2. step' \notin {"read_block", "write_block", "read", "write", "succeeded"}
    BY <2>1 DEF Calling
  <2> QED
    BY <2>1, <2>2, <1>1 DEF CardInv, Progressing, Settled, Exact
<1> QED
  BY <1>1, <1>2, <1>4, <1>6, <1>7, <1>8, <1>9, <1>10, <1>11, <1>12, <1>13

\* The card has answered a command; these of its answers lead to one place, the other
\* answers to another.
Answered(cmd, these, place, other) ==
    /\ UNCHANGED <<power_control, kind, present, events, powered, known, noinit,
                   CardType, result, tries>>
    /\ C!Alive' = C!Alive
    /\ programming' = FALSE
    /\ \E answer \in C!Answers(cmd) :
          card' = answer[2] /\ step' = IF answer[1] \in these THEN place ELSE other
    /\ step' \in Initializing
    /\ CardTypes' /\ Places' /\ Power' /\ Settled' /\ InTransfer' /\ Progressing' /\ Exact'

\* So does any command to a card that has answered CMD0.
LEMMA InitBranch ==
    ASSUME CardInv, NEW cmd \in InitCommands, NEW from \in Awake,
           NEW these \in SUBSET C!Responses, NEW place \in Initializing,
           NEW other \in Initializing,
           C!InitCmd(cmd, from, C!Branch(these, place, other))
    PROVE  step = from /\ Answered(cmd, these, place, other)
<1> DEFINE After == C!Branch(these, place, other)
<1>1. /\ After \in [C!Responses -> Initializing]
      /\ \A r \in C!Responses : After[r] = IF r \in these THEN place ELSE other
  BY DEF C!Branch
<1>2. C!InitCmd(cmd, from, After)
  OBVIOUS
<1> HIDE DEF After
<1>3. programming' = FALSE
  <2>1. ~ programming
    BY <1>2 DEF C!InitCmd, C!SendCmd, Awake, CardInv, Settled
  <2> QED
    BY <1>2, <2>1 DEF C!InitCmd, C!SendCmd, C!WaitReady, C!WaitTimesOut
<1>4. /\ step = from /\ step' \in Initializing
      /\ UNCHANGED <<power_control, kind, present, events, powered, known, noinit,
                     CardType, result, tries>>
      /\ C!Alive' = C!Alive
      /\ CardTypes' /\ Places' /\ Power' /\ Settled' /\ InTransfer' /\ Progressing'
      /\ Exact'
      /\ \E answer \in C!Answers(cmd) :
            card' = answer[2] /\ step' = After[answer[1]] /\ answer[1] \in C!Responses
  BY <1>1, <1>2, <1>3, InitStep
<1> QED
  BY <1>1, <1>3, <1>4 DEF Answered

\* A card that answers is one that Identified speaks of.
LEMMA GoIdleStep ==
    ASSUME CardInv, C!GoIdle
    PROVE  CardInv'
<1>1. C!InitCmd("CMD0", "cmd0", C!Branch({"idle"}, "cmd8", "finish")) /\ ty' = "none"
  BY DEF C!GoIdle
<1>2. CASE C!WaitReady
  <2> DEFINE After == C!Branch({"idle"}, "cmd8", "finish")
  <2>1. /\ After \in [C!Responses -> Initializing]
        /\ \A r \in C!Responses : After[r] = IF r = "idle" THEN "cmd8" ELSE "finish"
    BY DEF C!Branch, Initializing, Starting
  <2>2. C!InitCmd("CMD0", "cmd0", After) /\ programming' = FALSE
    BY <1>1, <1>2 DEF C!WaitReady
  <2> HIDE DEF After
  <2>3. /\ "CMD0" \in InitCommands /\ "CMD0" \in Commands
        /\ "cmd0" \in {"cmd0"} \cup Awake /\ ("CMD0" = "CMD0" \/ "cmd0" \in Awake)
    BY DEF InitCommands, Commands
  <2>4. /\ step = "cmd0" /\ step' \in Initializing
        /\ UNCHANGED <<power_control, kind, present, events, powered, known, noinit,
                       CardType, result, tries>>
        /\ C!Alive' = C!Alive
        /\ CardTypes' /\ Places' /\ Power' /\ Settled' /\ InTransfer' /\ Progressing'
        /\ Exact'
    BY <2>1, <2>2, <2>3, InitStep
  <2>5. PICK answer \in C!Answers("CMD0") :
           card' = answer[2] /\ step' = After[answer[1]] /\ answer[1] \in C!Responses
    BY <2>1, <2>2, <2>3, InitStep
  <2>6. card \in CardStates
    BY DEF CardInv, CardTypes, CardStates
  <2>7. /\ ~ C!Alive => step' = "finish" /\ card' = card
        /\ C!Alive /\ card = "confused" => step' = "finish" /\ card' = "raw"
        /\ C!Alive /\ card # "confused" => step' = "cmd8" /\ card' = "idle"
    BY <2>1, <2>3, <2>5, <2>6, AnswersOfOthers
  <2>8. Identified'
    BY <1>1, <2>4, <2>7 DEF CardInv, Identified, Initializing, Starting, Knows8, Older
  <2>9. Stays'
    BY <1>1, <2>4, <2>7
       DEF CardInv, Stays, Starting, Knows8, Older, Initializing, Power, Places, C!Alive
  <2> QED
    BY <2>4, <2>8, <2>9 DEF CardInv
<1>3. CASE C!WaitTimesOut /\ ~ C!WaitReady
  <2>1. /\ step = "cmd0" /\ step' = "finish" /\ card' = card
        /\ programming /\ programming' = TRUE
        /\ unstopped' = (unstopped /\ card' = card) /\ at' = at
        /\ UNCHANGED <<power_control, kind, present, events, powered, write, sect, count,
                       moved, known, noinit, CardType, got, result, tries>>
        /\ C!Alive' = C!Alive
    BY <1>1, <1>3
       DEF C!InitCmd, C!SendCmd, C!WaitTimesOut, C!env, C!args, C!status, C!Branch,
           C!Responses, C!Alive
  <2>2. ~ noinit
    BY <2>1 DEF CardInv, Settled
  <2>3. CardTypes'
    <3>1. unstopped' \in BOOLEAN /\ programming' \in BOOLEAN
      BY <2>1, Zenon
    <3> QED
      BY <2>1, <3>1 DEF CardInv, CardTypes
  <2>4. Places' /\ Power' /\ Settled' /\ Progressing' /\ Exact'
    BY <2>1, <2>2
       DEF CardInv, Places, Power, Settled, Progressing, Exact, Initializing, Starting,
           Knows8, Older, Calling
  <2>5. InTransfer'
    <3>1. unstopped' = unstopped
      BY <2>1 DEF CardInv, CardTypes
    <3> QED
      BY <2>1, <3>1 DEF CardInv, InTransfer
  <2>6. Identified' /\ Stays'
    BY <1>1, <2>1, <2>2
       DEF CardInv, Identified, Stays, Initializing, Starting, Knows8, Older
  <2> QED
    BY <2>3, <2>4, <2>5, <2>6 DEF CardInv
<1> QED
  BY <1>1, <1>2, <1>3 DEF C!InitCmd, C!SendCmd

LEMMA SendIfCondStep ==
    ASSUME CardInv, C!SendIfCond
    PROVE  CardInv'
<1>1. C!InitCmd("CMD8", "cmd8", C!Branch({"idle"}, "acmd41", "probe"))
  BY DEF C!SendIfCond
<1>2. UNCHANGED ty
  BY DEF C!SendIfCond
<1>3. /\ "CMD8" \in InitCommands /\ "CMD8" \in Commands
      /\ "cmd8" \in Awake /\ "acmd41" \in Initializing /\ "probe" \in Initializing
      /\ {"idle"} \in SUBSET C!Responses
  BY DEF InitCommands, Commands, Initializing, Starting, Knows8, Older, Awake, C!Responses
<1>a. step = "cmd8" /\ Answered("CMD8", {"idle"}, "acmd41", "probe")
  BY <1>1, <1>3, InitBranch
<1>4. /\ step = "cmd8" /\ step' \in Initializing
      /\ UNCHANGED <<power_control, kind, present, events, powered, known, noinit,
                     CardType, result, tries>>
      /\ C!Alive' = C!Alive
      /\ programming' = FALSE
      /\ CardTypes' /\ Places' /\ Power' /\ Settled' /\ InTransfer' /\ Progressing'
      /\ Exact'
  BY <1>a DEF Answered
<1>5. PICK answer \in C!Answers("CMD8") :
         card' = answer[2] /\ step' = IF answer[1] \in {"idle"} THEN "acmd41" ELSE "probe"
  BY <1>a DEF Answered
<1>6. card \in CardStates /\ kind \in {"mmc", "sd1", "sd2", "sd2block"}
  BY CardAssumption DEF CardInv, CardTypes, CardStates
<1>7. C!Alive /\ card # "raw" => card \in {"idle"}
  BY <1>4 DEF CardInv, Identified, Initializing, Starting, Knows8, Older
<1>8. /\ ~ C!Alive \/ card = "raw" => step' = "probe" /\ card' = card
      /\ C!Alive /\ card # "raw" => /\ card' = "idle"
         /\ step' = IF kind \in {"sd2", "sd2block"} THEN "acmd41" ELSE "probe"
  <2>1. CASE ~ C!Alive \/ card = "raw"
    BY <1>3, <1>5, <1>6, <2>1, AnswersOfOthers
  <2>2. CASE C!Alive /\ card # "raw"
    BY <1>3, <1>5, <1>6, <1>7, <2>2, AnswersOfCard
       DEF CardInv, Identified, Initializing, Starting, Knows8, Older
  <2> QED
    BY <2>1, <2>2
<1>9. Identified'
  BY <1>2, <1>4, <1>6, <1>7, <1>8
     DEF CardInv, Identified, Initializing, Starting, Knows8, Older, Alike
<1>10. Stays'
  BY <1>2, <1>4, <1>6, <1>7, <1>8
     DEF CardInv, Stays, Identified, Starting, Knows8, Older, Initializing, Power, Places,
         C!Alive
<1> QED
  BY <1>4, <1>9, <1>10 DEF CardInv

LEMMA SendOpCond2Step ==
    ASSUME CardInv, C!SendOpCond2
    PROVE  CardInv'
<1>1. C!InitCmd("ACMD41", "acmd41", C!Branch({"ok"}, "cmd58", "acmd41"))
  BY DEF C!SendOpCond2
<1>2. UNCHANGED ty
  BY DEF C!SendOpCond2
<1>3. /\ "ACMD41" \in InitCommands /\ "ACMD41" \in Commands
      /\ "acmd41" \in Awake /\ "acmd41" \in Initializing
      /\ "cmd58" \in Initializing
      /\ {"ok"} \in SUBSET C!Responses
  BY DEF InitCommands, Commands, Initializing, Starting, Knows8, Older, Awake, C!Responses
<1>a. step = "acmd41" /\ Answered("ACMD41", {"ok"}, "cmd58", "acmd41")
  BY <1>1, <1>3, InitBranch
<1>4. /\ step = "acmd41" /\ step' \in Initializing
      /\ UNCHANGED <<power_control, kind, present, events, powered, known, noinit,
                     CardType, result, tries>>
      /\ C!Alive' = C!Alive
      /\ programming' = FALSE
      /\ CardTypes' /\ Places' /\ Power' /\ Settled' /\ InTransfer' /\ Progressing'
      /\ Exact'
  BY <1>a DEF Answered
<1>5. PICK answer \in C!Answers("ACMD41") :
         card' = answer[2] /\ step' = IF answer[1] \in {"ok"} THEN "cmd58" ELSE "acmd41"
  BY <1>a DEF Answered
<1>6. card \in CardStates /\ kind \in {"mmc", "sd1", "sd2", "sd2block"}
  BY CardAssumption DEF CardInv, CardTypes, CardStates
<1>7. C!Alive /\ card # "raw" => card \in {"idle", "ready"} /\ kind \in {"sd2", "sd2block"}
  BY <1>4 DEF CardInv, Identified, Initializing, Starting, Knows8, Older
<1>8. /\ ~ C!Alive \/ card = "raw" => step' = "acmd41" /\ card' = card
      /\ C!Alive /\ card # "raw" =>
         \/ step' = "cmd58" /\ card' = "ready"
         \/ step' = "acmd41" /\ card' = "idle"
  <2>1. CASE ~ C!Alive \/ card = "raw"
    BY <1>3, <1>5, <1>6, <2>1, AnswersOfOthers
  <2>2. CASE C!Alive /\ card # "raw"
    BY <1>3, <1>5, <1>6, <1>7, <2>2, AnswersOfCard
       DEF CardInv, Identified, Initializing, Starting, Knows8, Older
  <2> QED
    BY <2>1, <2>2
<1>9. Identified'
  BY <1>2, <1>4, <1>6, <1>7, <1>8
     DEF CardInv, Identified, Initializing, Starting, Knows8, Older, Alike
<1>10. Stays'
  BY <1>2, <1>4, <1>6, <1>7, <1>8
     DEF CardInv, Stays, Identified, Starting, Knows8, Older, Initializing, Power, Places,
         C!Alive
<1> QED
  BY <1>4, <1>9, <1>10 DEF CardInv

LEMMA ReadOcrStep ==
    ASSUME CardInv, C!ReadOcr
    PROVE  CardInv'
<1>1. C!InitCmd("CMD58", "cmd58", C!Branch(C!Responses, "finish", "finish"))
  BY DEF C!ReadOcr
<1>2. ty' = IF C!Alive /\ card = "ready" /\ ~ programming' THEN kind ELSE "none"
  BY DEF C!ReadOcr
<1>3. /\ "CMD58" \in InitCommands /\ "CMD58" \in Commands
      /\ "cmd58" \in Awake /\ "finish" \in Initializing
      /\ C!Responses \in SUBSET C!Responses
  BY DEF InitCommands, Commands, Initializing, Starting, Knows8, Older, Awake, C!Responses
<1>a. step = "cmd58" /\ Answered("CMD58", C!Responses, "finish", "finish")
  BY <1>1, <1>3, InitBranch
<1>4. /\ step = "cmd58" /\ step' \in Initializing
      /\ UNCHANGED <<power_control, kind, present, events, powered, known, noinit,
                     CardType, result, tries>>
      /\ C!Alive' = C!Alive
      /\ programming' = FALSE
      /\ CardTypes' /\ Places' /\ Power' /\ Settled' /\ InTransfer' /\ Progressing'
      /\ Exact'
  BY <1>a DEF Answered
<1>5. PICK answer \in C!Answers("CMD58") :
         card' = answer[2] /\ step' = IF answer[1] \in C!Responses THEN "finish" ELSE "finish"
  BY <1>a DEF Answered
<1>6. card \in CardStates /\ kind \in {"mmc", "sd1", "sd2", "sd2block"}
  BY CardAssumption DEF CardInv, CardTypes, CardStates
<1>7. C!Alive /\ card # "raw" => card \in {"ready"}
  BY <1>4 DEF CardInv, Identified, Initializing, Starting, Knows8, Older
<1>8. /\ ~ C!Alive \/ card = "raw" => step' = "finish" /\ card' = card
      /\ C!Alive /\ card # "raw" => step' = "finish" /\ card' = "ready"
  <2>1. CASE ~ C!Alive \/ card = "raw"
    BY <1>3, <1>5, <1>6, <2>1, AnswersOfOthers
  <2>2. CASE C!Alive /\ card # "raw"
    BY <1>3, <1>5, <1>6, <1>7, <2>2, AnswersOfCard
       DEF CardInv, Identified, Initializing, Starting, Knows8, Older
  <2> QED
    BY <2>1, <2>2
<1>9. Identified'
  BY <1>2, <1>4, <1>6, <1>7, <1>8
     DEF CardInv, Identified, Initializing, Starting, Knows8, Older, Alike
<1>10. Stays'
  BY <1>2, <1>4, <1>6, <1>7, <1>8
     DEF CardInv, Stays, Identified, Starting, Knows8, Older, Initializing, Power, Places,
         C!Alive
<1> QED
  BY <1>4, <1>9, <1>10 DEF CardInv

LEMMA ProbeStep ==
    ASSUME CardInv, C!Probe
    PROVE  CardInv'
<1>1. C!InitCmd("ACMD41", "probe", C!Branch({"ok", "idle"}, "sd_leave_idle", "mmc_leave_idle"))
  BY DEF C!Probe
<1>2. ty' = IF step' = "sd_leave_idle" THEN "sd1" ELSE "mmc"
  BY DEF C!Probe
<1>3. /\ "ACMD41" \in InitCommands /\ "ACMD41" \in Commands
      /\ "probe" \in Awake /\ "sd_leave_idle" \in Initializing /\ "mmc_leave_idle" \in Initializing
      /\ {"ok", "idle"} \in SUBSET C!Responses
  BY DEF InitCommands, Commands, Initializing, Starting, Knows8, Older, Awake, C!Responses
<1>a. step = "probe" /\ Answered("ACMD41", {"ok", "idle"}, "sd_leave_idle", "mmc_leave_idle")
  BY <1>1, <1>3, InitBranch
<1>4. /\ step = "probe" /\ step' \in Initializing
      /\ UNCHANGED <<power_control, kind, present, events, powered, known, noinit,
                     CardType, result, tries>>
      /\ C!Alive' = C!Alive
      /\ programming' = FALSE
      /\ CardTypes' /\ Places' /\ Power' /\ Settled' /\ InTransfer' /\ Progressing'
      /\ Exact'
  BY <1>a DEF Answered
<1>5. PICK answer \in C!Answers("ACMD41") :
         card' = answer[2] /\ step' = IF answer[1] \in {"ok", "idle"} 
                                    THEN "sd_leave_idle" ELSE "mmc_leave_idle"
  BY <1>a DEF Answered
<1>6. card \in CardStates /\ kind \in {"mmc", "sd1", "sd2", "sd2block"}
  BY CardAssumption DEF CardInv, CardTypes, CardStates
<1>7. C!Alive /\ card # "raw" => card \in {"idle"}
  BY <1>4 DEF CardInv, Identified, Initializing, Starting, Knows8, Older
<1>8. /\ ~ C!Alive \/ card = "raw" => step' = "mmc_leave_idle" /\ card' = card
      /\ C!Alive /\ card # "raw" => /\ card' \in {"idle", "ready"}
         /\ step' = IF kind = "mmc" THEN "mmc_leave_idle" ELSE "sd_leave_idle"
  <2>1. CASE ~ C!Alive \/ card = "raw"
    BY <1>3, <1>5, <1>6, <2>1, AnswersOfOthers
  <2>2. CASE C!Alive /\ card # "raw"
    BY <1>3, <1>5, <1>6, <1>7, <2>2, AnswersOfCard
       DEF CardInv, Identified, Initializing, Starting, Knows8, Older
  <2> QED
    BY <2>1, <2>2
<1>9. Identified'
  BY <1>2, <1>4, <1>6, <1>7, <1>8
     DEF CardInv, Identified, Initializing, Starting, Knows8, Older, Alike
<1>10. Stays'
  BY <1>2, <1>4, <1>6, <1>7, <1>8
     DEF CardInv, Stays, Identified, Starting, Knows8, Older, Initializing, Power, Places,
         C!Alive
<1> QED
  BY <1>4, <1>9, <1>10 DEF CardInv

LEMMA SetBlockLengthStep ==
    ASSUME CardInv, C!SetBlockLength
    PROVE  CardInv'
<1>1. C!InitCmd("CMD16", "cmd16", C!Branch({"ok"}, "finish", "bad_length"))
  BY DEF C!SetBlockLength
<1>2. UNCHANGED ty
  BY DEF C!SetBlockLength
<1>3. /\ "CMD16" \in InitCommands /\ "CMD16" \in Commands
      /\ "cmd16" \in Awake /\ "finish" \in Initializing /\ "bad_length" \in Initializing
      /\ {"ok"} \in SUBSET C!Responses
  BY DEF InitCommands, Commands, Initializing, Starting, Knows8, Older, Awake, C!Responses
<1>a. step = "cmd16" /\ Answered("CMD16", {"ok"}, "finish", "bad_length")
  BY <1>1, <1>3, InitBranch
<1>4. /\ step = "cmd16" /\ step' \in Initializing
      /\ UNCHANGED <<power_control, kind, present, events, powered, known, noinit,
                     CardType, result, tries>>
      /\ C!Alive' = C!Alive
      /\ programming' = FALSE
      /\ CardTypes' /\ Places' /\ Power' /\ Settled' /\ InTransfer' /\ Progressing'
      /\ Exact'
  BY <1>a DEF Answered
<1>5. PICK answer \in C!Answers("CMD16") :
         card' = answer[2] /\ step' = IF answer[1] \in {"ok"} THEN "finish" ELSE "bad_length"
  BY <1>a DEF Answered
<1>6. card \in CardStates /\ kind \in {"mmc", "sd1", "sd2", "sd2block"}
  BY CardAssumption DEF CardInv, CardTypes, CardStates
<1>7. C!Alive /\ card # "raw" => card \in {"idle", "ready"}
  BY <1>4 DEF CardInv, Identified, Initializing, Starting, Knows8, Older
<1>8. /\ ~ C!Alive \/ card = "raw" => step' = "bad_length" /\ card' = card
      /\ C!Alive /\ card # "raw" =>
         /\ card' = card
         /\ step' = IF card = "ready" THEN "finish" ELSE "bad_length"
  <2>1. CASE ~ C!Alive \/ card = "raw"
    BY <1>3, <1>5, <1>6, <2>1, AnswersOfOthers
  <2>2. CASE C!Alive /\ card # "raw"
    BY <1>3, <1>5, <1>6, <1>7, <2>2, AnswersOfCard
       DEF CardInv, Identified, Initializing, Starting, Knows8, Older
  <2> QED
    BY <2>1, <2>2
<1>9. Identified'
  BY <1>2, <1>4, <1>6, <1>7, <1>8
     DEF CardInv, Identified, Initializing, Starting, Knows8, Older, Alike
<1>10. Stays'
  BY <1>2, <1>4, <1>6, <1>7, <1>8
     DEF CardInv, Stays, Identified, Starting, Knows8, Older, Initializing, Power, Places,
         C!Alive
<1> QED
  BY <1>4, <1>9, <1>10 DEF CardInv

LEMMA LeaveIdleSdStep ==
    ASSUME CardInv, UNCHANGED ty,
           C!InitCmd("ACMD41", "sd_leave_idle", C!Branch({"ok"}, "cmd16", "sd_leave_idle"))
    PROVE  CardInv'
<1>1. C!InitCmd("ACMD41", "sd_leave_idle", C!Branch({"ok"}, "cmd16", "sd_leave_idle"))
  OBVIOUS
<1>2. UNCHANGED ty
  OBVIOUS
<1>3. /\ "ACMD41" \in InitCommands /\ "ACMD41" \in Commands
      /\ "sd_leave_idle" \in Awake /\ "sd_leave_idle" \in Initializing
      /\ "cmd16" \in Initializing
      /\ {"ok"} \in SUBSET C!Responses
  BY DEF InitCommands, Commands, Initializing, Starting, Knows8, Older, Awake, C!Responses
<1>a. step = "sd_leave_idle" /\ Answered("ACMD41", {"ok"}, "cmd16", "sd_leave_idle")
  BY <1>1, <1>3, InitBranch
<1>4. /\ step = "sd_leave_idle" /\ step' \in Initializing
      /\ UNCHANGED <<power_control, kind, present, events, powered, known, noinit,
                     CardType, result, tries>>
      /\ C!Alive' = C!Alive
      /\ programming' = FALSE
      /\ CardTypes' /\ Places' /\ Power' /\ Settled' /\ InTransfer' /\ Progressing'
      /\ Exact'
  BY <1>a DEF Answered
<1>5. PICK answer \in C!Answers("ACMD41") :
         card' = answer[2] /\ step' = IF answer[1] \in {"ok"} THEN "cmd16" ELSE "sd_leave_idle"
  BY <1>a DEF Answered
<1>6. card \in CardStates /\ kind \in {"mmc", "sd1", "sd2", "sd2block"}
  BY CardAssumption DEF CardInv, CardTypes, CardStates
<1>7. C!Alive /\ card # "raw" => card \in {"idle", "ready"}
  BY <1>4 DEF CardInv, Identified, Initializing, Starting, Knows8, Older
<1>8. /\ ~ C!Alive \/ card = "raw" => step' = "sd_leave_idle" /\ card' = card
      /\ C!Alive /\ card # "raw" =>
         \/ card' = "ready" /\ step' = "cmd16" /\ (kind = "mmc" <=> "ACMD41" = "CMD1")
         \/ card' = card /\ step' = "sd_leave_idle"
  <2>1. CASE ~ C!Alive \/ card = "raw"
    BY <1>3, <1>5, <1>6, <2>1, AnswersOfOthers
  <2>2. CASE C!Alive /\ card # "raw"
    BY <1>3, <1>5, <1>6, <1>7, <2>2, AnswersOfCard
       DEF CardInv, Identified, Initializing, Starting, Knows8, Older
  <2> QED
    BY <2>1, <2>2
<1>9. Identified'
  BY <1>2, <1>4, <1>6, <1>7, <1>8
     DEF CardInv, Identified, Initializing, Starting, Knows8, Older, Alike
<1>10. Stays'
  BY <1>2, <1>4, <1>6, <1>7, <1>8
     DEF CardInv, Stays, Identified, Starting, Knows8, Older, Initializing, Power, Places,
         C!Alive
<1> QED
  BY <1>4, <1>9, <1>10 DEF CardInv

LEMMA LeaveIdleMmcStep ==
    ASSUME CardInv, UNCHANGED ty,
           C!InitCmd("CMD1", "mmc_leave_idle", C!Branch({"ok"}, "cmd16", "mmc_leave_idle"))
    PROVE  CardInv'
<1>1. C!InitCmd("CMD1", "mmc_leave_idle", C!Branch({"ok"}, "cmd16", "mmc_leave_idle"))
  OBVIOUS
<1>2. UNCHANGED ty
  OBVIOUS
<1>3. /\ "CMD1" \in InitCommands /\ "CMD1" \in Commands
      /\ "mmc_leave_idle" \in Awake /\ "mmc_leave_idle" \in Initializing
      /\ "cmd16" \in Initializing
      /\ {"ok"} \in SUBSET C!Responses
  BY DEF InitCommands, Commands, Initializing, Starting, Knows8, Older, Awake, C!Responses
<1>a. step = "mmc_leave_idle" /\ Answered("CMD1", {"ok"}, "cmd16", "mmc_leave_idle")
  BY <1>1, <1>3, InitBranch
<1>4. /\ step = "mmc_leave_idle" /\ step' \in Initializing
      /\ UNCHANGED <<power_control, kind, present, events, powered, known, noinit,
                     CardType, result, tries>>
      /\ C!Alive' = C!Alive
      /\ programming' = FALSE
      /\ CardTypes' /\ Places' /\ Power' /\ Settled' /\ InTransfer' /\ Progressing'
      /\ Exact'
  BY <1>a DEF Answered
<1>5. PICK answer \in C!Answers("CMD1") :
         card' = answer[2] /\ step' = IF answer[1] \in {"ok"} THEN "cmd16" ELSE "mmc_leave_idle"
  BY <1>a DEF Answered
<1>6. card \in CardStates /\ kind \in {"mmc", "sd1", "sd2", "sd2block"}
  BY CardAssumption DEF CardInv, CardTypes, CardStates
<1>7. C!Alive /\ card # "raw" => card \in {"idle", "ready"}
  BY <1>4 DEF CardInv, Identified, Initializing, Starting, Knows8, Older
<1>8. /\ ~ C!Alive \/ card = "raw" => step' = "mmc_leave_idle" /\ card' = card
      /\ C!Alive /\ card # "raw" =>
         \/ card' = "ready" /\ step' = "cmd16" /\ (kind = "mmc" <=> "CMD1" = "CMD1")
         \/ card' = card /\ step' = "mmc_leave_idle"
  <2>1. CASE ~ C!Alive \/ card = "raw"
    BY <1>3, <1>5, <1>6, <2>1, AnswersOfOthers
  <2>2. CASE C!Alive /\ card # "raw"
    BY <1>3, <1>5, <1>6, <1>7, <2>2, AnswersOfCard
       DEF CardInv, Identified, Initializing, Starting, Knows8, Older
  <2> QED
    BY <2>1, <2>2
<1>9. Identified'
  BY <1>2, <1>4, <1>6, <1>7, <1>8
     DEF CardInv, Identified, Initializing, Starting, Knows8, Older, Alike
<1>10. Stays'
  BY <1>2, <1>4, <1>6, <1>7, <1>8
     DEF CardInv, Stays, Identified, Starting, Knows8, Older, Initializing, Power, Places,
         C!Alive
<1> QED
  BY <1>4, <1>9, <1>10 DEF CardInv

LEMMA PowerUpStep ==
    ASSUME CardInv, C!PowerUp
    PROVE  CardInv'
<1>1. CardTypes'
  BY CardAssumption
     DEF CardInv, CardTypes, C!PowerUp, C!env, C!args, C!wait, C!status, C!Alive
<1>2. Places'
  BY CardAssumption
     DEF CardInv, Places, Initializing, Starting, Knows8, Older, Calling,
         C!PowerUp, C!env, C!args, C!wait, C!status, C!Alive
<1>3. Power'
  BY CardAssumption
     DEF CardInv, Power, CardTypes, C!PowerUp, C!env, C!args, C!wait, C!status, C!Alive
<1>4. Identified'
  BY CardAssumption
     DEF CardInv, Identified, Initializing, Starting, Knows8, Older, Calling,
         Alike, CardTypes, Power, C!PowerUp, C!env, C!args, C!wait, C!status, C!Alive
<1>5. InTransfer'
  BY CardAssumption
     DEF CardInv, InTransfer, Initializing, Starting, Knows8, Older, Calling,
         Power, CardTypes, C!PowerUp, C!env, C!args, C!wait, C!status, C!Alive
<1>6. Progressing'
  <2>1. UNCHANGED <<got, sect, count, moved, write, at>>
    BY DEF C!PowerUp, C!env, C!args, C!wait, C!Swap
  <2>2. step' \notin {"read_block", "write_block", "read", "write", "succeeded"}
    BY DEF C!PowerUp
  <2> QED
    BY <2>1, <2>2 DEF CardInv, Progressing
<1>7. Stays'
  BY CardAssumption
     DEF CardInv, Stays, Initializing, Starting, Knows8, Older, Calling, Power,
         Places, Alike, Identified, CardTypes, C!PowerUp, C!env, C!args, C!wait,
         C!status, C!Alive
<1>8. Settled'
  BY CardAssumption
     DEF CardInv, Settled, CardTypes, Initializing, Starting, Knows8, Older, Calling,
         C!PowerUp, C!env, C!args, C!wait, C!status, C!Swap
<1>9. Exact'
  BY CardAssumption
     DEF CardInv, Exact, Initializing, Starting, Knows8, Older, Calling, Places, C!PowerUp,
         C!env, C!args, C!wait, C!status, C!Swap, C!Alive
<1> QED
  BY <1>1, <1>2, <1>3, <1>4, <1>5, <1>6, <1>7, <1>8, <1>9 DEF CardInv

LEMMA DetectStep ==
    ASSUME CardInv, C!Detect
    PROVE  CardInv'
<1>1. CardTypes'
  BY CardAssumption DEF CardInv, CardTypes, C!Detect, C!env, C!args, C!wait, C!status, C!Alive
<1>2. Places'
  BY CardAssumption
     DEF CardInv, Places, Initializing, Starting, Knows8, Older, Calling,
         C!Detect, C!env, C!args, C!wait, C!status, C!Alive
<1>3. Power'
  BY CardAssumption
     DEF CardInv, Power, CardTypes, C!Detect, C!env, C!args, C!wait, C!status, C!Alive
<1>4. Identified'
  BY CardAssumption
     DEF CardInv, Identified, Initializing, Starting, Knows8, Older, Calling,
         Alike, CardTypes, Power, C!Detect, C!env, C!args, C!wait, C!status, C!Alive
<1>5. InTransfer'
  BY CardAssumption
     DEF CardInv, InTransfer, Initializing, Starting, Knows8, Older, Calling,
         Power, CardTypes, C!Detect, C!env, C!args, C!wait, C!status, C!Alive
<1>6. Progressing'
  <2>1. UNCHANGED <<got, sect, count, moved, write, at>>
    BY DEF C!Detect, C!env, C!args, C!wait, C!Swap
  <2>2. step' \notin {"read_block", "write_block", "read", "write", "succeeded"}
    BY DEF C!Detect
  <2> QED
    BY <2>1, <2>2 DEF CardInv, Progressing
<1>7. Stays'
  BY CardAssumption
     DEF CardInv, Stays, Initializing, Starting, Knows8, Older, Calling, Power,
         Places, Alike, Identified, CardTypes, C!Detect, C!env, C!args, C!wait,
         C!status, C!Alive
<1>8. Settled'
  BY CardAssumption
     DEF CardInv, Settled, CardTypes, Initializing, Starting, Knows8, Older, Calling,
         C!Detect, C!env, C!args, C!wait, C!status, C!Swap
<1>9. Exact'
  BY CardAssumption
     DEF CardInv, Exact, Initializing, Starting, Knows8, Older, Calling, Places, C!Detect,
         C!env, C!args, C!wait, C!status, C!Swap, C!Alive
<1> QED
  BY <1>1, <1>2, <1>3, <1>4, <1>5, <1>6, <1>7, <1>8, <1>9 DEF CardInv

LEMMA FinishStep ==
    ASSUME CardInv, C!Finish
    PROVE  CardInv'
<1>1. CardTypes'
  BY CardAssumption DEF CardInv, CardTypes, C!Finish, C!env, C!args, C!wait, C!status, C!Alive
<1>2. Places'
  BY CardAssumption
     DEF CardInv, Places, Initializing, Starting, Knows8, Older, Calling,
         C!Finish, C!env, C!args, C!wait, C!status, C!Alive
<1>3. Power'
  BY CardAssumption
     DEF CardInv, Power, CardTypes, C!Finish, C!env, C!args, C!wait, C!status, C!Alive
<1>4. Identified'
  BY CardAssumption
     DEF CardInv, Identified, Initializing, Starting, Knows8, Older, Calling,
         Alike, CardTypes, Power, C!Finish, C!env, C!args, C!wait, C!status, C!Alive
<1>5. InTransfer'
  BY CardAssumption
     DEF CardInv, InTransfer, Initializing, Starting, Knows8, Older, Calling,
         Power, CardTypes, C!Finish, C!env, C!args, C!wait, C!status, C!Alive
<1>6. Progressing'
  <2>1. UNCHANGED <<got, sect, count, moved, write, at>>
    BY DEF C!Finish, C!env, C!args, C!wait, C!Swap
  <2>2. step' \notin {"read_block", "write_block", "read", "write", "succeeded"}
    BY DEF C!Finish
  <2> QED
    BY <2>1, <2>2 DEF CardInv, Progressing
<1>7. Stays'
  BY CardAssumption
     DEF CardInv, Stays, Initializing, Starting, Knows8, Older, Calling, Power,
         Places, Alike, Identified, CardTypes, C!Finish, C!env, C!args, C!wait,
         C!status, C!Alive
<1>8. Settled'
  BY CardAssumption
     DEF CardInv, Settled, CardTypes, Initializing, Starting, Knows8, Older, Calling,
         C!Finish, C!env, C!args, C!wait, C!status, C!Swap
<1>9. Exact'
  BY CardAssumption
     DEF CardInv, Exact, Initializing, Starting, Knows8, Older, Calling, Places, C!Finish,
         C!env, C!args, C!wait, C!status, C!Swap, C!Alive
<1> QED
  BY <1>1, <1>2, <1>3, <1>4, <1>5, <1>6, <1>7, <1>8, <1>9 DEF CardInv

LEMMA OpenStep ==
    ASSUME CardInv, C!Open
    PROVE  CardInv'
<1>1. CardTypes'
  BY CardAssumption DEF CardInv, CardTypes, C!Open, C!env, C!args, C!wait, C!status, C!Alive
<1>2. Places'
  BY CardAssumption
     DEF CardInv, Places, Initializing, Starting, Knows8, Older, Calling,
         C!Open, C!env, C!args, C!wait, C!status, C!Alive
<1>3. Power'
  BY CardAssumption
     DEF CardInv, Power, CardTypes, C!Open, C!env, C!args, C!wait, C!status, C!Alive
<1>4. Identified'
  BY CardAssumption
     DEF CardInv, Identified, Initializing, Starting, Knows8, Older, Calling,
         Alike, CardTypes, Power, C!Open, C!env, C!args, C!wait, C!status, C!Alive
<1>5. InTransfer'
  BY CardAssumption
     DEF CardInv, InTransfer, Initializing, Starting, Knows8, Older, Calling,
         Power, CardTypes, C!Open, C!env, C!args, C!wait, C!status, C!Alive
<1>6. Progressing'
  <2>1. UNCHANGED <<got, sect, count, moved, write, at>>
    BY DEF C!Open, C!env, C!args, C!wait, C!Swap
  <2>2. step' \notin {"read_block", "write_block", "read", "write", "succeeded"}
    BY DEF C!Open
  <2> QED
    BY <2>1, <2>2 DEF CardInv, Progressing
<1>7. Stays'
  BY CardAssumption
     DEF CardInv, Stays, Initializing, Starting, Knows8, Older, Calling, Power,
         Places, Alike, Identified, CardTypes, C!Open, C!env, C!args, C!wait, C!status,
         C!Alive
<1>8. Settled'
  BY CardAssumption
     DEF CardInv, Settled, CardTypes, Initializing, Starting, Knows8, Older, Calling,
         C!Open, C!env, C!args, C!wait, C!status, C!Swap
<1>9. Exact'
  BY CardAssumption
     DEF CardInv, Exact, Initializing, Starting, Knows8, Older, Calling, Places, C!Open,
         C!env, C!args, C!wait, C!status, C!Swap, C!Alive
<1> QED
  BY <1>1, <1>2, <1>3, <1>4, <1>5, <1>6, <1>7, <1>8, <1>9 DEF CardInv

LEMMA OpenedStep ==
    ASSUME CardInv, C!Opened
    PROVE  CardInv'
<1>1. CardTypes'
  BY CardAssumption DEF CardInv, CardTypes, C!Opened, C!env, C!args, C!wait, C!status, C!Alive
<1>2. Places'
  BY CardAssumption
     DEF CardInv, Places, Initializing, Starting, Knows8, Older, Calling,
         C!Opened, C!env, C!args, C!wait, C!status, C!Alive
<1>3. Power'
  BY CardAssumption
     DEF CardInv, Power, CardTypes, C!Opened, C!env, C!args, C!wait, C!status, C!Alive
<1>4. Identified'
  BY CardAssumption
     DEF CardInv, Identified, Initializing, Starting, Knows8, Older, Calling,
         Alike, CardTypes, Power, C!Opened, C!env, C!args, C!wait, C!status, C!Alive
<1>5. InTransfer'
  BY CardAssumption
     DEF CardInv, InTransfer, Initializing, Starting, Knows8, Older, Calling,
         Power, CardTypes, C!Opened, C!env, C!args, C!wait, C!status, C!Alive
<1>6. Progressing'
  <2>1. UNCHANGED <<got, sect, count, moved, write, at>>
    BY DEF C!Opened, C!env, C!args, C!wait, C!Swap
  <2>2. step' \notin {"read_block", "write_block", "read", "write", "succeeded"}
    BY DEF C!Opened
  <2> QED
    BY <2>1, <2>2 DEF CardInv, Progressing
<1>7. Stays'
  BY CardAssumption
     DEF CardInv, Stays, Initializing, Starting, Knows8, Older, Calling, Power,
         Places, Alike, Identified, CardTypes, C!Opened, C!env, C!args, C!wait,
         C!status, C!Alive
<1>8. Settled'
  BY CardAssumption
     DEF CardInv, Settled, CardTypes, Initializing, Starting, Knows8, Older, Calling,
         C!Opened, C!env, C!args, C!wait, C!status, C!Swap
<1>9. Exact'
  BY CardAssumption
     DEF CardInv, Exact, Initializing, Starting, Knows8, Older, Calling, Places, C!Opened,
         C!env, C!args, C!wait, C!status, C!Swap, C!Alive
<1> QED
  BY <1>1, <1>2, <1>3, <1>4, <1>5, <1>6, <1>7, <1>8, <1>9 DEF CardInv

LEMMA RemoveStep ==
    ASSUME CardInv, C!Remove
    PROVE  CardInv'
<1>1. CardTypes'
  <2>1. present' = FALSE /\ events' = events + 1
    BY DEF C!Remove, C!Swap
  <2>2. UNCHANGED <<kind, powered, power_control, known, noinit, write, card, sect, count,
                    at, programming, unstopped, tries>>
    BY DEF C!Remove, C!Swap, C!args, C!wait, C!status
  <2>3. present' \in BOOLEAN
    BY <2>1, Zenon
  <2> QED
    BY <2>1, <2>2, <2>3 DEF CardInv, CardTypes
<1>2. Places'
  BY CardAssumption
     DEF CardInv, Places, Initializing, Starting, Knows8, Older, Calling,
         C!Remove, C!env, C!args, C!wait, C!status, C!Alive, C!Swap
<1>3. Power'
  BY CardAssumption
     DEF CardInv, Power, CardTypes, C!Remove, C!env, C!args, C!wait, C!status, C!Alive,
         C!Swap
<1>4. Identified'
  BY CardAssumption
     DEF CardInv, Identified, Initializing, Starting, Knows8, Older, Calling,
         Alike, CardTypes, Power, C!Remove, C!env, C!args, C!wait, C!status, C!Alive,
         C!Swap
<1>5. InTransfer'
  BY CardAssumption
     DEF CardInv, InTransfer, Initializing, Starting, Knows8, Older, Calling,
         Power, CardTypes, C!Remove, C!env, C!args, C!wait, C!status, C!Alive, C!Swap
<1>6. Progressing'
  BY CardAssumption
     DEF CardInv, Progressing, Places, Initializing, Starting, Knows8, Older,
         Calling, C!Remove, C!env, C!args, C!wait, C!status, C!Alive, C!Swap
<1>7. Stays'
  BY CardAssumption
     DEF CardInv, Stays, Initializing, Starting, Knows8, Older, Calling, Power,
         Places, Alike, Identified, CardTypes, C!Remove, C!env, C!args, C!wait,
         C!status, C!Alive, C!Swap
<1>8. Settled'
  BY CardAssumption
     DEF CardInv, Settled, CardTypes, Initializing, Starting, Knows8, Older, Calling,
         C!Remove, C!env, C!args, C!wait, C!status, C!Swap
<1>9. Exact'
  BY CardAssumption
     DEF CardInv, Exact, Initializing, Starting, Knows8, Older, Calling, Places, C!Remove,
         C!env, C!args, C!wait, C!status, C!Swap, C!Alive
<1> QED
  BY <1>1, <1>2, <1>3, <1>4, <1>5, <1>6, <1>7, <1>8, <1>9 DEF CardInv

LEMMA InsertStep ==
    ASSUME CardInv, C!Insert
    PROVE  CardInv'
<1>1. CardTypes'
  <2>1. /\ present' = TRUE /\ events' = events + 1 /\ kind' \in Kinds /\ card' = "raw"
        /\ programming' = FALSE /\ unstopped' = FALSE
    BY DEF C!Insert, C!Swap
  <2>2. UNCHANGED <<powered, power_control, known, noinit, write, sect, count, at, tries>>
    BY DEF C!Insert, C!Swap, C!args, C!status
  <2>3. present' \in BOOLEAN /\ programming' \in BOOLEAN /\ unstopped' \in BOOLEAN
    BY <2>1, Zenon
  <2> QED
    BY <2>1, <2>2, <2>3 DEF CardInv, CardTypes
<1>2. Places'
  BY CardAssumption
     DEF CardInv, Places, Initializing, Starting, Knows8, Older, Calling,
         C!Insert, C!env, C!args, C!wait, C!status, C!Alive, C!Swap
<1>3. Power'
  BY CardAssumption
     DEF CardInv, Power, CardTypes, C!Insert, C!env, C!args, C!wait, C!status, C!Alive,
         C!Swap
<1>4. Identified'
  BY CardAssumption
     DEF CardInv, Identified, Initializing, Starting, Knows8, Older, Calling,
         Alike, CardTypes, Power, C!Insert, C!env, C!args, C!wait, C!status, C!Alive,
         C!Swap
<1>5. InTransfer'
  BY CardAssumption
     DEF CardInv, InTransfer, Initializing, Starting, Knows8, Older, Calling,
         Power, CardTypes, C!Insert, C!env, C!args, C!wait, C!status, C!Alive, C!Swap
<1>6. Progressing'
  BY CardAssumption
     DEF CardInv, Progressing, Places, Initializing, Starting, Knows8, Older,
         Calling, C!Insert, C!env, C!args, C!wait, C!status, C!Alive, C!Swap
<1>7. Stays'
  BY CardAssumption
     DEF CardInv, Stays, Initializing, Starting, Knows8, Older, Calling, Power,
         Places, Alike, Identified, CardTypes, C!Insert, C!env, C!args, C!wait,
         C!status, C!Alive, C!Swap
<1>8. Settled'
  BY CardAssumption
     DEF CardInv, Settled, CardTypes, Initializing, Starting, Knows8, Older, Calling,
         C!Insert, C!env, C!args, C!wait, C!status, C!Swap
<1>9. Exact'
  BY CardAssumption
     DEF CardInv, Exact, Initializing, Starting, Knows8, Older, Calling, Places, C!Insert,
         C!env, C!args, C!wait, C!status, C!Swap, C!Alive
<1> QED
  BY <1>1, <1>2, <1>3, <1>4, <1>5, <1>6, <1>7, <1>8, <1>9 DEF CardInv

LEMMA CallTransferStep ==
    ASSUME CardInv, C!CallTransfer
    PROVE  CardInv'
<1>1. CardTypes'
  BY CardAssumption
     DEF CardInv, CardTypes, C!CallTransfer, C!env, C!args, C!wait, C!status, C!Alive
<1>2. Places'
  BY CardAssumption
     DEF CardInv, Places, Initializing, Starting, Knows8, Older, Calling,
         C!CallTransfer, C!env, C!args, C!wait, C!status, C!Alive
<1>3. Power'
  BY CardAssumption
     DEF CardInv, Power, CardTypes, C!CallTransfer, C!env, C!args, C!wait, C!status,
         C!Alive
<1>4. Identified'
  BY CardAssumption
     DEF CardInv, Identified, Initializing, Starting, Knows8, Older, Calling,
         Alike, CardTypes, Power, C!CallTransfer, C!env, C!args, C!wait, C!status,
         C!Alive
<1>5. InTransfer'
  BY CardAssumption
     DEF CardInv, InTransfer, Initializing, Starting, Knows8, Older, Calling,
         Power, CardTypes, C!CallTransfer, C!env, C!args, C!wait, C!status, C!Alive
<1>6. Progressing'
  <2>1. got' = <<>> /\ step' \in {"app", "read", "write"}
    BY DEF C!CallTransfer
  <2>2. count' \in Nat
    BY <1>1 DEF CardTypes
  <2>3. Len(<<>>) = 0 /\ <<>> \in Seq(Int)
    OBVIOUS
  <2> QED
    BY <2>1, <2>2, <2>3 DEF Progressing
<1>7. Stays'
  BY CardAssumption
     DEF CardInv, Stays, Initializing, Starting, Knows8, Older, Calling, Power,
         Places, Alike, Identified, CardTypes, C!CallTransfer, C!env, C!args, C!wait,
         C!status, C!Alive
<1>8. Settled'
  BY CardAssumption
     DEF CardInv, Settled, CardTypes, Initializing, Starting, Knows8, Older, Calling,
         C!CallTransfer, C!env, C!args, C!wait, C!status, C!Swap
<1>9. Exact'
  <2>1. got' = <<>> /\ moved' = {} /\ step' \in {"app", "read", "write"}
    BY DEF C!CallTransfer
  <2>2. write' \in BOOLEAN /\ sect' \in Nat
    BY <1>1 DEF CardTypes
  <2>3. Len(<<>>) = 0
    OBVIOUS
  <2>4. <<>> = [k \in 1 .. Len(<<>>) |-> sect' + k - 1]
    BY <2>2, <2>3
  <2>5. moved' = IF write' THEN sect' .. sect' + Len(got') - 1 ELSE {}
    <3>1. \A n \in Nat : n .. n + 0 - 1 = {}
      OBVIOUS
    <3> QED
      BY <2>1, <2>2, <2>3, <3>1
  <2>6. got' = [k \in 1 .. Len(got') |-> sect' + k - 1]
    BY <2>1, <2>4
  <2>7. step' \notin {"read_block", "write_block"}
    BY <2>1
  <2> QED
    BY <2>5, <2>6, <2>7 DEF Exact
<1> QED
  BY <1>1, <1>2, <1>3, <1>4, <1>5, <1>6, <1>7, <1>8, <1>9 DEF CardInv

\* The first command of a transfer: it fails, or the card starts, and at the sector
\* asked for if its type is known, whatever it is.
LEMMA Started ==
    ASSUME CardInv, NEW cmd \in {"CMD17", "CMD18", "CMD24", "CMD25"},
           NEW from \in {"read", "write"},
           from = "read" <=> cmd \in {"CMD17", "CMD18"},
           C!SendCmd(cmd, C!Address(sect), from,
                     C!Branch({"ok"}, IF from = "read" THEN "read_block" ELSE "write_block",
                              "failed")),
           UNCHANGED <<moved, known, noinit, CardType, ty, got, result, tries>>
    PROVE  CardInv'
<1>1. /\ step = from
      /\ UNCHANGED <<power_control, kind, present, events, powered, write, sect, count,
                     moved, known, noinit, CardType, ty, got, result, tries>>
      /\ at' = IF card' # card /\ card' \in {"sending", "receiving"}
               THEN C!SectorAt(C!Address(sect)) ELSE at
      /\ unstopped' = (unstopped /\ card' = card)
      /\ C!Alive' = C!Alive
  BY DEF C!SendCmd, C!env, C!args, C!Alive
<1>2. /\ from = "read" => ~ write
      /\ from = "write" => write
      /\ ~ noinit
      /\ Len(got) = 0 /\ sect \in Nat /\ count \in Nat \ {0} /\ at \in Int
      /\ C!Alive => card # "sending"
      /\ C!Alive /\ card = "ready" /\ CardType # "none" => Alike(CardType, kind)
      /\ unstopped \in BOOLEAN /\ programming \in BOOLEAN
  BY <1>1 DEF CardInv, CardTypes, Places, Settled, Progressing, InTransfer, Identified,
              Initializing, Starting, Knows8, Older, Calling
<1>3. unstopped' \in BOOLEAN /\ C!SectorAt(C!Address(sect)) \in Int
  <2>1. unstopped' \in BOOLEAN
    BY <1>1, Zenon
  <2>2. \A n \in Nat : n \in Int /\ n * 2 \in Int /\ n \div 2 \in Int /\ (n * 2) \div 2 \in Int
    OBVIOUS
  <2> QED
    BY <1>2, <2>1, <2>2 DEF C!SectorAt, C!Address, C!Unit
<1>4. CASE C!WaitReady /\ C!Alive /\ card = "ready"
  <2>1. PICK answer \in C!Answers(cmd) :
           /\ card' = answer[2]
           /\ step' = C!Branch({"ok"}, IF from = "read" THEN "read_block" ELSE "write_block",
                               "failed")[answer[1]]
    BY <1>4 DEF C!SendCmd, C!WaitReady, C!WaitTimesOut
  <2>2. cmd \in Commands /\ card \in CardStates
    BY DEF Commands, CardInv, CardTypes, CardStates
  <2>3. /\ answer[1] = "ok"
        /\ answer[2] = IF from = "read" THEN "sending" ELSE "receiving"
    BY <1>4, <2>1, <2>2, AnswersOfCard
  <2>4. /\ card' = IF from = "read" THEN "sending" ELSE "receiving"
        /\ step' = IF from = "read" THEN "read_block" ELSE "write_block"
        /\ programming' = FALSE /\ ~ unstopped'
    BY <1>1, <1>4, <2>1, <2>3 DEF C!Branch, C!Responses, C!WaitReady
  <2>5. at' = C!SectorAt(C!Address(sect))
    BY <1>1, <1>4, <2>4
  <2>6. CardType # "none" => at' = sect
    <3>1. \A n \in Nat : (n * 2) \div 2 = n
      OBVIOUS
    <3> QED
      BY <1>2, <1>4, <2>5, <3>1 DEF C!SectorAt, C!Address, C!Unit, Alike
  <2>7. CardTypes' /\ Places' /\ Power' /\ Settled'
    <3>1. at' \in Int /\ programming' \in BOOLEAN
      BY <1>3, <2>4, <2>5
    <3>2. CardTypes'
      BY <1>1, <1>3, <2>4, <3>1 DEF CardInv, CardTypes
    <3> QED
      BY <1>1, <1>2, <1>4, <2>4, <3>2
         DEF CardInv, Places, Power, Settled, Initializing, Starting, Knows8, Older,
             Calling
  <2>8. Identified' /\ InTransfer' /\ Stays'
    BY <1>1, <1>2, <1>4, <2>4
       DEF CardInv, Identified, InTransfer, Stays, Initializing, Starting, Knows8,
           Older, Alike
  <2>9. Progressing'
    BY <1>1, <1>2, <2>4 DEF CardInv, Progressing
  <2>10. Exact'
    BY <1>1, <1>2, <2>4, <2>6 DEF CardInv, Exact, Calling
  <2> QED
    BY <2>7, <2>8, <2>9, <2>10 DEF CardInv
<1>5. CASE ~ (C!WaitReady /\ C!Alive /\ card = "ready")
  <2>1. /\ step' = "failed"
        /\ card' = card \/ (C!Alive /\ card = "confused" /\ card' = "raw")
        /\ programming' \in BOOLEAN
    <3>1. CASE C!WaitReady
      <4>1. PICK answer \in C!Answers(cmd) :
               /\ card' = answer[2]
               /\ step' = C!Branch({"ok"},
                                   IF from = "read" THEN "read_block" ELSE "write_block",
                                   "failed")[answer[1]]
        BY <3>1 DEF C!SendCmd, C!WaitReady, C!WaitTimesOut
      <4>2. cmd \in Commands /\ card \in CardStates /\ cmd # "CMD0"
        BY DEF Commands, CardInv, CardTypes, CardStates
      <4>3. /\ answer[1] \in {"none", "illegal"}
            /\ answer[2] = card \/ (C!Alive /\ card = "confused" /\ answer[2] = "raw")
        <5>1. CASE ~ C!Alive
          BY <5>1, <4>2, AnswersOfOthers
        <5>2. CASE C!Alive /\ card \in {"raw", "confused"}
          BY <5>2, <4>2, AnswersOfOthers
        <5>3. CASE C!Alive /\ card \notin {"raw", "confused"}
          BY <5>3, <3>1, <4>2, <1>5, AnswersOfCard
        <5> QED
          BY <5>1, <5>2, <5>3
      <4>4. step' = "failed"
        BY <4>1, <4>3 DEF C!Branch, C!Responses
      <4> QED
        BY <3>1, <4>1, <4>3, <4>4 DEF C!WaitReady
    <3>2. CASE ~ C!WaitReady
      BY <3>2 DEF C!SendCmd, C!WaitReady, C!WaitTimesOut, C!Branch, C!Responses
    <3> QED
      BY <3>1, <3>2
  <2>2. at' = at
    BY <1>1, <2>1
  <2>3. unstopped' = (unstopped /\ card # "confused") \/ unstopped' = unstopped
    BY <1>1, <1>2, <2>1
  <2>4. CardTypes' /\ Places' /\ Power' /\ Settled'
    BY <1>1, <1>2, <1>3, <2>1, <2>2
       DEF CardInv, CardTypes, Places, Power, Settled, Initializing, Starting, Knows8,
           Older, Calling
  <2>5. Identified' /\ Stays'
    BY <1>1, <1>2, <2>1
       DEF CardInv, Identified, Stays, Initializing, Starting, Knows8, Older, Alike
  <2>6. InTransfer'
    BY <1>1, <1>2, <2>1 DEF CardInv, InTransfer, Starting
  <2>7. Progressing' /\ Exact'
    BY <1>1, <1>2, <2>1, <2>2 DEF CardInv, Progressing, Exact, Calling
  <2> QED
    BY <2>4, <2>5, <2>6, <2>7 DEF CardInv
<1> QED
  BY <1>4, <1>5

\* The stop command leaves the card alone or at rest.
LEMMA StopReadStep ==
    ASSUME CardInv, C!StopRead
    PROVE  CardInv'
<1>1. /\ step = "read_stop"
      /\ UNCHANGED <<power_control, kind, present, events, powered, write, sect, count,
                     moved, known, noinit, CardType, ty, got, result, tries>>
      /\ at' = IF card' # card /\ card' \in {"sending", "receiving"}
               THEN C!SectorAt(0) ELSE at
      /\ unstopped' = (unstopped /\ card' = card)
      /\ programming' = FALSE
      /\ C!Alive' = C!Alive
  BY DEF C!StopRead, C!SendCmd, C!WaitReady, C!env, C!args, C!status, C!Alive
<1>2. PICK answer \in C!Answers("CMD12") :
         card' = answer[2] /\ step' = C!Branch(C!Responses, C!End, C!End)[answer[1]]
  BY DEF C!StopRead, C!SendCmd
<1>3. "CMD12" \in Commands /\ card \in CardStates
  BY DEF Commands, CardInv, CardTypes, CardStates
<1>4. C!Alive => card # "receiving"
  BY <1>1 DEF CardInv, InTransfer, Starting
<1>5. /\ answer[1] \in C!Responses
      /\ ~ C!Alive => answer[2] = card
      /\ C!Alive => answer[2] =
            IF card = "sending" THEN "ready" ELSE IF card = "confused" THEN "raw" ELSE card
  <2>1. CASE ~ C!Alive
    BY <2>1, <1>3, AnswersOfOthers DEF C!Responses
  <2>2. CASE C!Alive /\ card \in {"raw", "confused"}
    BY <2>2, <1>3, AnswersOfOthers DEF C!Responses
  <2>3. CASE C!Alive /\ card \notin {"raw", "confused"}
    BY <2>3, <1>3, AnswersOfCard DEF C!Responses
  <2> QED
    BY <2>1, <2>2, <2>3
<1>6. step' = C!End
  BY <1>2, <1>5 DEF C!Branch
<1>7. step' = (IF Len(got) = count THEN "succeeded" ELSE "failed") /\ at' = at
  BY <1>1, <1>2, <1>4, <1>5, <1>6 DEF C!End, C!Done
<1>8. CardTypes' /\ Places' /\ Power' /\ Settled'
  <2>1. unstopped' \in BOOLEAN /\ programming' \in BOOLEAN
    BY <1>1, Zenon
  <2>2. card' = card \/ card' \in {"ready", "raw"}
    BY <1>2, <1>5
  <2>3. CardTypes'
    BY <1>1, <1>7, <2>1, <2>2 DEF CardInv, CardTypes
  <2> QED
    BY <1>1, <1>2, <1>5, <1>7, <2>3
       DEF CardInv, Places, Power, Settled, Initializing, Starting, Knows8, Older, Calling
<1>9. Identified' /\ InTransfer' /\ Stays'
  BY <1>1, <1>2, <1>3, <1>4, <1>5, <1>7
     DEF CardInv, Identified, InTransfer, Stays, Settled, Initializing, Starting, Knows8,
         Older, Alike, Calling
<1>10. Progressing' /\ Exact'
  BY <1>1, <1>7 DEF CardInv, Progressing, Exact, Calling
<1> QED
  BY <1>8, <1>9, <1>10 DEF CardInv

\* One more block of a run of sectors.
LEMMA LongerRun ==
    ASSUME NEW g \in Seq(Int), NEW s \in Nat, g = [k \in 1 .. Len(g) |-> s + k - 1],
           NEW h, h = Append(g, s + Len(g))
    PROVE  /\ h = [k \in 1 .. Len(h) |-> s + k - 1]
           /\ h \in Seq(Int) /\ Len(h) = Len(g) + 1
<1>1. Len(g) \in Nat /\ s + Len(g) \in Int
  OBVIOUS
<1>2. h \in Seq(Int) /\ Len(h) = Len(g) + 1
  BY <1>1
<1>3. \A k \in 1 .. Len(h) : h[k] = s + k - 1
  <2> TAKE k \in 1 .. Len(h)
  <2>1. CASE k = Len(g) + 1
    BY <1>1, <1>2, <2>1
  <2>2. CASE k # Len(g) + 1
    <3>1. k \in 1 .. Len(g)
      BY <1>1, <1>2, <2>2
    <3>2. h[k] = g[k]
      BY <1>1, <3>1
    <3> QED
      BY <3>1, <3>2
  <2> QED
    BY <2>1, <2>2
<1>4. h = [k \in 1 .. Len(h) |-> h[k]]
  BY <1>2
<1> QED
  BY <1>2, <1>3, <1>4

LEMMA ReadBlockStep ==
    ASSUME CardInv, C!ReadBlock
    PROVE  CardInv'
<1>1. /\ step = "read_block" /\ C!Alive /\ card = "sending"
      /\ UNCHANGED <<power_control, kind, present, events, powered, programming, unstopped,
                     write, sect, count, moved, known, noinit, CardType, ty, result, tries>>
      /\ at' = at + 1
      /\ card' = IF count > 1 THEN card ELSE "ready"
      /\ C!Alive' = C!Alive
  BY DEF C!ReadBlock, C!Transfer, C!Multiple, C!env, C!args, C!wait, C!status, C!Alive
<1>2. PICK error \in BOOLEAN :
         /\ step' = IF C!Multiple
                    THEN IF error \/ Len(got) + 1 = count THEN "read_stop" ELSE "read_block"
                    ELSE IF error THEN "failed" ELSE "succeeded"
         /\ got' = IF error THEN got ELSE Append(got, at)
  BY DEF C!ReadBlock, C!Transfer
<1>3. /\ ~ write /\ ~ noinit /\ Len(got) < count
      /\ at \in Int /\ sect \in Nat /\ count \in Nat \ {0} /\ got \in Seq(Int)
  BY <1>1 DEF CardInv, CardTypes, Places, Settled, Progressing, Calling
<1>4. /\ count > 1 => step' \in {"read_stop", "read_block"}
      /\ ~ count > 1 => step' \in {"failed", "succeeded"}
  BY <1>2 DEF C!Multiple
<1>5. CardTypes' /\ Places' /\ Power' /\ Settled'
  BY <1>1, <1>3, <1>4
     DEF CardInv, CardTypes, Places, Power, Settled, Initializing, Starting, Knows8,
         Older, Calling
<1>6. Identified' /\ InTransfer' /\ Stays'
  BY <1>1, <1>3, <1>4
     DEF CardInv, Identified, InTransfer, Stays, Initializing, Starting, Knows8,
         Older, Alike
<1>7. CASE error
  <2>1. got' = got /\ step' \in {"read_stop", "failed"}
    BY <1>2, <1>7
  <2>2. Progressing' /\ Exact'
    BY <1>1, <2>1 DEF CardInv, Progressing, Exact, Calling
  <2> QED
    BY <1>5, <1>6, <2>2 DEF CardInv
<1>8. CASE ~ error
  <2>1. got' = Append(got, at) /\ Len(got) \in Nat
    BY <1>2, <1>3, <1>8
  <2>2. got' \in Seq(Int) /\ Len(got') = Len(got) + 1
    BY <1>3, <2>1
  <2>3. /\ step' = "succeeded" => Len(got') = count
        /\ step' = "read_block" => Len(got') < count
        /\ step' \notin {"read", "write", "write_block"}
    BY <1>2, <1>3, <1>8, <2>1, <2>2 DEF C!Multiple
  <2>4. Progressing'
    BY <1>1, <1>3, <2>1, <2>2, <2>3 DEF Progressing
  <2>5. ASSUME CardType # "none" PROVE Exact'
    <3>1. /\ at = sect + Len(got) /\ moved = {}
          /\ got = [k \in 1 .. Len(got) |-> sect + k - 1]
      BY <1>1, <1>3, <2>5 DEF CardInv, Exact, Calling
    <3>2. got' = [k \in 1 .. Len(got') |-> sect + k - 1]
      BY <1>3, <2>1, <3>1, LongerRun
    <3>3. at' = sect + Len(got')
      BY <1>1, <1>3, <2>1, <2>2, <3>1
    <3> QED
      BY <1>1, <1>3, <3>1, <3>2, <3>3 DEF Exact
  <2>6. CardType = "none" => Exact'
    BY <1>1 DEF Exact
  <2> QED
    BY <1>5, <1>6, <2>4, <2>5, <2>6 DEF CardInv
<1> QED
  BY <1>7, <1>8

\* A block that the card is not ready for is one of several.
LEMMA BlockTimesOutStep ==
    ASSUME CardInv, C!BlockTimesOut
    PROVE  CardInv'
<1>1. /\ step = "write_block" /\ C!Alive /\ programming /\ programming' = TRUE
      /\ step' = IF C!Multiple THEN "write_stop" ELSE "failed"
      /\ UNCHANGED <<power_control, kind, present, events, powered, unstopped, card, at,
                     write, sect, count, moved, known, noinit, CardType, ty, got, result,
                     tries>>
      /\ C!Alive' = C!Alive
  BY DEF C!BlockTimesOut, C!WaitTimesOut, C!Transfer, C!env, C!args, C!status, C!Alive
<1>2. /\ write /\ ~ noinit /\ got \in Seq(Int) /\ Len(got) < count /\ Len(got) # 0
      /\ count \in Nat
  BY <1>1 DEF CardInv, CardTypes, Places, Settled, Progressing, Calling
<1>3. step' = "write_stop"
  <2>1. Len(got) \in Nat
    BY <1>2
  <2> QED
    BY <1>1, <1>2, <2>1 DEF C!Multiple
<1>4. CardTypes' /\ Places' /\ Power' /\ Settled'
  BY <1>1, <1>2, <1>3
     DEF CardInv, CardTypes, Places, Power, Settled, Initializing, Starting, Knows8,
         Older, Calling
<1>5. Identified' /\ InTransfer' /\ Stays'
  BY <1>1, <1>2, <1>3
     DEF CardInv, Identified, InTransfer, Stays, Initializing, Starting, Knows8,
         Older, Alike
<1>6. Progressing' /\ Exact'
  BY <1>1, <1>3 DEF CardInv, Progressing, Exact, Calling
<1> QED
  BY <1>4, <1>5, <1>6 DEF CardInv

LEMMA SendBlockStep ==
    ASSUME CardInv, NEW accepted \in BOOLEAN, C!SendBlock(accepted)
    PROVE  CardInv'
<1>1. /\ step = "write_block"
      /\ accepted => C!Alive /\ card = "receiving"
      /\ UNCHANGED <<power_control, kind, present, events, powered, unstopped, write, sect,
                     count, known, noinit, CardType, ty, result, tries>>
      /\ card' = IF count > 1 \/ ~ C!Alive \/ card # "receiving" THEN card ELSE "ready"
      /\ programming' = accepted
      /\ C!Alive' = C!Alive
  BY DEF C!SendBlock, C!Transfer, C!Multiple, C!env, C!args, C!status, C!Alive
<1>2. /\ step' = IF C!Multiple
                 THEN IF accepted /\ Len(got) + 1 < count THEN "write_block" ELSE "write_stop"
                 ELSE IF accepted THEN "succeeded" ELSE "failed"
      /\ moved' = IF accepted THEN moved \cup {at} ELSE moved
      /\ got' = IF accepted THEN Append(got, at) ELSE got
      /\ at' = IF accepted THEN at + 1 ELSE at
  BY DEF C!SendBlock, C!Transfer
<1>3. /\ write /\ ~ noinit /\ Len(got) < count
      /\ at \in Int /\ sect \in Nat /\ count \in Nat \ {0} /\ got \in Seq(Int)
      /\ C!Alive => card # "sending"
      /\ C!Alive /\ card = "receiving" => ~ unstopped
      /\ unstopped \in BOOLEAN
  BY <1>1 DEF CardInv, CardTypes, Places, Settled, Progressing, InTransfer, Calling, Starting
<1>4. /\ count > 1 => step' \in {"write_stop", "write_block"}
      /\ ~ count > 1 => step' \in {"failed", "succeeded"}
  BY <1>2 DEF C!Multiple
<1>5. /\ got' \in Seq(Int) /\ Len(got) \in Nat
      /\ Len(got') = IF accepted THEN Len(got) + 1 ELSE Len(got)
  BY <1>2, <1>3
<1>6. CardTypes' /\ Places' /\ Power' /\ Settled'
  <2>1. at' \in Int /\ programming' \in BOOLEAN
    BY <1>1, <1>2, <1>3
  <2>2. step' = "write_block" => accepted /\ Len(got') # 0
    BY <1>2, <1>5
  <2> QED
    BY <1>1, <1>3, <1>4, <2>1, <2>2
       DEF CardInv, CardTypes, Places, Power, Settled, Initializing, Starting, Knows8,
           Older, Calling
<1>7. Identified' /\ InTransfer' /\ Stays'
  BY <1>1, <1>3, <1>4
     DEF CardInv, Identified, InTransfer, Stays, Initializing, Starting, Knows8,
         Older, Alike
<1>8. CASE ~ accepted
  <2>1. got' = got /\ moved' = moved /\ step' \in {"write_stop", "failed"}
    BY <1>2, <1>8
  <2>2. Progressing' /\ Exact'
    BY <1>1, <2>1 DEF CardInv, Progressing, Exact, Calling
  <2> QED
    BY <1>6, <1>7, <2>2 DEF CardInv
<1>9. CASE accepted
  <2>1. /\ step' = "succeeded" => Len(got') = count
        /\ step' = "write_block" => Len(got') < count
        /\ step' \notin {"read", "write", "read_block"}
    BY <1>2, <1>3, <1>5, <1>9 DEF C!Multiple
  <2>2. Progressing'
    BY <1>1, <1>3, <1>5, <1>9, <2>1 DEF Progressing
  <2>3. ASSUME CardType # "none" PROVE Exact'
    <3>1. /\ at = sect + Len(got) /\ moved = sect .. sect + Len(got) - 1
          /\ got = [k \in 1 .. Len(got) |-> sect + k - 1]
      BY <1>1, <1>3, <1>9, <2>3 DEF CardInv, Exact, Calling
    <3>2. /\ got' = Append(got, sect + Len(got))
          /\ moved' = moved \cup {sect + Len(got)} /\ at' = sect + Len(got) + 1
      BY <1>2, <1>9, <3>1
    <3>3. got' = [k \in 1 .. Len(got') |-> sect + k - 1]
      BY <1>3, <3>1, <3>2, LongerRun
    <3>4. moved' = sect .. sect + Len(got') - 1
      <4>1. \A s, n \in Nat : (s .. s + n - 1) \cup {s + n} = s .. s + (n + 1) - 1
        OBVIOUS
      <4> QED
        BY <1>3, <1>5, <1>9, <3>1, <3>2, <4>1
    <3>5. at' = sect + Len(got')
      BY <1>3, <1>5, <1>9, <3>2
    <3> QED
      BY <1>1, <1>3, <3>3, <3>4, <3>5 DEF Exact
  <2>4. CardType = "none" => Exact'
    BY <1>1 DEF Exact
  <2> QED
    BY <1>6, <1>7, <2>2, <2>3, <2>4 DEF CardInv
<1> QED
  BY <1>8, <1>9

LEMMA WriteBlockStep ==
    ASSUME CardInv, C!WriteBlock
    PROVE  CardInv'
  BY BlockTimesOutStep, SendBlockStep DEF C!WriteBlock

\* The stop token leaves the card alone or at rest; one that is not sent leaves it
\* receiving, which is remembered.
LEMMA StopWriteStep ==
    ASSUME CardInv, C!StopWrite
    PROVE  CardInv'
<1>1. /\ step = "write_stop"
      /\ UNCHANGED <<power_control, kind, present, events, powered, write, sect, count,
                     known, noinit, CardType, ty, result, tries, at, moved, got>>
      /\ C!Alive' = C!Alive
  BY DEF C!StopWrite, C!SendStop, C!StopTimesOut, C!Transfer, C!env, C!args, C!status,
         C!Alive
<1>2. /\ C!Alive => card # "sending"
      /\ C!Alive /\ card = "receiving" => ~ unstopped
      /\ ~ noinit /\ got \in Seq(Int) /\ count \in Nat
      /\ unstopped \in BOOLEAN
  BY <1>1 DEF CardInv, CardTypes, InTransfer, Settled, Progressing, Calling, Starting
<1>3. CASE C!SendStop
  <2>1. /\ step' = IF Len(got) = count THEN "succeeded" ELSE "failed"
        /\ card' = IF C!Alive /\ card = "receiving" THEN "ready" ELSE card
        /\ programming' = (card' # card) /\ unstopped' = unstopped
    BY <1>3 DEF C!SendStop, C!Transfer, C!End, C!Done
  <2>2. programming' \in BOOLEAN
    BY <2>1, Zenon
  <2>3. CardTypes' /\ Places' /\ Power' /\ Settled'
    BY <1>1, <1>2, <2>1, <2>2
       DEF CardInv, CardTypes, Places, Power, Settled, Initializing, Starting, Knows8,
           Older, Calling
  <2>4. Identified' /\ InTransfer' /\ Stays'
    BY <1>1, <1>2, <2>1
       DEF CardInv, Identified, InTransfer, Stays, Initializing, Starting, Knows8,
           Older, Alike
  <2>5. Progressing' /\ Exact'
    BY <1>1, <2>1 DEF CardInv, Progressing, Exact, Calling
  <2> QED
    BY <2>3, <2>4, <2>5 DEF CardInv
<1>4. CASE C!StopTimesOut
  <2>1. /\ step' = "failed" /\ card' = card
        /\ programming' = TRUE /\ unstopped' = (card = "receiving")
    BY <1>4 DEF C!StopTimesOut, C!WaitTimesOut, C!Transfer
  <2>2. programming' \in BOOLEAN /\ unstopped' \in BOOLEAN
    BY <2>1, Zenon
  <2>3. CardTypes' /\ Places' /\ Power' /\ Settled'
    BY <1>1, <1>2, <2>1, <2>2
       DEF CardInv, CardTypes, Places, Power, Settled, Initializing, Starting, Knows8,
           Older, Calling
  <2>4. Identified' /\ InTransfer' /\ Stays'
    BY <1>1, <1>2, <2>1
       DEF CardInv, Identified, InTransfer, Stays, Initializing, Starting, Knows8,
           Older, Alike
  <2>5. Progressing' /\ Exact'
    BY <1>1, <2>1 DEF CardInv, Progressing, Exact, Calling
  <2> QED
    BY <2>3, <2>4, <2>5 DEF CardInv
<1> QED
  BY <1>3, <1>4 DEF C!StopWrite

LEMMA ReturnStep ==
    ASSUME CardInv, C!Return
    PROVE  CardInv'
<1>1. /\ step \in {"succeeded", "failed"} /\ step' = "app"
      /\ result' \in {"ok", "error"}
      /\ UNCHANGED <<power_control, kind, present, events, powered, programming, unstopped,
                     write, sect, count, known, noinit, CardType, ty, tries, at, moved, got,
                     card>>
      /\ C!Alive' = C!Alive
  BY DEF C!Return, C!Transfer, C!env, C!args, C!wait, C!status, C!Alive
<1>2. CardTypes' /\ Places' /\ Power' /\ Settled'
  BY <1>1
     DEF CardInv, CardTypes, Places, Power, Settled, Initializing, Starting, Knows8,
         Older, Calling
<1>3. Identified' /\ InTransfer' /\ Stays'
  BY <1>1
     DEF CardInv, Identified, InTransfer, Stays, Settled, Initializing, Starting, Knows8,
         Older, Alike, Calling
<1>4. Progressing' /\ Exact'
  BY <1>1 DEF CardInv, Progressing, Exact, Calling
<1> QED
  BY <1>2, <1>3, <1>4 DEF CardInv

LEMMA StartReadStep ==
    ASSUME CardInv, C!StartRead
    PROVE  CardInv'
<1> DEFINE cmd == IF count > 1 THEN "CMD18" ELSE "CMD17"
<1>1. /\ C!SendCmd(cmd, C!Address(sect), "read", C!Branch({"ok"}, "read_block", "failed"))
      /\ UNCHANGED <<moved, known, noinit, CardType, ty, got, result, tries>>
  BY DEF C!StartRead, C!status
<1>2. cmd \in {"CMD17", "CMD18"}
  OBVIOUS
<1> HIDE DEF cmd
<1> QED
  BY <1>1, <1>2, Started

LEMMA StartWriteStep ==
    ASSUME CardInv, C!StartWrite
    PROVE  CardInv'
<1> DEFINE cmd == IF count > 1 THEN "CMD25" ELSE "CMD24"
<1>1. /\ C!SendCmd(cmd, C!Address(sect), "write", C!Branch({"ok"}, "write_block", "failed"))
      /\ UNCHANGED <<moved, known, noinit, CardType, ty, got, result, tries>>
  BY DEF C!StartWrite, C!status
<1>2. cmd \in {"CMD24", "CMD25"}
  OBVIOUS
<1> HIDE DEF cmd
<1> QED
  BY <1>1, <1>2, Started

LEMMA LeaveIdleStep ==
    ASSUME CardInv, C!LeaveIdle
    PROVE  CardInv'
  BY LeaveIdleSdStep, LeaveIdleMmcStep DEF C!LeaveIdle
-----------------------------------------------------------------------------
(* mmc.c: the theorems *)

LEMMA CardInitInv == C!Init => CardInv
<1> SUFFICES ASSUME C!Init PROVE CardInv
  OBVIOUS
<1>1. CardTypes /\ Places /\ Power
  <2>1. /\ kind \in Kinds /\ present \in BOOLEAN /\ power_control \in BOOLEAN
        /\ powered = ~ power_control
        /\ card = IF power_control THEN "raw" ELSE "confused"
        /\ at = 0 /\ events = 0 /\ known = FALSE /\ noinit = TRUE /\ step = "app"
        /\ tries = 0 /\ write = FALSE /\ sect = 0 /\ count = 1
        /\ programming = FALSE /\ unstopped = FALSE
    BY CardAssumption DEF C!Init
  <2>2. /\ powered \in BOOLEAN /\ known \in BOOLEAN /\ noinit \in BOOLEAN
        /\ write \in BOOLEAN /\ programming \in BOOLEAN /\ unstopped \in BOOLEAN
    BY <2>1, Zenon
  <2>3. CardTypes
    BY <2>1, <2>2 DEF CardTypes
  <2>4. Places
    BY <2>1 DEF Places, Initializing, Starting, Knows8, Older, Calling
  <2>5. Power
    BY <2>1 DEF Power
  <2> QED
    BY <2>3, <2>4, <2>5
<1>2. Identified /\ InTransfer /\ Stays /\ Settled /\ Exact
  BY DEF C!Init, Identified, InTransfer, Stays, Settled, Exact, Initializing, Starting,
         Knows8, Older, Calling
<1>3. Progressing
  <2>1. got = <<>> /\ step = "app" /\ count = 1
    BY DEF C!Init
  <2>2. Len(<<>>) = 0 /\ <<>> \in Seq(Int)
    OBVIOUS
  <2> QED
    BY <2>1, <2>2 DEF Progressing
<1> QED
  BY <1>1, <1>2, <1>3 DEF CardInv

LEMMA CardStep == CardInv /\ [C!Next]_(C!vars) => CardInv'
<1> SUFFICES ASSUME CardInv, [C!Next]_(C!vars) PROVE CardInv'
  OBVIOUS
<1>1. CASE C!Initialize
  BY <1>1, PowerUpStep, DetectStep, GoIdleStep, SendIfCondStep, SendOpCond2Step,
     ReadOcrStep, ProbeStep, LeaveIdleStep, SetBlockLengthStep, FinishStep
     DEF C!Initialize
<1>2. CASE C!ReadWrite
  BY <1>2, StartReadStep, ReadBlockStep, StopReadStep, StartWriteStep, WriteBlockStep,
     StopWriteStep, ReturnStep DEF C!ReadWrite
<1>3. CASE C!Opened \/ C!Open \/ C!CallTransfer \/ C!Remove \/ C!Insert
  BY <1>3, OpenedStep, OpenStep, CallTransferStep, RemoveStep, InsertStep
<1>4. CASE UNCHANGED C!vars
  <2>1. UNCHANGED <<power_control, kind, present, events, powered, card, at, programming,
                    unstopped, moved, known, noinit, CardType, step, ty, write, sect, count,
                    got, result, tries>>
    BY <1>4 DEF C!vars, C!env, C!args, C!wait, C!status
  <2>2. CardTypes' /\ Places' /\ Power' /\ Settled' /\ C!Alive' = C!Alive
    BY <2>1 DEF CardInv, CardTypes, Places, Power, Settled, C!Alive
  <2>3. Identified' /\ InTransfer' /\ Stays'
    BY <2>1, <2>2 DEF CardInv, Identified, InTransfer, Stays
  <2>4. Progressing' /\ Exact'
    BY <2>1, <2>2 DEF CardInv, Progressing, Exact
  <2> QED
    BY <2>2, <2>3, <2>4 DEF CardInv
<1> QED
  BY <1>1, <1>2, <1>3, <1>4 DEF C!Next, C!Driver

LEMMA CardInvariance == C!Spec => []CardInv
  BY CardInitInv, CardStep, PTL DEF C!Spec

\* A read that succeeds returns the sectors asked for, a write that succeeds has
\* written them, and one that fails no other: on a card of whatever kind, exchanged
\* for another one any number of times, if the last initialization came to its type.
THEOREM TransfersAreExact == C!Spec => []TransferIsExact
<1>1. CardInv => TransferIsExact
  <2> SUFFICES ASSUME CardInv, CardType # "none", step \in {"succeeded", "failed"}
               PROVE  /\ step = "succeeded" => /\ got = [k \in 1 .. count |-> sect + k - 1]
                                               /\ write => moved = C!Requested
                      /\ step = "failed" => moved \subseteq C!Requested
    BY DEF TransferIsExact, C!TransferIsExact
  <2>1. /\ got = [k \in 1 .. Len(got) |-> sect + k - 1]
        /\ moved = IF write THEN sect .. sect + Len(got) - 1 ELSE {}
    BY DEF CardInv, Exact, Calling
  <2>2. /\ Len(got) <= count /\ got \in Seq(Int)
        /\ step = "succeeded" => Len(got) = count
    BY DEF CardInv, Progressing
  <2>3. Len(got) \in Nat /\ count \in Nat /\ sect \in Nat
    BY <2>2 DEF CardInv, CardTypes
  <2>4. moved \subseteq C!Requested
    <3>1. \A s, m, n \in Nat : m <= n => s .. s + m - 1 \subseteq s .. s + n - 1
      OBVIOUS
    <3>2. moved \subseteq sect .. sect + Len(got) - 1
      BY <2>1
    <3>3. sect .. sect + Len(got) - 1 \subseteq sect .. sect + count - 1
      BY <2>2, <2>3, <3>1
    <3> QED
      BY <3>2, <3>3 DEF C!Requested
  <2> QED
    BY <2>1, <2>2, <2>4 DEF C!Requested
<1> QED
  BY <1>1, CardInvariance, PTL

\* No call of the driver, however it ends, leaves a card in its socket sending, nor
\* waiting for data unless it was not ready for its stop token in time; and no call
\* succeeds on such a card until it has been started again.
THEOREM CardComesToRest == C!Spec => []CardIsAtRest
<1>1. CardInv => CardIsAtRest
  BY DEF CardIsAtRest, C!CardIsAtRest, CardInv, InTransfer, Starting, C!Alive
<1> QED
  BY <1>1, CardInvariance, PTL

\* The second f_mount() of _open() finds any card that stays in its socket, whatever
\* state the reset of the hart left it in.
THEOREM StayingCardIsFound == C!Spec => []CardIsFound
<1>1. CardInv => CardIsFound
  BY DEF CardIsFound, C!CardIsFound, CardInv, Stays, CardTypes
<1> QED
  BY <1>1, CardInvariance, PTL
-----------------------------------------------------------------------------
(* The counters *)

\* Where the counter stands with respect to what has been read so far.
ReadInv ==
    /\ csr \in R!ReadStages => R!Leq(called, counter)
    /\ csr \in {"low", "high", "compare"} =>
          called[1] <= high_tmp /\ high_tmp <= counter[1]
    /\ csr \in {"high", "compare"} =>
          \E then \in R!Word :   \* the high word when low was read
             /\ R!Leq(called, <<then, low>>) /\ R!Leq(<<then, low>>, counter)
             /\ high_tmp <= then
             /\ csr = "compare" => then <= high /\ high <= counter[1]

\* Where the counter stands with respect to what has been cleared so far.
ClearInv ==
    steady /\ csr \in {"clear_low", "clear_high", "cleared"} =>
       /\ paused
       /\ csr \in {"clear_high", "cleared"} => counter[2] = 0
       /\ csr = "cleared" => counter[1] = 0

\* Every variable has its type.
THEOREM CountersTypes == R!Spec => []R!TypeOK
<1>1. R!Init => R!TypeOK
  <2>1. 0 \in R!Word
    BY CounterAssumption DEF R!Word
  <2> QED
    BY <2>1 DEF R!Init, R!TypeOK
<1>2. R!TypeOK /\ [R!Next]_(R!vars) => R!TypeOK'
  <2> SUFFICES ASSUME R!TypeOK, [R!Next]_(R!vars)
               PROVE  R!TypeOK'
    OBVIOUS
  <2> USE CounterAssumption DEF R!TypeOK, R!Count, R!Word, R!ReadStages
  <2>1. CASE R!Program
    BY <2>1 DEF R!Program, R!CallRead, R!CallClear, R!Call, R!Access, R!ReadHighTmp, R!ReadLow,
                R!ReadHigh, R!Compare, R!ClearLow, R!ClearHigh, R!ReturnFromClear, R!locals
  <2>2. CASE R!Tick
    BY <2>2 DEF R!Tick, R!Last, R!locals
  <2>3. CASE \E on \in BOOLEAN : R!Inhibit(on)
    BY <2>3 DEF R!Inhibit, R!locals
  <2>4. CASE UNCHANGED R!vars
    BY <2>4 DEF R!vars, R!locals
  <2> QED
    BY <2>1, <2>2, <2>3, <2>4 DEF R!Next
<1> QED
  BY <1>1, <1>2, PTL DEF R!Spec

\* A counter that does not wrap only grows, and so does its upper word.
LEMMA TickGrows ==
    ASSUME R!TypeOK, R!Tick
    PROVE  R!Leq(counter, counter') /\ counter[1] <= counter'[1]
  BY CounterAssumption DEF R!TypeOK, R!Count, R!Word, R!Tick, R!Leq

\* The order of two-word counts is transitive.
LEMMA LeqTransitive ==
    ASSUME NEW c \in R!Count, NEW d \in R!Count, NEW e \in R!Count, R!Leq(c, d), R!Leq(d, e)
    PROVE  R!Leq(c, e)
  BY CounterAssumption DEF R!Count, R!Word, R!Leq

\* ReadInv is inductive.
LEMMA ReadInvHolds == R!Spec => []ReadInv
<1>1. R!Init => ReadInv
  BY DEF R!Init, ReadInv, R!ReadStages
<1>2. R!TypeOK /\ R!TypeOK' /\ ReadInv /\ [R!Next]_(R!vars) => ReadInv'
  <2> SUFFICES ASSUME R!TypeOK, R!TypeOK', ReadInv, [R!Next]_(R!vars)
               PROVE  ReadInv'
    OBVIOUS
  <2> USE CounterAssumption DEF R!ReadStages
  <2>1. CASE R!CallRead \/ R!CallClear
    BY <2>1 DEF R!CallRead, R!CallClear, R!Call, ReadInv, R!Leq, R!TypeOK, R!Count, R!Word
  <2>2. CASE R!ReadHighTmp
    BY <2>2 DEF R!ReadHighTmp, R!Access, ReadInv, R!Leq, R!TypeOK, R!Count, R!Word
  <2>3. CASE R!ReadLow
    <3>1. R!Leq(called, <<counter[1], low'>>) /\ R!Leq(<<counter[1], low'>>, counter)
      BY <2>3 DEF R!ReadLow, R!Access, ReadInv, R!Leq, R!TypeOK, R!Count, R!Word
    <3>2. counter[1] \in R!Word
      BY DEF R!TypeOK, R!Count
    <3> QED
      BY <2>3, <3>1, <3>2 DEF R!ReadLow, R!Access, ReadInv
  <2>4. CASE R!ReadHigh
    BY <2>4 DEF R!ReadHigh, R!Access, ReadInv, R!Leq, R!TypeOK, R!Count, R!Word
  <2>5. CASE R!Compare
    BY <2>5 DEF R!Compare, R!Access, ReadInv
  <2>6. CASE R!ClearLow \/ R!ClearHigh \/ R!ReturnFromClear
    BY <2>6 DEF R!ClearLow, R!ClearHigh, R!ReturnFromClear, R!Access, ReadInv
  <2>7. CASE R!Tick
    <3>1. csr \in R!ReadStages => R!Leq(called, counter')
      BY <2>7, TickGrows, LeqTransitive DEF ReadInv, R!TypeOK
    <3>2. csr \in {"low", "high", "compare"} => high_tmp <= counter'[1]
      BY <2>7, TickGrows DEF ReadInv, R!TypeOK, R!Count, R!Word
    <3>3. ASSUME NEW then \in R!Word, R!Leq(<<then, low>>, counter)
          PROVE  R!Leq(<<then, low>>, counter')
      BY <2>7, <3>3, TickGrows, LeqTransitive DEF R!TypeOK, R!Count
    <3>4. csr = "compare" => high <= counter'[1]
      <4>1. counter[1] \in Nat /\ counter'[1] \in Nat /\ high \in Nat
        BY DEF R!TypeOK, R!Count, R!Word
      <4>2. csr = "compare" => high <= counter[1]
        BY DEF ReadInv
      <4> QED
        BY <2>7, <4>1, <4>2, TickGrows
    <3>5. UNCHANGED <<csr, high_tmp, low, high, called>>
      BY <2>7 DEF R!Tick, R!locals
    <3> QED
      BY <3>1, <3>2, <3>3, <3>4, <3>5 DEF ReadInv
  <2>8. CASE \E on \in BOOLEAN : R!Inhibit(on)
    BY <2>8 DEF R!Inhibit, R!locals, ReadInv
  <2>9. CASE UNCHANGED R!vars
    BY <2>9 DEF R!vars, R!locals, ReadInv
  <2> QED
    BY <2>1, <2>2, <2>3, <2>4, <2>5, <2>6, <2>7, <2>8, <2>9 DEF R!Next, R!Program
<1> QED
  BY <1>1, <1>2, CountersTypes, PTL DEF R!Spec

\* counter.c, "ensures correct reading even if the counter increments in
\* between the CSR accesses", for every counter width.
THEOREM ReadAccurate == R!Spec => ReadIsAccurate
<1>1. R!TypeOK /\ ReadInv =>
        (R!Compare /\ csr' = "main" => R!Leq(called, returned') /\ R!Leq(returned', counter))
  <2> SUFFICES ASSUME R!TypeOK, ReadInv, R!Compare, csr' = "main"
               PROVE  R!Leq(called, returned') /\ R!Leq(returned', counter)
    OBVIOUS
  <2>1. csr = "compare" /\ high_tmp = high /\ returned' = <<high, low>>
    BY DEF R!Compare, R!Access
  <2>2. PICK then \in R!Word : /\ R!Leq(called, <<then, low>>)
                             /\ R!Leq(<<then, low>>, counter)
                             /\ high_tmp <= then /\ then <= high
    BY <2>1 DEF ReadInv
  <2>3. then = high
    BY <2>1, <2>2, CounterAssumption DEF R!TypeOK, R!Word
  <2> QED
    BY <2>1, <2>2, <2>3
<1> QED
  BY <1>1, CountersTypes, ReadInvHolds, PTL DEF ReadIsAccurate, R!ReadIsAccurate

\* bm_counter_clear() of a counter that stays paused leaves it at zero.
THEOREM ClearComplete == R!Spec => []ClearIsComplete
<1>1. R!Init => ClearInv
  BY DEF R!Init, ClearInv
<1>2. R!TypeOK /\ ClearInv /\ [R!Next]_(R!vars) => ClearInv'
  <2> SUFFICES ASSUME R!TypeOK, ClearInv, [R!Next]_(R!vars)
               PROVE  ClearInv'
    OBVIOUS
  <2>1. CASE R!CallRead \/ R!CallClear
    BY <2>1 DEF R!CallRead, R!CallClear, R!Call, R!TypeOK, ClearInv
  <2>2. CASE R!ReadHighTmp \/ R!ReadLow \/ R!ReadHigh \/ R!Compare \/ R!ReturnFromClear
    BY <2>2 DEF R!Access, R!ReadHighTmp, R!ReadLow, R!ReadHigh, R!Compare, R!ReturnFromClear,
                ClearInv
  <2>3. CASE R!ClearLow \/ R!ClearHigh
    <3>1. counter'[2] = IF csr = "clear_low" THEN 0 ELSE counter[2]
      BY <2>3 DEF R!ClearLow, R!ClearHigh, R!Access
    <3>2. csr' = "cleared" => counter'[1] = 0 /\ csr = "clear_high"
      BY <2>3 DEF R!ClearLow, R!ClearHigh, R!Access
    <3>3. csr \in {"clear_low", "clear_high"} /\ UNCHANGED <<paused, steady>>
      BY <2>3, Zenon DEF R!ClearLow, R!ClearHigh, R!Access
    <3> QED
      BY <3>1, <3>2, <3>3 DEF ClearInv
  <2>4. CASE R!Tick
    <3>1. ~ (steady /\ csr \in {"clear_low", "clear_high", "cleared"})
      BY <2>4, Zenon DEF R!Tick, ClearInv
    <3>2. UNCHANGED <<csr, steady>>
      BY <2>4 DEF R!Tick
    <3> QED
      BY <3>1, <3>2, Zenon DEF ClearInv
  <2>5. CASE \E on \in BOOLEAN : R!Inhibit(on)
    <3>1. PICK on \in BOOLEAN : R!Inhibit(on)
      BY <2>5
    <3>2. steady' => steady /\ on /\ paused' = on
      BY <3>1, Zenon DEF R!Inhibit
    <3>3. UNCHANGED <<counter, csr>>
      BY <3>1 DEF R!Inhibit
    <3> QED
      BY <3>2, <3>3 DEF ClearInv
  <2>6. CASE UNCHANGED R!vars
    BY <2>6 DEF R!vars, R!locals, ClearInv
  <2> QED
    BY <2>1, <2>2, <2>3, <2>4, <2>5, <2>6 DEF R!Next, R!Program
<1>3. R!TypeOK /\ ClearInv => ClearIsComplete
  BY DEF R!TypeOK, R!Count, ClearInv, ClearIsComplete, R!ClearIsComplete
<1> QED
  BY <1>1, <1>2, <1>3, CountersTypes, PTL DEF R!Spec
-----------------------------------------------------------------------------
(* The counters of the HPM events.                                         *)

EventTypes ==
    /\ claimed \in [E!Counters -> Events \cup {E!None}]
    /\ hcount \in [E!Counters -> Nat]
    /\ inhibited \in [E!Counters -> BOOLEAN]
    /\ wanted \in [Events -> {"no", "yes", "paused"}]
    /\ seen \in [Events -> Nat]

\* No event has two counters.
OneHolder ==
    \A k, m \in E!Counters :
        claimed[k] = claimed[m] /\ claimed[k] # E!None => k = m

\* Only the counter of a paused event is inhibited.
PausedOnly ==
    \A k \in E!Counters :
        inhibited[k] => claimed[k] # E!None /\ wanted[claimed[k]] = "paused"

\* The counter of a started event counts it exactly.
Counted ==
    \A e \in Events : wanted[e] # "no" =>
        \E k \in E!Counters :
            /\ claimed[k] = e
            /\ hcount[k] = seen[e]
            /\ inhibited[k] <=> wanted[e] = "paused"

EventsInv == EventTypes /\ selected = claimed /\ OneHolder /\ PausedOnly /\ Counted

\* get_counter_id() returns the counter of the event, or a free one for an event
\* that has none.
LEMMA FoundCounter ==
    ASSUME NEW e \in Events, NEW c \in E!GetCounterId(e)
    PROVE  /\ c \in E!Counters
           /\ \/ claimed[c] = e
              \/ claimed[c] = E!None /\ \A k \in E!Counters : claimed[k] # e
  BY DEF E!GetCounterId, E!Holders

\* A call that takes counter c for event e, and leaves the other counters and the
\* other events alone, keeps the invariant if c then counts e as it should.
LEMMA ClaimKeepsEventsInv ==
    ASSUME EventsInv, EventTypes', NEW e \in Events, NEW c \in E!GetCounterId(e),
           E!Claim(c, e),
           \A k \in E!Counters \ {c} :
               hcount'[k] = hcount[k] /\ inhibited'[k] = inhibited[k],
           \A f \in Events \ {e} : wanted'[f] = wanted[f] /\ seen'[f] = seen[f],
           inhibited'[c] <=> wanted'[e] = "paused",
           wanted'[e] # "no" => hcount'[c] = seen'[e]
    PROVE  EventsInv'
<1> USE CounterAssumption
<1>1. /\ c \in E!Counters
      /\ \/ claimed[c] = e
         \/ claimed[c] = E!None /\ \A k \in E!Counters : claimed[k] # e
  BY FoundCounter
<1>2. claimed' = [claimed EXCEPT ![c] = e] /\ e # E!None
  BY DEF E!Claim
<1>3. claimed'[c] = e /\ \A k \in E!Counters \ {c} : claimed'[k] = claimed[k]
  BY <1>1, <1>2 DEF EventsInv, EventTypes
<1>4. \A k \in E!Counters \ {c} : claimed[k] # e
  BY <1>1, <1>2 DEF EventsInv, OneHolder
<1>5. selected' = claimed'
  <2>1. CASE claimed[c] = e
    <3>1. claimed' = claimed
      BY <2>1, <1>1, <1>2 DEF EventsInv, EventTypes
    <3> QED
      BY <2>1, <3>1 DEF E!Claim, EventsInv
  <2>2. CASE claimed[c] # e
    BY <2>2 DEF E!Claim, EventsInv
  <2> QED
    BY <2>1, <2>2
<1>6. OneHolder'
  <2>1. \A k, m \in E!Counters \ {c} :
            claimed'[k] = claimed'[m] /\ claimed'[k] # E!None => k = m
    BY <1>3 DEF EventsInv, OneHolder
  <2>2. \A k \in E!Counters \ {c} : claimed'[k] # claimed'[c]
    BY <1>3, <1>4
  <2> QED
    BY <2>1, <2>2 DEF OneHolder
<1>7. PausedOnly'
  <2> SUFFICES ASSUME NEW k \in E!Counters, inhibited'[k]
               PROVE  claimed'[k] # E!None /\ wanted'[claimed'[k]] = "paused"
    BY DEF PausedOnly
  <2>1. CASE k = c
    BY <2>1, <1>2, <1>3
  <2>2. CASE k # c
    <3>1. claimed[k] # E!None /\ wanted[claimed[k]] = "paused"
      BY <2>2 DEF EventsInv, PausedOnly
    <3>2. claimed[k] \in Events \ {e}
      BY <2>2, <3>1, <1>4 DEF EventsInv, EventTypes
    <3> QED
      BY <2>2, <3>1, <3>2, <1>3
  <2> QED
    BY <2>1, <2>2
<1>8. Counted'
  <2> SUFFICES ASSUME NEW f \in Events, wanted'[f] # "no"
               PROVE  \E k \in E!Counters :
                         /\ claimed'[k] = f
                         /\ hcount'[k] = seen'[f]
                         /\ inhibited'[k] <=> wanted'[f] = "paused"
    BY DEF Counted
  <2>1. CASE f = e
    BY <2>1, <1>1, <1>3
  <2>2. CASE f # e
    <3>1. PICK k \in E!Counters : /\ claimed[k] = f
                                  /\ hcount[k] = seen[f]
                                  /\ inhibited[k] <=> wanted[f] = "paused"
      BY <2>2 DEF EventsInv, Counted
    <3>2. k # c
      BY <3>1, <2>2, <1>1, CounterAssumption
    <3> QED
      BY <2>2, <3>1, <3>2, <1>3
  <2> QED
    BY <2>1, <2>2
<1> QED
  BY <1>5, <1>6, <1>7, <1>8 DEF EventsInv

\* bm_hpmcounter_start()
LEMMA StartKeepsEventsInv ==
    ASSUME EventsInv, NEW e \in Events, E!Start(e)
    PROVE  EventsInv'
<1> USE CounterAssumption
<1>1. PICK c \in E!GetCounterId(e) :
        /\ E!Claim(c, e)
        /\ hcount' = [hcount EXCEPT ![c] = 0]
        /\ E!Expect(e, IF wanted[e] = "paused" THEN "paused" ELSE "yes")
        /\ seen' = [seen EXCEPT ![e] = 0]
        /\ UNCHANGED inhibited
  BY Zenon DEF E!Start
<1>2. /\ c \in E!Counters
      /\ \/ claimed[c] = e
         \/ claimed[c] = E!None /\ \A k \in E!Counters : claimed[k] # e
  BY FoundCounter
<1>3. EventTypes'
  BY <1>1, <1>2 DEF EventsInv, EventTypes, E!Claim, E!Expect
<1>4. wanted'[e] = IF wanted[e] = "paused" THEN "paused" ELSE "yes"
  BY <1>1 DEF EventsInv, EventTypes, E!Expect
<1>5. inhibited[c] <=> wanted[e] = "paused"
  <2>1. CASE claimed[c] = e
    <3>1. inhibited[c] => wanted[e] = "paused"
      BY <2>1, <1>2 DEF EventsInv, PausedOnly
    <3>2. ASSUME wanted[e] = "paused"
          PROVE  inhibited[c]
      <4>1. PICK k \in E!Counters : /\ claimed[k] = e
                                    /\ inhibited[k] <=> wanted[e] = "paused"
        BY <3>2 DEF EventsInv, Counted
      <4>2. k = c
        BY <4>1, <2>1, <1>2 DEF EventsInv, OneHolder
      <4> QED
        BY <4>1, <4>2, <3>2
    <3> QED
      BY <3>1, <3>2
  <2>2. CASE claimed[c] = E!None /\ \A k \in E!Counters : claimed[k] # e
    <3>1. ~ inhibited[c]
      BY <2>2, <1>2 DEF EventsInv, PausedOnly
    <3>2. wanted[e] = "no"
      BY <2>2 DEF EventsInv, Counted
    <3> QED
      BY <3>1, <3>2
  <2> QED
    BY <1>2, <2>1, <2>2
<1>6. inhibited'[c] <=> wanted'[e] = "paused"
  BY <1>1, <1>4, <1>5
<1>7. hcount'[c] = 0 /\ seen'[e] = 0
  BY <1>1, <1>2 DEF EventsInv, EventTypes
<1>8. \A k \in E!Counters \ {c} :
          hcount'[k] = hcount[k] /\ inhibited'[k] = inhibited[k]
  BY <1>1 DEF EventsInv, EventTypes
<1>9. \A f \in Events \ {e} : wanted'[f] = wanted[f] /\ seen'[f] = seen[f]
  BY <1>1 DEF EventsInv, EventTypes, E!Expect
<1> QED
  BY <1>1, <1>3, <1>6, <1>7, <1>8, <1>9, ClaimKeepsEventsInv

\* bm_hpmcounter_pause() and bm_hpmcounter_resume(), of a started event.
LEMMA InhibitKeepsEventsInv ==
    ASSUME EventsInv, Orderly = TRUE, NEW e \in Events, NEW on \in BOOLEAN,
           E!Inhibit(e, on)
    PROVE  EventsInv'
<1> USE CounterAssumption
<1>1. PICK c \in E!GetCounterId(e) :
        /\ Orderly => wanted[e] # "no"
        /\ E!Claim(c, e)
        /\ inhibited' = [inhibited EXCEPT ![c] = on]
        /\ E!Expect(e, IF wanted[e] = "no" THEN "no"
                       ELSE IF on THEN "paused" ELSE "yes")
        /\ UNCHANGED <<hcount, seen>>
  BY Zenon DEF E!Inhibit
<1>2. /\ c \in E!Counters
      /\ \/ claimed[c] = e
         \/ claimed[c] = E!None /\ \A k \in E!Counters : claimed[k] # e
  BY FoundCounter
<1>3. wanted[e] # "no"
  BY <1>1
<1>4. wanted' = [wanted EXCEPT ![e] = IF on THEN "paused" ELSE "yes"]
  BY <1>1, <1>3 DEF E!Expect
<1>5. EventTypes'
  <2>1. claimed' \in [E!Counters -> Events \cup {E!None}]
    BY <1>1, <1>2 DEF EventsInv, EventTypes, E!Claim
  <2>2. inhibited' \in [E!Counters -> BOOLEAN]
    BY <1>1, <1>2 DEF EventsInv, EventTypes
  <2>3. wanted' \in [Events -> {"no", "yes", "paused"}]
    BY <1>4 DEF EventsInv, EventTypes
  <2> QED
    BY <1>1, <2>1, <2>2, <2>3 DEF EventsInv, EventTypes
<1>6. hcount[c] = seen[e]
  <2>1. PICK k \in E!Counters : claimed[k] = e /\ hcount[k] = seen[e]
    BY <1>3 DEF EventsInv, Counted
  <2>2. k = c
    BY <2>1, <1>2 DEF EventsInv, OneHolder
  <2> QED
    BY <2>1, <2>2
<1>7. inhibited'[c] <=> wanted'[e] = "paused"
  <2>1. inhibited'[c] = on
    BY <1>1, <1>2 DEF EventsInv, EventTypes
  <2>2. wanted'[e] = IF on THEN "paused" ELSE "yes"
    BY <1>4 DEF EventsInv, EventTypes
  <2> QED
    BY <2>1, <2>2
<1>8. \A k \in E!Counters \ {c} :
          hcount'[k] = hcount[k] /\ inhibited'[k] = inhibited[k]
  BY <1>1 DEF EventsInv, EventTypes
<1>9. \A f \in Events \ {e} : wanted'[f] = wanted[f] /\ seen'[f] = seen[f]
  BY <1>1, <1>4 DEF EventsInv, EventTypes
<1> QED
  BY <1>1, <1>5, <1>6, <1>7, <1>8, <1>9, ClaimKeepsEventsInv

\* bm_hpmcounter_read()
LEMMA ReadKeepsEventsInv ==
    ASSUME EventsInv, NEW e \in Events, E!Read(e)
    PROVE  EventsInv'
<1> USE CounterAssumption
<1>1. PICK c \in E!GetCounterId(e) :
        E!Claim(c, e) /\ UNCHANGED <<hcount, inhibited, wanted, seen>>
  BY Zenon DEF E!Read
<1>2. /\ c \in E!Counters
      /\ \/ claimed[c] = e
         \/ claimed[c] = E!None /\ \A k \in E!Counters : claimed[k] # e
  BY FoundCounter
<1>3. EventTypes'
  BY <1>1, <1>2 DEF EventsInv, EventTypes, E!Claim
<1>4. (inhibited[c] <=> wanted[e] = "paused") /\ (wanted[e] # "no" => hcount[c] = seen[e])
  <2>1. CASE wanted[e] = "no"
    BY <2>1, <1>2 DEF EventsInv, PausedOnly
  <2>2. CASE wanted[e] # "no"
    <3>1. PICK k \in E!Counters : /\ claimed[k] = e
                                  /\ hcount[k] = seen[e]
                                  /\ inhibited[k] <=> wanted[e] = "paused"
      BY <2>2 DEF EventsInv, Counted
    <3>2. k = c
      BY <3>1, <1>2 DEF EventsInv, OneHolder
    <3> QED
      BY <3>1, <3>2
  <2> QED
    BY <2>1, <2>2
<1> QED
  BY <1>1, <1>3, <1>4, ClaimKeepsEventsInv

\* bm_hpmcounter_stop(), of an event that is not paused.
LEMMA StopKeepsEventsInv ==
    ASSUME EventsInv, Orderly = TRUE, NEW e \in Events, E!Stop(e)
    PROVE  EventsInv'
<1> USE CounterAssumption
<1>1. PICK c \in E!Holders(e) :
        /\ Orderly => wanted[e] # "paused"
        /\ selected' = [selected EXCEPT ![c] = E!None]
        /\ claimed' = [claimed EXCEPT ![c] = E!None]
        /\ E!Expect(e, "no")
        /\ seen' = [seen EXCEPT ![e] = 0]
        /\ UNCHANGED <<hcount, inhibited>>
  BY Zenon DEF E!Stop
<1>2. c \in E!Counters /\ claimed[c] = e /\ wanted[e] # "paused"
  BY <1>1 DEF E!Holders
<1>3. EventTypes' /\ selected' = claimed'
  BY <1>1, <1>2 DEF EventsInv, EventTypes, E!Expect
<1>4. claimed'[c] = E!None /\ \A k \in E!Counters \ {c} : claimed'[k] = claimed[k]
  BY <1>1, <1>2 DEF EventsInv, EventTypes
<1>5. /\ wanted'[e] = "no"
      /\ \A f \in Events \ {e} : wanted'[f] = wanted[f] /\ seen'[f] = seen[f]
  BY <1>1 DEF EventsInv, EventTypes, E!Expect
<1>6. OneHolder'
  BY <1>4 DEF EventsInv, OneHolder
<1>7. PausedOnly'
  <2> SUFFICES ASSUME NEW k \in E!Counters, inhibited[k]
               PROVE  claimed'[k] # E!None /\ wanted'[claimed'[k]] = "paused"
    BY <1>1 DEF PausedOnly
  <2>1. claimed[k] # E!None /\ wanted[claimed[k]] = "paused"
    BY DEF EventsInv, PausedOnly
  <2>2. k # c /\ claimed[k] \in Events \ {e}
    BY <2>1, <1>2 DEF EventsInv, EventTypes
  <2> QED
    BY <2>1, <2>2, <1>4, <1>5
<1>8. Counted'
  <2> SUFFICES ASSUME NEW f \in Events, wanted'[f] # "no"
               PROVE  \E k \in E!Counters :
                         /\ claimed'[k] = f
                         /\ hcount'[k] = seen'[f]
                         /\ inhibited'[k] <=> wanted'[f] = "paused"
    BY DEF Counted
  <2>1. f # e
    BY <1>5
  <2>2. PICK k \in E!Counters : /\ claimed[k] = f
                                /\ hcount[k] = seen[f]
                                /\ inhibited[k] <=> wanted[f] = "paused"
    BY <2>1, <1>5 DEF EventsInv, Counted
  <2>3. k # c
    BY <2>1, <2>2, <1>2
  <2> QED
    BY <2>1, <2>2, <2>3, <1>1, <1>4, <1>5
<1> QED
  BY <1>3, <1>6, <1>7, <1>8 DEF EventsInv

\* An event comes and is counted where it is selected.
LEMMA OccurKeepsEventsInv ==
    ASSUME EventsInv, NEW e \in Events, E!Occur(e)
    PROVE  EventsInv'
<1> USE CounterAssumption
<1>1. /\ hcount' = [k \in E!Counters |->
                      hcount[k] + (IF selected[k] = e /\ ~ inhibited[k] THEN 1 ELSE 0)]
      /\ seen' = [seen EXCEPT ![e] = @ + (IF wanted[e] = "yes" THEN 1 ELSE 0)]
      /\ UNCHANGED <<claimed, selected, inhibited, wanted>>
  BY DEF E!Occur
<1>2. EventTypes'
  BY <1>1 DEF EventsInv, EventTypes
<1>3. OneHolder' /\ PausedOnly' /\ selected' = claimed'
  BY <1>1 DEF EventsInv, OneHolder, PausedOnly
<1>4. Counted'
  <2> SUFFICES ASSUME NEW f \in Events, wanted[f] # "no"
               PROVE  \E k \in E!Counters :
                         /\ claimed[k] = f
                         /\ hcount'[k] = seen'[f]
                         /\ inhibited[k] <=> wanted[f] = "paused"
    BY <1>1 DEF Counted
  <2>1. PICK k \in E!Counters : /\ claimed[k] = f
                                /\ hcount[k] = seen[f]
                                /\ inhibited[k] <=> wanted[f] = "paused"
    BY DEF EventsInv, Counted
  <2>2. hcount'[k] = hcount[k] + (IF f = e /\ ~ inhibited[k] THEN 1 ELSE 0)
    BY <1>1, <2>1 DEF EventsInv
  <2>3. seen'[f] = seen[f] + (IF f = e /\ wanted[f] = "yes" THEN 1 ELSE 0)
    BY <1>1 DEF EventsInv, EventTypes
  <2>4. ~ inhibited[k] <=> wanted[f] = "yes"
    BY <2>1 DEF EventsInv, EventTypes
  <2>5. hcount'[k] = seen'[f]
    BY <2>1, <2>2, <2>3, <2>4
  <2> QED
    BY <2>1, <2>5
<1> QED
  BY <1>2, <1>3, <1>4 DEF EventsInv

\* hpm.h, "Start counter for the given event", for any number of events and of
\* counters: what bm_hpmcounter_read() returns for a started event is how often it
\* came, if the program pauses started events only and resumes them before it
\* stops them.
THEOREM EventsCounted ==
    ASSUME Orderly = TRUE
    PROVE  E!Spec => []EventsAreCounted
<1>1. E!Init => EventsInv
  BY CounterAssumption
     DEF E!Init, EventsInv, EventTypes, OneHolder, PausedOnly, Counted
<1>2. EventsInv /\ [E!Next]_(E!vars) => EventsInv'
  <2> SUFFICES ASSUME EventsInv, [E!Next]_(E!vars)
               PROVE  EventsInv'
    OBVIOUS
  <2>1. CASE E!Next
    <3>1. PICK e \in Events :
            \/ E!Start(e) \/ E!Stop(e) \/ E!Read(e) \/ E!Occur(e)
            \/ \E on \in BOOLEAN : E!Inhibit(e, on)
      BY <2>1, Zenon DEF E!Next
    <3> QED
      BY <3>1, StartKeepsEventsInv, StopKeepsEventsInv, ReadKeepsEventsInv,
         OccurKeepsEventsInv, InhibitKeepsEventsInv, Zenon
  <2>2. CASE UNCHANGED E!vars
    BY <2>2 DEF E!vars, EventsInv, EventTypes, OneHolder, PausedOnly, Counted
  <2> QED
    BY <2>1, <2>2
<1>3. EventsInv => EventsAreCounted
  <2> SUFFICES ASSUME EventsInv, NEW e \in Events, wanted[e] # "no"
               PROVE  /\ E!GetCounterId(e) # {}
                      /\ \A c \in E!GetCounterId(e) : hcount[c] = seen[e]
    BY DEF EventsAreCounted, E!EventsAreCounted
  <2>1. PICK k \in E!Counters : claimed[k] = e /\ hcount[k] = seen[e]
    BY DEF EventsInv, Counted
  <2>2. E!GetCounterId(e) = E!Holders(e) /\ k \in E!Holders(e)
    BY <2>1 DEF E!GetCounterId, E!Holders
  <2>3. \A c \in E!Holders(e) : c = k
    BY <2>1, CounterAssumption DEF E!Holders, EventsInv, OneHolder
  <2> QED
    BY <2>1, <2>2, <2>3
<1> QED
  BY <1>1, <1>2, <1>3, PTL DEF E!Spec
=============================================================================
