---------------------------- MODULE Z8530Proofs ----------------------------
(***************************************************************************)
(* Proofs about the z8530, for any room in its buffers, any characters,    *)
(* any use of its channels and any values of its registers.                *)
(***************************************************************************)
EXTENDS Z8530, TLAPS

(* Where the loop is says what it is doing.                                *)
LoopShape ==
    /\ loop.at \in {"idle", "turn", "signal"} => loop.doing = {}
    /\ loop.at = "idle" => loop = Idle8530
    /\ \A c \in Channels : loop.later[c] \subseteq {"READ"}

(* What the line answered fits, although the room was measured before.     *)
AnswerFits ==
    loop.at = "answered" => Len(chan[loop.chan].rx) + Len(loop.got) <= RxRoom

(* A receive interrupt is for a character that is available, and whatever  *)
(* was received is available but after a reset.                            *)
Received ==
    \A c \in Channels :
        /\ <<c, "RX">> \in ip => chan[c].avail
        /\ chan[c].rx # <<>> => chan[c].avail \/ c \in cleared

(* The end of a break that is latched is still a difference from it.       *)
DiffKept(ch) == "BREAK" \in ch.latched \ ch.raw => "BREAK" \in ch.diff

(* A break that is due is asked for and changed after the latch, which     *)
(* does not show one, or shows the last one while this one is on.          *)
Due(ch) ==
    /\ ch.wr1.status /\ "BREAK" \in ch.wr15 /\ "BREAK" \in ch.diff
    /\ "BREAK" \in ch.latched => "BREAK" \in ch.raw

(* A break that is due has its interrupt pending.                          *)
BreaksLatched ==
    \A c \in Channels :
        /\ DiffKept(chan[c])
        /\ c \in unseen => <<c, "STATUS">> \in ip /\ Due(chan[c])

ChipIInv == ChipTypeOK /\ LoopShape /\ AnswerFits /\ Received /\ BreaksLatched

(* The callouts of a channel that are needed or under way.                 *)
Owed(c) == callouts[c] \cup (IF loop.chan = c THEN loop.doing ELSE {})

(* With cooperative threads, the loop's decision on the signal is that of  *)
(* the registers, unless another one is owed.                              *)
SignalOwed ==
    /\ \/ \E c \in Channels : "INT" \in Owed(c)
       \/ loop.int = "unknown" /\ asserted = (Pending # {})
       \/ loop.int # "unknown" /\ (loop.int = "asserted") = (Pending # {})
    /\ loop.int = "asserted" => Pending # {}
    /\ loop.at = "signal" => loop.int # "unknown" /\ \A c \in Channels : callouts[c] = {}

(* A character to be sent is offered, or to be.                            *)
SendOwed ==
    /\ \A c \in Channels :
          chan[c].tx > 0 => \/ line[c].offered \/ "CTRL" \in Owed(c)
                            \/ loop.at = "ctrl" /\ loop.chan = c /\ loop.sent
    /\ (loop.at = "ctrl" /\ ~loop.sent) => chan[loop.chan].tx = 0

(* A line that told of characters is read, or put off with a full buffer.  *)
ReadOwed ==
    /\ \A c \in Channels :
          line[c].told => \/ "READ" \in Owed(c) \cup loop.later[c]
                          \/ loop.chan = c /\ loop.at = "read"
                          \/ loop.chan = c /\ loop.at = "answered" /\ loop.got # <<>>
    /\ \A c \in Channels : "READ" \in loop.later[c] => Full(c)
    /\ loop.at \in {"read", "answered"} => ~Full(loop.chan)
    /\ loop.at = "idle" => \A c \in Channels : line[c].told => Full(c)

Cooperative == SignalOwed /\ SendOwed /\ ReadOwed

-----------------------------------------------------------------------------
(* The operators of the model.                                             *)

(* The rest of a sequence.                                                 *)
LEMMA TailShorter ==
  ASSUME NEW S, NEW q \in Seq(S), q # <<>>
  PROVE  Tail(q) \in Seq(S) /\ Len(Tail(q)) = Len(q) - 1 /\ Head(q) \in S
OBVIOUS

(* What a refill of the FIFO leaves.                                       *)
LEMMA RefilledIs ==
  ASSUME NEW c \in Channels, NEW ch \in Channel, NEW bits \in SUBSET (Channels \X Sources),
         <<c, "RX">> \in bits => ch.avail
  PROVE  LET r == Refilled(c, ch, bits)
         IN  /\ r.chan \in Channel /\ r.ip \in SUBSET (Channels \X Sources)
             /\ r.new \in SUBSET {"READ", "INT"}
             /\ Len(r.chan.rx) <= Len(ch.rx)
             /\ r.chan.wr1 = ch.wr1 /\ r.chan.wr15 = ch.wr15 /\ r.chan.tx = ch.tx
             /\ r.chan.latched = ch.latched /\ r.chan.diff = ch.diff
             /\ r.chan.raw = ch.raw
             /\ r.ip = bits \/ "INT" \in r.new
             /\ \A b \in Channels \X Sources : b # <<c, "RX">> => (b \in r.ip <=> b \in bits)
             /\ <<c, "RX">> \in r.ip => r.chan.avail
             /\ r.chan.avail \/ r.chan.rx = <<>>
             /\ ch.rx # <<>> => r.chan.avail
             /\ ~ch.avail => bits \subseteq r.ip
<1> DEFINE errors == IF Head(ch.rx) = "GOOD" THEN ch.errors \ {"FRAME"}
                     ELSE (ch.errors \ {"FRAME"}) \cup {Head(ch.rx)}
           next == [ch EXCEPT !.rx = Tail(@), !.errors = errors]
           set == ch.rx # <<>> /\ Interrupts(next)
           r == Refilled(c, ch, bits)
<1>1. <<c, "RX">> \in Channels \X Sources
  BY DEF Sources
<1>2. CASE Hold(ch)
  <2>1. r = [chan |-> ch, ip |-> bits, new |-> {}]
    BY <1>2 DEF Refilled
  <2>2. ch.avail
    BY <1>2 DEF Hold, Special
  <2>3. QED
    BY <2>1, <2>2 DEF Channel
<1>3. CASE ~Hold(ch)
  <2>1. r = [chan |-> IF ch.rx = <<>> THEN [ch EXCEPT !.avail = FALSE]
                      ELSE [next EXCEPT !.avail = TRUE],
             ip |-> With(bits, <<c, "RX">>, set),
             new |-> WasFull(ch) \cup IntIf(set # (<<c, "RX">> \in bits))]
    BY <1>3 DEF Refilled
  <2>2. /\ r.ip \in SUBSET (Channels \X Sources)
        /\ \A b \in Channels \X Sources : b # <<c, "RX">> => (b \in r.ip <=> b \in bits)
        /\ <<c, "RX">> \in r.ip <=> set
    BY <1>1, <2>1 DEF With
  <2>3. r.new \in SUBSET {"READ", "INT"} /\ (r.ip = bits \/ "INT" \in r.new)
    BY <1>1, <2>1, <2>2 DEF WasFull, IntIf, With
  <2>4. CASE ch.rx = <<>>
    <3>1. r.chan = [ch EXCEPT !.avail = FALSE]
      BY <2>1, <2>4
    <3>2. ~set
      BY <2>4
    <3>3. r.chan \in Channel /\ r.chan.rx = <<>>
      BY <2>4, <3>1 DEF Channel
    <3>4. /\ r.chan.wr1 = ch.wr1 /\ r.chan.wr15 = ch.wr15 /\ r.chan.tx = ch.tx
          /\ r.chan.latched = ch.latched /\ r.chan.diff = ch.diff /\ r.chan.raw = ch.raw
      BY <3>1 DEF Channel
    <3>5. <<c, "RX">> \notin bits \/ ch.avail
      OBVIOUS
    <3>6. ~ch.avail => bits \subseteq r.ip
      BY <2>2, <3>5
    <3> HIDE DEF set, next, errors
    <3>7. QED
      BY <2>2, <2>3, <2>4, <3>2, <3>3, <3>4, <3>6
  <2>5. CASE ch.rx # <<>>
    <3>1. r.chan = [next EXCEPT !.avail = TRUE]
      BY <2>1, <2>5
    <3>2. /\ Tail(ch.rx) \in Seq(Characters) /\ Len(Tail(ch.rx)) = Len(ch.rx) - 1
          /\ Head(ch.rx) \in Characters /\ Len(ch.rx) \in Nat
      BY <2>5, TailShorter DEF Channel
    <3>3. errors \in SUBSET Errors
      BY <3>2 DEF Channel, Characters
    <3>4. r.chan \in Channel /\ r.chan.rx = Tail(ch.rx) /\ r.chan.avail
      BY <3>1, <3>2, <3>3 DEF Channel
    <3>5. /\ r.chan.wr1 = ch.wr1 /\ r.chan.wr15 = ch.wr15 /\ r.chan.tx = ch.tx
          /\ r.chan.latched = ch.latched /\ r.chan.diff = ch.diff /\ r.chan.raw = ch.raw
      BY <3>1 DEF Channel
    <3>6. ~ch.avail => bits \subseteq r.ip
      BY <2>2
    <3> HIDE DEF set, next, errors
    <3>7. QED
      BY <2>2, <2>3, <2>5, <3>2, <3>4, <3>5, <3>6
  <2>6. QED
    BY <2>4, <2>5
<1>4. QED
  BY <1>2, <1>3

(* What an update of the latch leaves.                                     *)
LEMMA UpdatedIs ==
  ASSUME NEW c \in Channels, NEW ch \in Channel, NEW bits \in SUBSET (Channels \X Sources)
  PROVE  LET u == Updated(c, ch, bits)
         IN  /\ u.chan \in Channel /\ u.ip \in SUBSET (Channels \X Sources)
             /\ u.new \in SUBSET {"INT"}
             /\ u.chan.wr1 = ch.wr1 /\ u.chan.wr15 = ch.wr15 /\ u.chan.tx = ch.tx
             /\ u.chan.rx = ch.rx /\ u.chan.avail = ch.avail
             /\ bits \subseteq u.ip /\ u.ip \subseteq bits \cup {<<c, "STATUS">>}
             /\ u.ip = bits \/ "INT" \in u.new
             /\ u.chan.raw = ch.raw /\ (DiffKept(ch) => DiffKept(u.chan))
<1> DEFINE u == Updated(c, ch, bits)
<1>1. <<c, "STATUS">> \in Channels \X Sources
  BY DEF Sources
<1>2. CASE <<c, "STATUS">> \in bits
  <2>1. u = [chan |-> ch, ip |-> bits, new |-> {}]
    BY <1>2 DEF Updated
  <2>2. QED
    BY <2>1
<1>3. CASE <<c, "STATUS">> \notin bits
  <2> DEFINE need == ch.wr1.status /\ ch.wr15 \cap ch.diff # {}
             shown == Shown(ch)
  <2>1. u = [chan |-> [ch EXCEPT !.latched = (@ \ ch.diff) \cup (shown \cap ch.diff),
                                 !.diff = (shown \ ch.raw) \cup (ch.raw \ shown)],
             ip |-> With(bits, <<c, "STATUS">>, need), new |-> IntIf(need)]
    BY <1>3 DEF Updated
  <2>2. shown \in SUBSET Status
    BY DEF Shown, Channel, Status
  <2>3. /\ u.chan \in Channel /\ u.chan.wr1 = ch.wr1 /\ u.chan.wr15 = ch.wr15
        /\ u.chan.tx = ch.tx /\ u.chan.rx = ch.rx /\ u.chan.avail = ch.avail
        /\ u.chan.raw = ch.raw /\ (DiffKept(ch) => DiffKept(u.chan))
    <3> DEFINE latched == (ch.latched \ ch.diff) \cup (shown \cap ch.diff)
               diff == (shown \ ch.raw) \cup (ch.raw \ shown)
               new == [ch EXCEPT !.latched = latched, !.diff = diff]
    <3>1. u.chan = new
      BY <2>1
    <3>2. latched \in SUBSET Status /\ diff \in SUBSET Status
      BY <2>2 DEF Channel
    <3>3. ("BREAK" \in latched \ ch.raw /\ DiffKept(ch)) => "BREAK" \in diff
      BY DEF DiffKept
    <3> HIDE DEF u, latched, diff, shown
    <3>4. /\ new \in Channel /\ new.wr1 = ch.wr1 /\ new.wr15 = ch.wr15
          /\ new.tx = ch.tx /\ new.rx = ch.rx /\ new.avail = ch.avail
          /\ new.raw = ch.raw /\ new.latched = latched /\ new.diff = diff
      BY <3>2 DEF Channel
    <3>5. DiffKept(ch) => DiffKept(new)
      BY <3>3, <3>4 DEF DiffKept
    <3>6. QED
      BY <3>1, <3>4, <3>5
  <2>4. /\ u.ip = IF need THEN bits \cup {<<c, "STATUS">>} ELSE bits
        /\ u.new = IF need THEN {"INT"} ELSE {}
    BY <1>3, <2>1 DEF With, IntIf
  <2>5. QED
    BY <1>1, <2>3, <2>4
<1>4. QED
  BY <1>2, <1>3

(* A break that is due after an update has its interrupt pending and       *)
(* differs from what is latched.                                           *)
LEMMA BreakWaits ==
  ASSUME NEW c \in Channels, NEW ch \in Channel, NEW bits \in SUBSET (Channels \X Sources),
         ch.latched = chan[c].latched, NEW came,
         c \in unseen => "BREAK" \in ch.diff,
         (c \in unseen /\ <<c, "STATUS">> \notin bits /\ "BREAK" \in ch.latched)
             => "BREAK" \in ch.raw,
         came => "BREAK" \in ch.raw /\ "BREAK" \in ch.diff,
         c \in StillUnseen(c, Updated(c, ch, bits).chan, came)
  PROVE  <<c, "STATUS">> \in Updated(c, ch, bits).ip /\ Due(Updated(c, ch, bits).chan)
<1> DEFINE u == Updated(c, ch, bits)
<1>1. /\ u.chan.wr1 = ch.wr1 /\ u.chan.wr15 = ch.wr15 /\ u.chan.raw = ch.raw
      /\ bits \subseteq u.ip
  BY UpdatedIs
<1>2. /\ ch.wr1.status /\ "BREAK" \in ch.wr15 /\ "BREAK" \in ch.diff
      /\ "BREAK" \notin u.chan.latched \/ ("BREAK" \in ch.latched /\ "BREAK" \in ch.raw)
  BY <1>1 DEF StillUnseen
<1>3. CASE <<c, "STATUS">> \in bits
  <2>1. u.chan = ch
    BY <1>3 DEF Updated
  <2>2. QED
    BY <1>1, <1>2, <1>3, <2>1 DEF Due
<1>4. CASE <<c, "STATUS">> \notin bits
  <2> DEFINE need == ch.wr1.status /\ ch.wr15 \cap ch.diff # {}
             shown == Shown(ch)
             latched == (ch.latched \ ch.diff) \cup (shown \cap ch.diff)
             diff == (shown \ ch.raw) \cup (ch.raw \ shown)
  <2>1. u = [chan |-> [ch EXCEPT !.latched = latched, !.diff = diff],
             ip |-> With(bits, <<c, "STATUS">>, need), new |-> IntIf(need)]
    BY <1>4 DEF Updated
  <2>2. u.chan.latched = latched /\ u.chan.diff = diff
    <3> HIDE DEF shown, need
    <3>1. u.chan = [ch EXCEPT !.latched = latched, !.diff = diff]
      BY <2>1
    <3> HIDE DEF u, latched, diff
    <3>2. QED
      BY <3>1 DEF Channel
  <2>3. shown = IF ("BREAK" \in ch.raw) = ("BREAK" \in ch.latched)
                THEN (ch.raw \cup {"BREAK"}) \ (ch.raw \cap {"BREAK"}) ELSE ch.raw
    BY <1>2 DEF Shown
  <2>4. /\ "BREAK" \in latched <=> "BREAK" \in shown
        /\ "BREAK" \in diff <=> ("BREAK" \in shown <=> "BREAK" \notin ch.raw)
    BY <1>2
  <2>5. ("BREAK" \in ch.raw) = ("BREAK" \in ch.latched)
    <3> SUFFICES ASSUME ("BREAK" \in ch.raw) # ("BREAK" \in ch.latched) PROVE FALSE
      OBVIOUS
    <3>1. shown = ch.raw
      BY <2>3
    <3>2. "BREAK" \notin ch.raw /\ "BREAK" \in ch.latched
      BY <1>2, <2>2, <2>4, <3>1
    <3>3. came \/ c \in unseen
      BY DEF StillUnseen
    <3>4. QED
      BY <1>4, <3>2, <3>3
  <2>6. "BREAK" \in shown <=> "BREAK" \notin ch.raw
    BY <2>3, <2>5
  <2> HIDE DEF shown, latched, diff
  <2>7. "BREAK" \in u.chan.diff /\ ("BREAK" \in u.chan.latched => "BREAK" \in ch.raw)
    BY <1>2, <2>2, <2>4, <2>5, <2>6
  <2>8. <<c, "STATUS">> \in u.ip
    BY <1>2, <2>1 DEF With
  <2>9. QED
    BY <1>1, <1>2, <2>7, <2>8 DEF Due
<1>5. QED
  BY <1>3, <1>4

-----------------------------------------------------------------------------
(* The inductive invariant, with any threads.                              *)

(* A call adds callouts and has the loop run.                              *)
LEMMA CallOutIs ==
  ASSUME ChipTypeOK, LoopShape, NEW c \in Channels, NEW new \in SUBSET Callouts,
         CallOut(c, new)
  PROVE  /\ callouts' \in [Channels -> SUBSET Callouts] /\ asserted' = asserted
         /\ callouts'[c] = callouts[c] \cup new
         /\ \A d \in Channels : d # c => callouts'[d] = callouts[d]
         /\ loop' \in LoopType /\ LoopShape'
         /\ loop.at # "idle" => loop' = loop
         /\ loop.at = "idle" => loop' = [loop EXCEPT !.at = "turn"]
<1>1. /\ callouts' = [callouts EXCEPT ![c] = @ \cup new] /\ asserted' = asserted
      /\ loop' = IF loop.at # "idle" THEN loop ELSE [Idle8530 EXCEPT !.at = "turn"]
  BY DEF CallOut, LoopRuns
<1>2. /\ callouts' \in [Channels -> SUBSET Callouts] /\ callouts'[c] = callouts[c] \cup new
      /\ \A d \in Channels : d # c => callouts'[d] = callouts[d]
  BY <1>1 DEF ChipTypeOK
<1>3. CASE loop.at = "idle"
  <2>1. loop' = [loop EXCEPT !.at = "turn"] /\ loop = Idle8530
    BY <1>1, <1>3 DEF LoopShape
  <2>2. loop' \in LoopType /\ LoopShape'
    BY <2>1 DEF ChipTypeOK, LoopType, LoopShape, Idle8530
  <2>3. QED
    BY <1>1, <1>2, <1>3, <2>1, <2>2
<1>4. CASE loop.at # "idle"
  <2>1. loop' = loop
    BY <1>1, <1>4
  <2>2. QED
    BY <1>1, <1>2, <1>4, <2>1 DEF ChipTypeOK, LoopShape
<1>5. QED
  BY <1>3, <1>4

(* What fits still does when there is less of it.                          *)
LEMMA LessFits ==
  ASSUME NEW a \in Nat, NEW b \in Nat, NEW n \in Nat, NEW room \in Nat, a <= b, b + n <= room
  PROVE  a + n <= room
OBVIOUS

(* A call on behalf of one channel, whose registers become ch.             *)
LEMMA ChannelCall ==
  ASSUME ChipIInv, NEW c \in Channels, NEW ch \in Channel,
         chan' = [chan EXCEPT ![c] = ch], Len(ch.rx) <= Len(chan[c].rx),
         NEW new \in SUBSET Callouts, CallOut(c, new),
         ip' \in SUBSET (Channels \X Sources), ius' \in SUBSET (Channels \X Sources),
         mie' \in BOOLEAN, line' \in [Channels -> EndOfLine],
         cleared' \in SUBSET Channels, unseen' \in SUBSET Channels,
         \A d \in Channels \ {c} :
             /\ <<d, "RX">> \in ip' => <<d, "RX">> \in ip
             /\ <<d, "STATUS">> \in ip => <<d, "STATUS">> \in ip'
             /\ d \in cleared => d \in cleared'
             /\ d \in unseen' => d \in unseen,
         <<c, "RX">> \in ip' => ch.avail,
         ch.rx # <<>> => ch.avail \/ c \in cleared',
         DiffKept(ch), c \in unseen' => <<c, "STATUS">> \in ip' /\ Due(ch)
  PROVE  ChipIInv'
<1>1. ChipTypeOK /\ LoopShape /\ AnswerFits /\ Received /\ BreaksLatched
  BY DEF ChipIInv
<1>2. chan \in [Channels -> Channel] /\ \A d \in Channels : Len(chan[d].rx) <= RxRoom
  BY <1>1 DEF ChipTypeOK
<1>3. /\ chan' \in [Channels -> Channel] /\ chan'[c] = ch
      /\ \A d \in Channels \ {c} : chan'[d] = chan[d]
  BY <1>2
<1>4. /\ callouts' \in [Channels -> SUBSET Callouts] /\ asserted' = asserted
      /\ loop' \in LoopType /\ LoopShape'
      /\ loop.at # "idle" => loop' = loop
      /\ loop.at = "idle" => loop' = [loop EXCEPT !.at = "turn"]
  BY <1>1, CallOutIs
<1>5. \A d \in Channels : chan'[d].rx \in Seq(Characters) /\ chan[d].rx \in Seq(Characters)
  BY <1>2, <1>3 DEF Channel
<1>6. \A d \in Channels : /\ Len(chan'[d].rx) <= Len(chan[d].rx)
                         /\ Len(chan'[d].rx) \in Nat /\ Len(chan[d].rx) \in Nat
  BY <1>3, <1>5
<1>7. ChipTypeOK'
  <2>1. \A d \in Channels : Len(chan'[d].rx) <= RxRoom
    BY <1>2, <1>6, ChipAssumption
  <2>2. QED
    BY <1>1, <1>3, <1>4, <2>1 DEF ChipTypeOK
<1>8. AnswerFits'
  <2> SUFFICES ASSUME loop'.at = "answered"
               PROVE  Len(chan'[loop'.chan].rx) + Len(loop'.got) <= RxRoom
    BY DEF AnswerFits
  <2>1. loop' = loop
    BY <1>1, <1>4 DEF ChipTypeOK, LoopType
  <2>2. loop.chan \in Channels /\ loop.got \in Seq(Characters)
    BY <1>1 DEF ChipTypeOK, LoopType
  <2>3. Len(chan[loop.chan].rx) + Len(loop.got) <= RxRoom
    BY <1>1, <2>1 DEF AnswerFits
  <2>4. QED
    <3>1. Len(loop.got) \in Nat
      BY <2>2
    <3>2. /\ Len(chan'[loop.chan].rx) <= Len(chan[loop.chan].rx)
          /\ Len(chan'[loop.chan].rx) \in Nat /\ Len(chan[loop.chan].rx) \in Nat
      BY <1>6, <2>2
    <3>3. RxRoom \in Nat
      BY ChipAssumption
    <3>4. Len(chan'[loop.chan].rx) + Len(loop.got) <= RxRoom
      BY <2>3, <3>1, <3>2, <3>3, LessFits, Zenon
    <3>5. QED
      BY <2>1, <3>4
<1>9. Received'
  BY <1>1, <1>3 DEF Received
<1>10. BreaksLatched'
  <2> SUFFICES ASSUME NEW d \in Channels
               PROVE  /\ DiffKept(chan'[d])
                      /\ d \in unseen' => <<d, "STATUS">> \in ip' /\ Due(chan'[d])
    BY DEF BreaksLatched, DiffKept, Due
  <2>1. CASE d = c
    BY <1>3, <2>1
  <2>2. CASE d # c
    BY <1>1, <1>3, <2>2 DEF BreaksLatched
  <2>3. QED
    BY <2>1, <2>2
<1>11. QED
  BY <1>4, <1>7, <1>8, <1>9, <1>10 DEF ChipIInv

(* One that leaves the registers of the channel alone.                     *)
LEMMA SameChannelCall ==
  ASSUME ChipIInv, NEW c \in Channels, chan' = chan,
         NEW new \in SUBSET Callouts, CallOut(c, new),
         ip' \in SUBSET (Channels \X Sources), ius' \in SUBSET (Channels \X Sources),
         mie' \in BOOLEAN, UNCHANGED lineVars,
         \A d \in Channels :
             /\ <<d, "RX">> \in ip' => <<d, "RX">> \in ip \/ chan[d].avail
             /\ <<d, "STATUS">> \in ip => <<d, "STATUS">> \in ip',
         \A d \in Channels \ {c} : <<d, "RX">> \in ip' => <<d, "RX">> \in ip
  PROVE  ChipIInv'
<1>1. ChipTypeOK /\ Received /\ BreaksLatched
  BY DEF ChipIInv
<1>2. /\ chan[c] \in Channel /\ chan' = [chan EXCEPT ![c] = chan[c]]
      /\ Len(chan[c].rx) <= Len(chan[c].rx)
  BY <1>1 DEF ChipTypeOK, Channel
<1>3. /\ line' \in [Channels -> EndOfLine] /\ cleared' = cleared /\ unseen' = unseen
      /\ cleared \in SUBSET Channels /\ unseen \in SUBSET Channels
  BY <1>1 DEF ChipTypeOK, lineVars
<1>4. /\ <<c, "RX">> \in ip' => chan[c].avail
      /\ chan[c].rx # <<>> => chan[c].avail \/ c \in cleared'
  BY <1>1, <1>3 DEF Received
<1>5. DiffKept(chan[c]) /\ (c \in unseen' => <<c, "STATUS">> \in ip' /\ Due(chan[c]))
  BY <1>1, <1>3 DEF BreaksLatched
<1>6. QED
  BY <1>2, <1>3, <1>4, <1>5, ChannelCall

(* What a channel asks for when its registers change.                      *)
LEMMA StillUnseenIs ==
  ASSUME ChipIInv, NEW c \in Channels, NEW ch, NEW came
  PROVE  /\ StillUnseen(c, ch, came) \in SUBSET Channels
         /\ \A d \in Channels \ {c} : d \in StillUnseen(c, ch, came) => d \in unseen
         /\ c \in StillUnseen(c, ch, came) =>
                /\ ch.wr1.status /\ "BREAK" \in ch.wr15
                /\ "BREAK" \in ch.latched => "BREAK" \in ch.raw
                /\ came \/ c \in unseen
BY DEF StillUnseen, ChipIInv, ChipTypeOK

-----------------------------------------------------------------------------
(* The CPU.                                                                *)

LEMMA ResetStatusKeeps ==
  ASSUME ChipIInv, NEW c \in Channels, ResetStatus(c)
  PROVE  ChipIInv'
<1> DEFINE bit == <<c, "STATUS">>
           u == Updated(c, chan[c], ip \ {bit})
<1>1. /\ chan' = [chan EXCEPT ![c] = u.chan] /\ ip' = u.ip
      /\ unseen' = StillUnseen(c, u.chan, FALSE)
      /\ CallOut(c, IntIf(bit \in ip) \cup u.new)
      /\ UNCHANGED <<ius, mie, line, cleared>>
  BY DEF ResetStatus
<1>2. /\ ChipTypeOK /\ Received /\ BreaksLatched /\ chan[c] \in Channel
      /\ ip \ {bit} \in SUBSET (Channels \X Sources)
  BY DEF ChipIInv, ChipTypeOK
<1>3. /\ u.chan \in Channel /\ u.ip \in SUBSET (Channels \X Sources)
      /\ u.new \in SUBSET {"INT"} /\ u.chan.rx = chan[c].rx /\ u.chan.avail = chan[c].avail
      /\ ip \ {bit} \subseteq u.ip /\ u.ip \subseteq (ip \ {bit}) \cup {bit}
      /\ DiffKept(chan[c]) => DiffKept(u.chan)
  <2> DEFINE bits == ip \ {bit}
  <2> HIDE DEF bits
  <2>1. bits \in SUBSET (Channels \X Sources)
    BY <1>2 DEF bits
  <2>2. LET v == Updated(c, chan[c], bits)
        IN  /\ v.chan \in Channel /\ v.ip \in SUBSET (Channels \X Sources)
            /\ v.new \in SUBSET {"INT"} /\ v.chan.rx = chan[c].rx
            /\ v.chan.avail = chan[c].avail
            /\ bits \subseteq v.ip /\ v.ip \subseteq bits \cup {bit}
            /\ DiffKept(chan[c]) => DiffKept(v.chan)
    BY <1>2, <2>1, UpdatedIs
  <2>3. QED
    BY <2>2, Zenon DEF bits
<1>4. DiffKept(u.chan) /\ (c \in unseen' => bit \in u.ip /\ Due(u.chan))
  <2>1. /\ DiffKept(chan[c])
        /\ c \in unseen => /\ "BREAK" \in chan[c].diff
                           /\ "BREAK" \in chan[c].latched => "BREAK" \in chan[c].raw
    BY <1>2 DEF BreaksLatched, Due
  <2>2. c \in StillUnseen(c, u.chan, FALSE) => bit \in u.ip /\ Due(u.chan)
    BY <1>2, <2>1, BreakWaits
  <2>3. QED
    BY <1>1, <1>3, <2>1, <2>2
<1>5. IntIf(bit \in ip) \cup u.new \in SUBSET Callouts
  BY <1>3 DEF IntIf, Callouts
<1>6. /\ Len(u.chan.rx) <= Len(chan[c].rx)
      /\ unseen' \in SUBSET Channels /\ \A d \in Channels \ {c} : d \in unseen' => d \in unseen
  <2>1. Len(chan[c].rx) \in Nat
    BY <1>2 DEF Channel
  <2>2. /\ unseen' \in SUBSET Channels
        /\ \A d \in Channels \ {c} : d \in unseen' => d \in unseen
    BY <1>1, StillUnseenIs, Zenon
  <2> HIDE DEF u
  <2>3. QED
    BY <1>3, <2>1, <2>2
<1> HIDE DEF u
<1>7. /\ ip' \in SUBSET (Channels \X Sources) /\ ius' \in SUBSET (Channels \X Sources)
      /\ mie' \in BOOLEAN /\ line' \in [Channels -> EndOfLine] /\ cleared' \in SUBSET Channels
  BY <1>1, <1>2, <1>3 DEF ChipTypeOK
<1>8. /\ \A d \in Channels \ {c} :
             /\ <<d, "RX">> \in ip' => <<d, "RX">> \in ip
             /\ <<d, "STATUS">> \in ip => <<d, "STATUS">> \in ip'
             /\ d \in cleared => d \in cleared'
      /\ <<c, "RX">> \in ip' => u.chan.avail
      /\ u.chan.rx # <<>> => u.chan.avail \/ c \in cleared'
  BY <1>1, <1>2, <1>3 DEF Received
<1>9. QED
  BY <1>1, <1>3, <1>4, <1>5, <1>6, <1>7, <1>8, ChannelCall

(* A refill on behalf of the CPU.                                          *)
LEMMA RefillKeeps ==
  ASSUME ChipIInv, NEW c \in Channels, NEW errors \in SUBSET Errors,
         Refill(c, [chan[c] EXCEPT !.errors = errors]), UNCHANGED <<ius, mie, line, unseen>>
  PROVE  ChipIInv'
<1> DEFINE ch == [chan[c] EXCEPT !.errors = errors]
           r == Refilled(c, ch, ip)
<1>1. /\ chan' = [chan EXCEPT ![c] = r.chan] /\ ip' = r.ip /\ CallOut(c, r.new)
      /\ cleared' = IF r.chan.avail \/ r.chan.rx = <<>> THEN cleared \ {c} ELSE cleared
  BY DEF Refill
<1>2. /\ ChipTypeOK /\ Received /\ BreaksLatched /\ chan[c] \in Channel
      /\ ip \in SUBSET (Channels \X Sources)
  BY DEF ChipIInv, ChipTypeOK
<1>3. /\ ch \in Channel /\ ch.avail = chan[c].avail /\ ch.rx = chan[c].rx
      /\ ch.wr1 = chan[c].wr1 /\ ch.wr15 = chan[c].wr15
      /\ ch.latched = chan[c].latched /\ ch.diff = chan[c].diff /\ ch.raw = chan[c].raw
  BY <1>2 DEF Channel
<1>4. <<c, "RX">> \in ip => ch.avail
  BY <1>2, <1>3 DEF Received
<1> HIDE DEF ch
<1>5. /\ r.chan \in Channel /\ r.ip \in SUBSET (Channels \X Sources)
      /\ r.new \in SUBSET {"READ", "INT"} /\ Len(r.chan.rx) <= Len(ch.rx)
      /\ r.chan.wr1 = ch.wr1 /\ r.chan.wr15 = ch.wr15
      /\ r.chan.latched = ch.latched /\ r.chan.diff = ch.diff /\ r.chan.raw = ch.raw
      /\ \A b \in Channels \X Sources : b # <<c, "RX">> => (b \in r.ip <=> b \in ip)
      /\ <<c, "RX">> \in r.ip => r.chan.avail
      /\ r.chan.avail \/ r.chan.rx = <<>>
  BY <1>2, <1>3, <1>4, RefilledIs
<1> HIDE DEF r
<1>6. /\ r.new \in SUBSET Callouts
      /\ ip' \in SUBSET (Channels \X Sources) /\ ius' \in SUBSET (Channels \X Sources)
      /\ mie' \in BOOLEAN /\ line' \in [Channels -> EndOfLine]
      /\ cleared' \in SUBSET Channels /\ unseen' \in SUBSET Channels
  BY <1>1, <1>2, <1>5 DEF ChipTypeOK, Callouts
<1>7. /\ \A d \in Channels \ {c} :
             /\ <<d, "RX">> \in ip' => <<d, "RX">> \in ip
             /\ <<d, "STATUS">> \in ip => <<d, "STATUS">> \in ip'
             /\ d \in cleared => d \in cleared'
             /\ d \in unseen' => d \in unseen
      /\ <<c, "RX">> \in ip' => r.chan.avail
      /\ r.chan.rx # <<>> => r.chan.avail \/ c \in cleared'
  BY <1>1, <1>5 DEF Sources
<1>8. DiffKept(r.chan) /\ (c \in unseen' => <<c, "STATUS">> \in ip' /\ Due(r.chan))
  <2>1. <<c, "STATUS">> \in ip' <=> <<c, "STATUS">> \in ip
    BY <1>1, <1>5 DEF Sources
  <2>2. DiffKept(chan[c]) /\ (c \in unseen => <<c, "STATUS">> \in ip /\ Due(chan[c]))
    BY <1>2 DEF BreaksLatched
  <2>3. QED
    BY <1>3, <1>5, <2>1, <2>2 DEF DiffKept, Due
<1>9. QED
  BY <1>1, <1>3, <1>5, <1>6, <1>7, <1>8, ChannelCall

(* A change of the registers that the FIFO and the latch do not see.       *)
LEMMA RegisterKeeps ==
  ASSUME ChipIInv, NEW c \in Channels, NEW ch \in Channel,
         chan' = [chan EXCEPT ![c] = ch], NEW new \in SUBSET Callouts, CallOut(c, new),
         ch.rx = chan[c].rx, ch.avail = chan[c].avail,
         ch.latched = chan[c].latched, ch.diff = chan[c].diff, ch.raw = chan[c].raw,
         ip' = ip \/ ip' = ip \ {<<c, "TX">>} \/ ip' = ip \cup {<<c, "TX">>},
         line' \in [Channels -> EndOfLine], UNCHANGED <<ius, mie, cleared>>,
         \/ unseen' = StillUnseen(c, ch, FALSE)
         \/ unseen' = unseen /\ ch.wr1 = chan[c].wr1 /\ ch.wr15 = chan[c].wr15
  PROVE  ChipIInv'
<1>1. /\ ChipTypeOK /\ Received /\ BreaksLatched /\ chan[c] \in Channel
      /\ ip \in SUBSET (Channels \X Sources) /\ unseen \in SUBSET Channels
  BY DEF ChipIInv, ChipTypeOK
<1>2. /\ unseen' \in SUBSET Channels /\ \A d \in Channels \ {c} : d \in unseen' => d \in unseen
      /\ c \in unseen' => /\ c \in unseen /\ ch.wr1.status /\ "BREAK" \in ch.wr15
  BY <1>1, StillUnseenIs DEF BreaksLatched, Due
<1>3. <<c, "TX">> \in Channels \X Sources
  BY DEF Sources
<1>4. /\ ip' \in SUBSET (Channels \X Sources) /\ ius' \in SUBSET (Channels \X Sources)
      /\ mie' \in BOOLEAN /\ cleared' \in SUBSET Channels
  BY <1>1, <1>3 DEF ChipTypeOK
<1>5. \A d \in Channels : /\ <<d, "RX">> \in ip' <=> <<d, "RX">> \in ip
                          /\ <<d, "STATUS">> \in ip' <=> <<d, "STATUS">> \in ip
  OBVIOUS
<1>6. /\ Len(ch.rx) <= Len(chan[c].rx)
      /\ <<c, "RX">> \in ip' => ch.avail
      /\ ch.rx # <<>> => ch.avail \/ c \in cleared'
      /\ DiffKept(ch) /\ (c \in unseen' => <<c, "STATUS">> \in ip' /\ Due(ch))
  <2>1. Len(chan[c].rx) \in Nat
    BY <1>1 DEF Channel
  <2>2. DiffKept(ch) /\ (c \in unseen' => <<c, "STATUS">> \in ip' /\ Due(ch))
    BY <1>1, <1>2, <1>5 DEF BreaksLatched, DiffKept, Due
  <2>3. QED
    BY <1>1, <1>5, <2>1, <2>2 DEF Received
<1>7. QED
  BY <1>2, <1>4, <1>5, <1>6, ChannelCall

LEMMA WritesKeep ==
  ASSUME ChipIInv, NEW c \in Channels,
         \/ \E v \in Wr1[c] : WriteWr1(c, v)
         \/ \E v \in Wr15 : WriteWr15(c, v)
         \/ WriteWr8(c)
  PROVE  ChipIInv'
<1>1. /\ ChipTypeOK /\ chan[c] \in Channel /\ line \in [Channels -> EndOfLine]
      /\ TxRoom \in Nat
  BY ChipAssumption DEF ChipIInv, ChipTypeOK
<1>2. ASSUME NEW v \in Wr1[c], WriteWr1(c, v) PROVE ChipIInv'
  <2> DEFINE ch == [chan[c] EXCEPT !.wr1 = v]
             new == IntIf(~v.tx /\ <<c, "TX">> \in ip)
  <2>1. /\ ch \in Channel /\ ch.rx = chan[c].rx /\ ch.avail = chan[c].avail
        /\ ch.latched = chan[c].latched /\ ch.diff = chan[c].diff /\ ch.raw = chan[c].raw
    BY <1>1, ChipAssumption DEF Channel
  <2>2. /\ chan' = [chan EXCEPT ![c] = ch] /\ chan'[c] = ch
        /\ ip' = ip \/ ip' = ip \ {<<c, "TX">>}
        /\ unseen' = StillUnseen(c, chan'[c], FALSE) /\ CallOut(c, new)
        /\ UNCHANGED <<ius, mie, line, cleared>>
    BY <1>1, <1>2 DEF WriteWr1, ChipTypeOK
  <2>3. new \in SUBSET Callouts /\ line' \in [Channels -> EndOfLine]
    BY <1>1, <2>2 DEF IntIf, Callouts
  <2> HIDE DEF ch, new
  <2>4. QED
    BY <2>1, <2>2, <2>3, RegisterKeeps
<1>3. ASSUME NEW v \in Wr15, WriteWr15(c, v) PROVE ChipIInv'
  <2> DEFINE ch == [chan[c] EXCEPT !.wr15 = v]
  <2>1. /\ ch \in Channel /\ ch.rx = chan[c].rx /\ ch.avail = chan[c].avail
        /\ ch.latched = chan[c].latched /\ ch.diff = chan[c].diff /\ ch.raw = chan[c].raw
    BY <1>1, ChipAssumption DEF Channel
  <2>2. /\ chan' = [chan EXCEPT ![c] = ch] /\ chan'[c] = ch /\ ip' = ip
        /\ unseen' = StillUnseen(c, chan'[c], FALSE) /\ CallOut(c, {})
        /\ UNCHANGED <<ius, mie, line, cleared>>
    BY <1>1, <1>3 DEF WriteWr15, ChipTypeOK, shared
  <2>3. {} \in SUBSET Callouts /\ line' \in [Channels -> EndOfLine]
    BY <1>1, <2>2
  <2> HIDE DEF ch
  <2>4. QED
    BY <2>1, <2>2, <2>3, RegisterKeeps
<1>4. CASE WriteWr8(c)
  <2> DEFINE ch == [chan[c] EXCEPT !.tx = IF @ < TxRoom THEN @ + 1 ELSE @]
             new == IF chan[c].tx = 0 THEN IntIf(<<c, "TX">> \in ip) \cup {"CTRL"} ELSE {}
  <2>1. /\ ch \in Channel /\ ch.rx = chan[c].rx /\ ch.avail = chan[c].avail
        /\ ch.latched = chan[c].latched /\ ch.diff = chan[c].diff /\ ch.raw = chan[c].raw
        /\ ch.wr1 = chan[c].wr1 /\ ch.wr15 = chan[c].wr15
    BY <1>1 DEF Channel
  <2>2. /\ chan' = [chan EXCEPT ![c] = ch] /\ CallOut(c, new)
        /\ ip' = ip \/ ip' = ip \ {<<c, "TX">>}
        /\ UNCHANGED <<ius, mie, line, unseen, cleared>>
    BY <1>1, <1>4 DEF WriteWr8, ChipTypeOK, lineVars
  <2>3. new \in SUBSET Callouts /\ line' \in [Channels -> EndOfLine]
    BY <1>1, <2>2 DEF IntIf, Callouts
  <2> HIDE DEF ch, new
  <2>4. QED
    BY <2>1, <2>2, <2>3, RegisterKeeps
<1>5. QED
  BY <1>2, <1>3, <1>4

(* A reset clears all that is pending.                                     *)
LEMMA WriteWr9Keeps ==
  ASSUME ChipIInv, NEW c \in Channels, NEW resets \in SUBSET Channels, NEW enable \in BOOLEAN,
         WriteWr9(c, resets, enable)
  PROVE  ChipIInv'
<1>1. /\ ChipTypeOK /\ LoopShape /\ AnswerFits /\ Received /\ BreaksLatched
      /\ chan \in [Channels -> Channel] /\ \A d \in Channels : Len(chan[d].rx) <= RxRoom
  BY DEF ChipIInv, ChipTypeOK
<1>2. /\ chan' = [d \in Channels |-> IF d \in resets THEN Reset(chan[d]) ELSE chan[d]]
      /\ ip' = IF resets = {} THEN ip ELSE {}
      /\ ius' = IF resets = Channels THEN {} ELSE ius
      /\ mie' = enable /\ unseen' = IF resets = {} THEN unseen ELSE {}
      /\ cleared' = cleared \cup {d \in resets : chan[d].rx # <<>>}
      /\ CallOut(c, {"INT"}) /\ line' = line
  BY DEF WriteWr9
<1>3. \A d \in Channels : /\ Reset(chan[d]) \in Channel /\ Reset(chan[d]).rx = chan[d].rx
                          /\ Reset(chan[d]).latched = {}
  <2> TAKE d \in Channels
  <2> DEFINE none == [tx |-> FALSE, rx |-> "DISABLE", status |-> FALSE, parity |-> FALSE]
             ch == [chan[d] EXCEPT !.wr1 = none, !.wr15 = Status, !.avail = FALSE, !.errors = {},
                                   !.latched = {}, !.raw = {}, !.diff = {}]
  <2>1. none \in Wr1Values /\ chan[d] \in Channel
    BY <1>1 DEF Wr1Values
  <2>2. Reset(chan[d]) = ch
    BY DEF Reset
  <2> HIDE DEF none
  <2>3. ch \in Channel /\ ch.rx = chan[d].rx /\ ch.latched = {}
    BY <2>1 DEF Channel
  <2>4. QED
    BY <2>2, <2>3
<1>4. \A d \in Channels :
          /\ chan'[d] \in Channel /\ chan'[d].rx = chan[d].rx
          /\ IF d \in resets THEN chan'[d].latched = {} ELSE chan'[d] = chan[d]
  BY <1>1, <1>2, <1>3
<1>5. /\ callouts' \in [Channels -> SUBSET Callouts] /\ asserted' = asserted
      /\ loop' \in LoopType /\ LoopShape'
      /\ loop.at # "idle" => loop' = loop
      /\ loop.at = "idle" => loop' = [loop EXCEPT !.at = "turn"]
  <2>1. {"INT"} \in SUBSET Callouts
    BY DEF Callouts
  <2>2. QED
    BY <1>1, <1>2, <2>1, CallOutIs
<1>6. ChipTypeOK'
  <2>1. chan' \in [Channels -> Channel] /\ \A d \in Channels : Len(chan'[d].rx) <= RxRoom
    BY <1>1, <1>2, <1>4
  <2>2. cleared' \in SUBSET Channels
    BY <1>1, <1>2 DEF ChipTypeOK
  <2>3. QED
    BY <1>1, <1>2, <1>5, <2>1, <2>2 DEF ChipTypeOK
<1>7. AnswerFits'
  BY <1>1, <1>4, <1>5 DEF AnswerFits, ChipTypeOK, LoopType
<1>8. Received'
  BY <1>1, <1>2, <1>4 DEF Received
<1>9. BreaksLatched'
  <2>1. CASE resets = {}
    BY <1>1, <1>2, <1>4, <2>1 DEF BreaksLatched, DiffKept, Due
  <2>2. CASE resets # {}
    BY <1>1, <1>2, <1>4, <2>2 DEF BreaksLatched, DiffKept
  <2>3. QED
    BY <2>1, <2>2
<1>10. QED
  BY <1>5, <1>6, <1>7, <1>8, <1>9 DEF ChipIInv

LEMMA CpuKeeps ==
  ASSUME ChipIInv, Cpu
  PROVE  ChipIInv'
<1>1. /\ ChipTypeOK /\ "A" \in Channels
      /\ ip \in SUBSET (Channels \X Sources) /\ ius \in SUBSET (Channels \X Sources)
      /\ mie \in BOOLEAN
  BY DEF ChipIInv, ChipTypeOK, Channels
<1>2. ASSUME NEW c \in Channels, ResetError(c) \/ ReadData(c) PROVE ChipIInv'
  <2>1. chan[c] = [chan[c] EXCEPT !.errors = chan[c].errors] /\ chan[c].errors \in SUBSET Errors
    BY <1>1 DEF ChipTypeOK, Channel
  <2>2. CASE ResetError(c)
    BY <2>2, RefillKeeps DEF ResetError
  <2>3. CASE ReadData(c)
    <3>1. /\ Refill(c, [chan[c] EXCEPT !.errors = chan[c].errors])
          /\ UNCHANGED <<ius, mie, line, unseen>>
      BY <2>1, <2>3 DEF ReadData
    <3>2. QED
      BY <2>1, <3>1, RefillKeeps
  <2>4. QED
    BY <1>2, <2>2, <2>3
<1>3. ASSUME NEW c \in Channels,
             ResetIus(c) \/ ResetTx(c) \/ IntNextRx(c) \/ WriteWr5(c) \/ WriteConfig(c)
      PROVE  ChipIInv'
  <2>1. /\ <<c, "RX">> \in Channels \X Sources
        /\ \A b \in BOOLEAN : IntIf(b) \in SUBSET Callouts
        /\ {"INT"} \in SUBSET Callouts /\ {"CONFIG"} \in SUBSET Callouts
        /\ {"CTRL", "CONFIG"} \in SUBSET Callouts
    BY DEF Callouts, IntIf, Sources
  <2>2. CASE ResetIus(c)
    <3>1. /\ chan' = chan /\ CallOut(c, {"INT"}) /\ ip' = ip /\ mie' = mie
          /\ UNCHANGED lineVars /\ ius' \in SUBSET (Channels \X Sources)
      BY <1>1, <2>2 DEF ResetIus
    <3>2. QED
      BY <1>1, <2>1, <3>1, SameChannelCall
  <2>3. CASE ResetTx(c)
    <3>1. /\ chan' = chan /\ CallOut(c, IntIf(<<c, "TX">> \in ip)) /\ ip' = ip \ {<<c, "TX">>}
          /\ ius' = ius /\ mie' = mie /\ UNCHANGED lineVars
      BY <2>3 DEF ResetTx
    <3>2. IntIf(<<c, "TX">> \in ip) \in SUBSET Callouts
      BY DEF Callouts, IntIf
    <3>3. QED
      BY <1>1, <3>1, <3>2, SameChannelCall
  <2>4. CASE IntNextRx(c)
    <3>1. /\ chan' = chan /\ CallOut(c, IntIf(chan[c].avail))
          /\ ip' = IF chan[c].avail THEN ip \cup {<<c, "RX">>} ELSE ip
          /\ ius' = ius /\ mie' = mie /\ UNCHANGED lineVars
      BY <2>4 DEF IntNextRx
    <3>2. IntIf(chan[c].avail) \in SUBSET Callouts
      BY DEF Callouts, IntIf
    <3>3. QED
      BY <1>1, <2>1, <3>1, <3>2, SameChannelCall
  <2>5. CASE WriteWr5(c) \/ WriteConfig(c)
    <3>1. /\ chan' = chan /\ (CallOut(c, {"CTRL", "CONFIG"}) \/ CallOut(c, {"CONFIG"}))
          /\ ip' = ip /\ ius' = ius /\ mie' = mie /\ UNCHANGED lineVars
      BY <2>5 DEF WriteWr5, WriteConfig, shared
    <3>2. QED
      BY <1>1, <2>1, <3>1, SameChannelCall
  <2>6. QED
    BY <1>3, <2>2, <2>3, <2>4, <2>5
<1>4. CASE IntAck
  <2>1. /\ chan' = chan /\ CallOut("A", {"INT"}) /\ ip' = ip /\ mie' = mie
        /\ UNCHANGED lineVars /\ ius' = ius \cup Pending
    BY <1>4 DEF IntAck
  <2>2. Pending \subseteq ip
    BY DEF Pending, Highest
  <2>3. ius' \in SUBSET (Channels \X Sources) /\ {"INT"} \in SUBSET Callouts
    BY <1>1, <2>1, <2>2 DEF Callouts
  <2>4. QED
    BY <1>1, <2>1, <2>3, SameChannelCall
<1>5. ASSUME NEW c \in Channels, NEW resets \in {{}, {c}, Channels}, NEW enable \in BOOLEAN,
             WriteWr9(c, resets, enable)
      PROVE  ChipIInv'
  <2>1. resets \in SUBSET Channels
    OBVIOUS
  <2>2. QED
    BY <1>5, <2>1, WriteWr9Keeps
<1>6. QED
  BY <1>2, <1>3, <1>4, <1>5, ResetStatusKeeps, WritesKeep DEF Cpu

-----------------------------------------------------------------------------
(* The lines.                                                              *)

LEMMA CtrlInKeeps ==
  ASSUME ChipIInv, NEW c \in Channels, NEW bits \in SUBSET Status, NEW readable \in BOOLEAN,
         CtrlIn(c, bits, readable), UNCHANGED <<ius, mie, cleared>>,
         line' \in [Channels -> EndOfLine]
  PROVE  ChipIInv'
<1> DEFINE changed == ((chan[c].latched \ bits) \cup (bits \ chan[c].latched))
                          \cup (chan[c].diff \cap {"BREAK"})
           ch == [chan[c] EXCEPT !.raw = bits, !.diff = changed]
           u == Updated(c, ch, ip)
           came == "BREAK" \in bits \ chan[c].raw
           new == u.new \cup IF readable THEN {"READ"} ELSE {}
<1>1. /\ chan' = [chan EXCEPT ![c] = u.chan] /\ ip' = u.ip
      /\ unseen' = StillUnseen(c, u.chan, came) /\ CallOut(c, new)
  BY DEF CtrlIn
<1>2. /\ ChipTypeOK /\ Received /\ BreaksLatched /\ chan[c] \in Channel
      /\ ip \in SUBSET (Channels \X Sources)
  BY DEF ChipIInv, ChipTypeOK
<1>3. changed \in SUBSET Status
  BY <1>2 DEF Channel
<1>4. /\ "BREAK" \in chan[c].diff => "BREAK" \in changed
      /\ came => "BREAK" \in bits /\ "BREAK" \in changed
      /\ "BREAK" \in chan[c].latched \ bits => "BREAK" \in changed
  <2>1. DiffKept(chan[c])
    BY <1>2 DEF BreaksLatched
  <2>2. QED
    BY <2>1 DEF DiffKept
<1> HIDE DEF changed, came
<1>5. /\ ch \in Channel /\ ch.rx = chan[c].rx /\ ch.avail = chan[c].avail /\ ch.raw = bits
      /\ ch.diff = changed /\ ch.latched = chan[c].latched
  BY <1>2, <1>3 DEF Channel
<1> HIDE DEF ch
<1>6. /\ u.chan \in Channel /\ u.ip \in SUBSET (Channels \X Sources)
      /\ u.new \in SUBSET {"INT"} /\ u.chan.rx = ch.rx /\ u.chan.avail = ch.avail
      /\ ip \subseteq u.ip /\ u.ip \subseteq ip \cup {<<c, "STATUS">>}
      /\ DiffKept(ch) => DiffKept(u.chan)
  BY <1>2, <1>5, UpdatedIs
<1>7. DiffKept(u.chan) /\ (c \in unseen' => <<c, "STATUS">> \in ip' /\ Due(u.chan))
  <2>1. c \in unseen => "BREAK" \in ch.diff /\ <<c, "STATUS">> \in ip
    BY <1>2, <1>4, <1>5 DEF BreaksLatched, Due
  <2>2. came => "BREAK" \in ch.raw /\ "BREAK" \in ch.diff
    BY <1>4, <1>5
  <2>3. DiffKept(ch)
    BY <1>4, <1>5 DEF DiffKept
  <2>4. c \in StillUnseen(c, u.chan, came) => <<c, "STATUS">> \in u.ip /\ Due(u.chan)
    BY <1>2, <1>5, <2>1, <2>2, BreakWaits
  <2>5. QED
    BY <1>1, <1>6, <2>3, <2>4
<1>8. /\ unseen' \in SUBSET Channels
      /\ \A d \in Channels \ {c} : d \in unseen' => d \in unseen
  BY <1>1, StillUnseenIs, Zenon
<1> HIDE DEF u
<1>9. new \in SUBSET Callouts /\ Len(u.chan.rx) <= Len(chan[c].rx)
  <2>1. Len(chan[c].rx) \in Nat
    BY <1>2 DEF Channel
  <2>2. QED
    BY <1>5, <1>6, <2>1 DEF Callouts
<1>10. /\ ip' \in SUBSET (Channels \X Sources) /\ ius' \in SUBSET (Channels \X Sources)
       /\ mie' \in BOOLEAN /\ cleared' \in SUBSET Channels
  BY <1>1, <1>2, <1>6 DEF ChipTypeOK
<1>11. /\ \A d \in Channels \ {c} :
              /\ <<d, "RX">> \in ip' => <<d, "RX">> \in ip
              /\ <<d, "STATUS">> \in ip => <<d, "STATUS">> \in ip'
              /\ d \in cleared => d \in cleared'
       /\ <<c, "RX">> \in ip' => u.chan.avail
       /\ u.chan.rx # <<>> => u.chan.avail \/ c \in cleared'
  BY <1>1, <1>2, <1>5, <1>6 DEF Received
<1> HIDE DEF new
<1>12. QED
  BY <1>1, <1>6, <1>7, <1>8, <1>9, <1>10, <1>11, ChannelCall

(* What an arriving character does to the line.                            *)
LEMMA LineReceivesIs ==
  ASSUME ChipTypeOK, NEW c \in Channels, NEW char \in Characters, LineReceives(c, char)
  PROVE  /\ line' \in [Channels -> EndOfLine]
         /\ \A d \in Channels \ {c} : line'[d] = line[d]
         /\ line'[c].told /\ line'[c].offered = line[c].offered
<1>1. line \in [Channels -> EndOfLine] /\ line[c] \in EndOfLine
  BY DEF ChipTypeOK
<1> DEFINE new == [line[c] EXCEPT !.data = Append(@, char), !.told = TRUE]
<1>2. line' = [line EXCEPT ![c] = new]
  BY <1>1 DEF LineReceives
<1>3. Append(line[c].data, char) \in Seq(Characters)
  BY <1>1 DEF EndOfLine
<1>4. new \in EndOfLine /\ new.told /\ new.offered = line[c].offered
  BY <1>1, <1>3 DEF EndOfLine
<1> HIDE DEF new
<1>5. QED
  BY <1>1, <1>2, <1>4

(* What a read by the line does.                                           *)
LEMMA ReadInIs ==
  ASSUME ChipTypeOK, NEW c \in Channels, NEW n \in 1 .. TxRoom, ReadIn(c, n)
  PROVE  \E ch \in Channel, new \in SUBSET Callouts :
             /\ chan' = [chan EXCEPT ![c] = ch] /\ CallOut(c, new)
             /\ ch.rx = chan[c].rx /\ ch.avail = chan[c].avail
             /\ ch.latched = chan[c].latched /\ ch.diff = chan[c].diff
             /\ ch.raw = chan[c].raw
             /\ ch.wr1 = chan[c].wr1 /\ ch.wr15 = chan[c].wr15
             /\ ip' = ip \/ (ip' = ip \cup {<<c, "TX">>} /\ "INT" \in new)
             /\ line' \in [Channels -> EndOfLine]
             /\ \A d \in Channels \ {c} : line'[d] = line[d]
             /\ line'[c].told = line[c].told
             /\ ch.tx <= chan[c].tx
             /\ "CTRL" \in new \/ line'[c].offered
             /\ UNCHANGED <<ius, mie, unseen, cleared>>
<1> DEFINE left == IF chan[c].tx > n THEN chan[c].tx - n ELSE 0
           bit == <<c, "TX">>
           set == left = 0 /\ chan[c].wr1.tx
           ch == [chan[c] EXCEPT !.tx = left]
           some == chan[c].tx > 0
           end == [line[c] EXCEPT !.offered = some]
           new == IntIf(set /\ bit \notin ip) \cup IF left = 0 THEN {"CTRL"} ELSE {}
<1>1. /\ line \in [Channels -> EndOfLine] /\ line[c] \in EndOfLine
      /\ chan \in [Channels -> Channel] /\ chan[c] \in Channel /\ TxRoom \in Nat
  BY ChipAssumption DEF ChipTypeOK
<1>2. /\ chan[c].tx \in 0 .. TxRoom /\ left \in 0 .. TxRoom /\ left <= chan[c].tx
      /\ left = 0 \/ chan[c].tx > 0
  BY <1>1 DEF Channel
<1>3. /\ chan' = [chan EXCEPT ![c] = ch] /\ line' = [line EXCEPT ![c] = end]
      /\ ip' = IF set THEN ip \cup {bit} ELSE ip
      /\ CallOut(c, new) /\ UNCHANGED <<ius, mie, unseen, cleared>>
  BY <1>1 DEF ReadIn
<1>4. end \in EndOfLine /\ end.told = line[c].told /\ end.offered = some
  <2>1. some \in BOOLEAN
    OBVIOUS
  <2> HIDE DEF some
  <2>2. QED
    BY <1>1, <2>1 DEF EndOfLine
<1>5. /\ new \in SUBSET Callouts
      /\ ip' = ip \/ (ip' = ip \cup {bit} /\ "INT" \in new)
      /\ "CTRL" \in new \/ end.offered
  BY <1>2, <1>3, <1>4 DEF Callouts, IntIf
<1> HIDE DEF left, set, end, new
<1>6. /\ ch \in Channel /\ ch.rx = chan[c].rx /\ ch.avail = chan[c].avail
      /\ ch.latched = chan[c].latched /\ ch.diff = chan[c].diff /\ ch.raw = chan[c].raw
      /\ ch.wr1 = chan[c].wr1 /\ ch.wr15 = chan[c].wr15 /\ ch.tx <= chan[c].tx
  BY <1>1, <1>2 DEF Channel
<1> HIDE DEF ch
<1>7. /\ line' \in [Channels -> EndOfLine] /\ line'[c] = end
      /\ \A d \in Channels \ {c} : line'[d] = line[d]
  BY <1>1, <1>3, <1>4
<1>8. ch \in Channel /\ new \in SUBSET Callouts
  BY <1>5, <1>6
<1> USE <1>8
<1> WITNESS ch \in Channel, new \in SUBSET Callouts
<1>9. QED
  BY <1>3, <1>4, <1>5, <1>6, <1>7

LEMMA LinesKeep ==
  ASSUME ChipIInv, Lines
  PROVE  ChipIInv'
<1>1. /\ ChipTypeOK /\ chan \in [Channels -> Channel] /\ line \in [Channels -> EndOfLine]
  BY DEF ChipIInv, ChipTypeOK
<1>2. ASSUME NEW c \in Channels, NEW bits \in SUBSET Status, LineChanges(c, bits)
      PROVE  ChipIInv'
  BY <1>1, <1>2, CtrlInKeeps DEF LineChanges
<1>3. ASSUME NEW c \in Channels, NEW char \in Characters, LineReceives(c, char)
      PROVE  ChipIInv'
  <2>1. line' \in [Channels -> EndOfLine] /\ UNCHANGED <<ius, mie, cleared>>
    BY <1>1, <1>3, LineReceivesIs DEF LineReceives
  <2>2. CASE line[c].told
    <3>1. UNCHANGED <<chan, callouts, ip, asserted, loop, unseen>>
      BY <1>3, <2>2 DEF LineReceives
    <3>2. QED
      BY <2>1, <3>1 DEF ChipIInv, ChipTypeOK, LoopShape, AnswerFits, Received,
                        BreaksLatched, DiffKept, Due
  <2>3. CASE ~line[c].told
    <3>1. CtrlIn(c, chan[c].raw, TRUE) /\ chan[c].raw \in SUBSET Status
      BY <1>1, <1>3, <2>3 DEF LineReceives, Channel
    <3>2. QED
      BY <2>1, <3>1, CtrlInKeeps
  <2>4. QED
    BY <2>2, <2>3
<1>4. ASSUME NEW c \in Channels, NEW n \in 1 .. TxRoom, ReadIn(c, n) PROVE ChipIInv'
  <2>1. PICK ch \in Channel, new \in SUBSET Callouts :
          /\ chan' = [chan EXCEPT ![c] = ch] /\ CallOut(c, new)
          /\ ch.rx = chan[c].rx /\ ch.avail = chan[c].avail
          /\ ch.latched = chan[c].latched /\ ch.diff = chan[c].diff /\ ch.raw = chan[c].raw
          /\ ch.wr1 = chan[c].wr1 /\ ch.wr15 = chan[c].wr15
          /\ ip' = ip \/ ip' = ip \cup {<<c, "TX">>}
          /\ line' \in [Channels -> EndOfLine] /\ UNCHANGED <<ius, mie, unseen, cleared>>
    BY <1>1, <1>4, ReadInIs
  <2>2. QED
    BY <2>1, RegisterKeeps
<1>5. QED
  BY <1>2, <1>3, <1>4 DEF Lines

-----------------------------------------------------------------------------
(* The callout loop.                                                       *)

(* A step of the loop that leaves the registers alone.                     *)
LEMMA LoopKeeps ==
  ASSUME ChipIInv, UNCHANGED <<chan, shared, unseen, cleared>>, asserted' \in BOOLEAN,
         line' \in [Channels -> EndOfLine], callouts' \in [Channels -> SUBSET Callouts],
         loop' \in LoopType, LoopShape', AnswerFits'
  PROVE  ChipIInv'
BY DEF ChipIInv, ChipTypeOK, Received, BreaksLatched, DiffKept, Due, shared

(* One that does not even change the line, or the signal.                  *)
LEMMA QuietKeeps ==
  ASSUME ChipIInv, UNCHANGED <<chan, shared, asserted, lineVars>>,
         callouts' \in [Channels -> SUBSET Callouts],
         loop' \in LoopType, LoopShape', loop'.at # "answered"
  PROVE  ChipIInv'
<1>1. /\ asserted' \in BOOLEAN /\ line' \in [Channels -> EndOfLine]
      /\ UNCHANGED <<chan, shared, unseen, cleared>>
  BY DEF ChipIInv, ChipTypeOK, lineVars
<1>2. QED
  BY <1>1, LoopKeeps DEF AnswerFits

(* The shape of the loop within a turn.                                    *)
LEMMA ShapeKept ==
  ASSUME LoopShape, loop'.at \notin {"idle", "turn", "signal"}, loop'.later = loop.later
  PROVE  LoopShape'
BY DEF LoopShape

(* The turns of the loop and its calls.                                    *)
LEMMA TurnsKeep ==
  ASSUME ChipIInv,
         \/ \E c \in Channels : Turn(c)
         \/ CallCtrl \/ CtrlTaken \/ CallConfig \/ CallReturn \/ ReadLater \/ CallRead
  PROVE  ChipIInv'
<1>1. /\ ChipTypeOK /\ LoopShape /\ loop \in LoopType /\ asserted \in BOOLEAN
      /\ callouts \in [Channels -> SUBSET Callouts] /\ line \in [Channels -> EndOfLine]
      /\ loop.later \in [Channels -> SUBSET Callouts] /\ loop.chan \in Channels
      /\ loop.doing \in SUBSET Callouts
  BY DEF ChipIInv, ChipTypeOK, LoopType
<1>2. ASSUME NEW c \in Channels, Turn(c) PROVE ChipIInv'
  <2>1. /\ loop' = [loop EXCEPT !.at = "do", !.chan = c, !.doing = callouts[c]]
        /\ callouts' = [callouts EXCEPT ![c] = {}]
        /\ UNCHANGED <<chan, shared, asserted, lineVars>>
    BY <1>2 DEF Turn
  <2>2. /\ loop' \in LoopType /\ loop'.at = "do" /\ loop'.later = loop.later
        /\ callouts' \in [Channels -> SUBSET Callouts]
    BY <1>1, <2>1 DEF LoopType
  <2>3. QED
    BY <1>1, <2>1, <2>2, ShapeKept, QuietKeeps
<1>3. CASE CallCtrl
  <2> DEFINE some == chan[loop.chan].tx > 0
  <2>1. /\ loop' = [loop EXCEPT !.at = "ctrl", !.doing = @ \ {"CTRL"}, !.sent = some]
        /\ callouts' = callouts /\ UNCHANGED <<chan, shared, asserted, lineVars>>
    BY <1>3 DEF CallCtrl
  <2>2. some \in BOOLEAN
    OBVIOUS
  <2> HIDE DEF some
  <2>3. loop' \in LoopType /\ loop'.at = "ctrl" /\ loop'.later = loop.later
    BY <1>1, <2>1, <2>2 DEF LoopType
  <2>4. QED
    BY <1>1, <2>1, <2>3, ShapeKept, QuietKeeps
<1>4. CASE CtrlTaken
  <2>1. /\ loop' = [loop EXCEPT !.at = "called"]
        /\ line' = [line EXCEPT ![loop.chan].offered = loop.sent]
        /\ callouts' = callouts /\ asserted' = asserted
        /\ UNCHANGED <<chan, shared, unseen, cleared>>
    BY <1>4 DEF CtrlTaken, Goes
  <2>2. loop' \in LoopType /\ loop'.at = "called" /\ loop'.later = loop.later
    BY <1>1, <2>1 DEF LoopType
  <2>3. line' \in [Channels -> EndOfLine]
    BY <1>1, <2>1 DEF EndOfLine, LoopType
  <2>4. asserted' \in BOOLEAN
    BY <1>1, <2>1
  <2>5. LoopShape' /\ AnswerFits'
    BY <1>1, <2>2, ShapeKept DEF AnswerFits
  <2>6. QED
    BY <1>1, <2>1, <2>2, <2>3, <2>4, <2>5, LoopKeeps
<1>5. CASE CallConfig
  <2>1. /\ loop' = [loop EXCEPT !.at = "called", !.doing = @ \ {"CONFIG"}]
        /\ callouts' = callouts /\ UNCHANGED <<chan, shared, asserted, lineVars>>
    BY <1>5 DEF CallConfig
  <2>2. loop' \in LoopType /\ loop'.at = "called" /\ loop'.later = loop.later
    BY <1>1, <2>1 DEF LoopType
  <2>3. QED
    BY <1>1, <2>1, <2>2, ShapeKept, QuietKeeps
<1>6. CASE CallReturn
  <2>1. /\ loop' = [loop EXCEPT !.at = "do"]
        /\ callouts' = callouts /\ UNCHANGED <<chan, shared, asserted, lineVars>>
    BY <1>6 DEF CallReturn, Goes
  <2>2. loop' \in LoopType /\ loop'.at = "do" /\ loop'.later = loop.later
    BY <1>1, <2>1 DEF LoopType
  <2>3. QED
    BY <1>1, <2>1, <2>2, ShapeKept, QuietKeeps
<1>7. CASE ReadLater
  <2> DEFINE later == [loop.later EXCEPT ![loop.chan] = @ \cup {"READ"}]
  <2>1. /\ loop' = [loop EXCEPT !.doing = @ \ {"READ"}, !.later = later] /\ loop.at = "do"
        /\ callouts' = callouts /\ UNCHANGED <<chan, shared, asserted, lineVars>>
    BY <1>7 DEF ReadLater, Reads
  <2>2. /\ later \in [Channels -> SUBSET Callouts]
        /\ \A c \in Channels : later[c] \subseteq {"READ"}
    BY <1>1 DEF Callouts, LoopShape
  <2> HIDE DEF later
  <2>3. loop' \in LoopType /\ loop'.at = "do" /\ loop'.later = later
    BY <1>1, <2>1, <2>2 DEF LoopType
  <2>4. LoopShape'
    BY <2>2, <2>3 DEF LoopShape
  <2>5. QED
    BY <1>1, <2>1, <2>3, <2>4, QuietKeeps
<1>8. CASE CallRead
  <2>1. /\ loop' = [loop EXCEPT !.at = "read", !.doing = @ \ {"READ"}]
        /\ callouts' = callouts /\ UNCHANGED <<chan, shared, asserted, lineVars>>
    BY <1>8 DEF CallRead
  <2>2. loop' \in LoopType /\ loop'.at = "read" /\ loop'.later = loop.later
    BY <1>1, <2>1 DEF LoopType
  <2>3. QED
    BY <1>1, <2>1, <2>2, ShapeKept, QuietKeeps
<1>9. QED
  BY <1>2, <1>3, <1>4, <1>5, <1>6, <1>7, <1>8

(* The last of a turn, and the ends of the loop.                           *)
LEMMA EndsKeep ==
  ASSUME ChipIInv,
         CheckInt \/ CallSignal \/ CalloutEnd \/ (\E done \in BOOLEAN : SignalReturn(done))
  PROVE  ChipIInv'
<1>1. /\ ChipTypeOK /\ LoopShape /\ loop \in LoopType /\ asserted \in BOOLEAN
      /\ callouts \in [Channels -> SUBSET Callouts] /\ line \in [Channels -> EndOfLine]
      /\ loop.later \in [Channels -> SUBSET Callouts]
  BY DEF ChipIInv, ChipTypeOK, LoopType
<1>2. CASE CheckInt
  <2> DEFINE decided == IF loop.doing = {} THEN loop.int
                        ELSE IF Pending # {} THEN "asserted"
                        ELSE IF loop.int = "unknown" THEN "negated" ELSE loop.int
  <2>1. /\ loop' = [loop EXCEPT !.at = "turn", !.doing = {}, !.int = decided]
        /\ callouts' = callouts /\ UNCHANGED <<chan, shared, asserted, lineVars>>
    BY <1>2 DEF CheckInt
  <2>2. decided \in {"unknown", "asserted", "negated"}
    BY <1>1 DEF LoopType
  <2> HIDE DEF decided
  <2>3. /\ loop' \in LoopType /\ loop'.at = "turn" /\ loop'.later = loop.later
        /\ loop'.doing = {}
    BY <1>1, <2>1, <2>2 DEF LoopType
  <2>4. LoopShape'
    BY <1>1, <2>3 DEF LoopShape
  <2>5. QED
    BY <1>1, <2>1, <2>3, <2>4, QuietKeeps
<1>3. CASE CallSignal
  <2>1. /\ loop.at = "turn" /\ loop' = [loop EXCEPT !.at = "signal"]
        /\ callouts' = callouts /\ UNCHANGED <<chan, shared, asserted, lineVars>>
    BY <1>3 DEF CallSignal, Goes
  <2>2. /\ loop' \in LoopType /\ loop'.at = "signal" /\ loop'.later = loop.later
        /\ loop'.doing = loop.doing
    BY <1>1, <2>1 DEF LoopType
  <2>3. LoopShape'
    BY <1>1, <2>1, <2>2 DEF LoopShape
  <2>4. QED
    BY <1>1, <2>1, <2>2, <2>3, QuietKeeps
<1>4. Idle8530 \in LoopType /\ Idle8530.at = "idle" /\ Idle8530.doing = {}
  BY DEF Idle8530, LoopType, Channels
<1>5. loop' = Idle8530 => LoopShape'
  <2>1. \A c \in Channels : Idle8530.later[c] = {}
    BY DEF Idle8530
  <2>2. QED
    BY <1>4, <2>1 DEF LoopShape
<1>6. CASE CalloutEnd
  <2>1. /\ loop' = Idle8530 /\ callouts' = loop.later
        /\ UNCHANGED <<chan, shared, asserted, lineVars>>
    BY <1>6 DEF CalloutEnd
  <2>2. QED
    BY <1>1, <1>4, <1>5, <2>1, QuietKeeps
<1>7. ASSUME NEW done \in BOOLEAN, SignalReturn(done) PROVE ChipIInv'
  <2>1. /\ loop' = Idle8530 /\ asserted' = IF done THEN loop.int = "asserted" ELSE asserted
        /\ callouts' = [c \in Channels |-> loop.later[c] \cup IF done THEN {} ELSE {"INT"}]
        /\ UNCHANGED <<chan, shared, lineVars>>
    BY <1>7 DEF SignalReturn
  <2>2. asserted' \in BOOLEAN
    BY <1>1, <2>1
  <2>3. callouts' \in [Channels -> SUBSET Callouts]
    BY <1>1, <2>1 DEF Callouts
  <2>4. line' \in [Channels -> EndOfLine] /\ UNCHANGED <<chan, shared, unseen, cleared>>
    BY <1>1, <2>1 DEF lineVars
  <2>5. AnswerFits'
    BY <1>4, <2>1 DEF AnswerFits
  <2>6. QED
    BY <1>4, <1>5, <2>1, <2>2, <2>3, <2>4, <2>5, LoopKeeps
<1>8. QED
  BY <1>2, <1>3, <1>6, <1>7

(* The line answers with as much as there is room for.                     *)
LEMMA ReadAnswerKeeps ==
  ASSUME ChipIInv, ReadAnswer
  PROVE  ChipIInv'
<1> DEFINE c == loop.chan
           data == line[c].data
           room == RxRoom - Len(chan[c].rx)
<1>1. /\ ChipTypeOK /\ LoopShape /\ loop \in LoopType /\ asserted \in BOOLEAN
      /\ callouts \in [Channels -> SUBSET Callouts] /\ line \in [Channels -> EndOfLine]
      /\ c \in Channels /\ line[c] \in EndOfLine /\ data \in Seq(Characters)
  BY DEF ChipIInv, ChipTypeOK, LoopType, EndOfLine
<1>2. chan[c].rx \in Seq(Characters) /\ Len(chan[c].rx) <= RxRoom /\ RxRoom \in Nat
  BY <1>1, ChipAssumption DEF ChipTypeOK, Channel
<1>3. PICK n \in 0 .. room :
        /\ n <= Len(data)
        /\ loop' = [loop EXCEPT !.at = "answered", !.got = SubSeq(data, 1, n)]
        /\ line' = [line EXCEPT ![c].data = SubSeq(@, n + 1, Len(@)), ![c].told = n > 0]
  BY DEF ReadAnswer
<1>4. UNCHANGED <<chan, callouts, shared, asserted, unseen, cleared>>
  BY DEF ReadAnswer
<1>5. Len(chan[c].rx) \in Nat /\ Len(data) \in Nat
  BY <1>1, <1>2
<1>6. n \in Nat /\ n <= room /\ room \in Nat
  <2>1. room \in Nat
    BY <1>2, <1>5
  <2>2. n \in 0 .. room
    OBVIOUS
  <2> HIDE DEF room
  <2>3. QED
    BY <2>1, <2>2
<1>7. /\ SubSeq(data, 1, n) \in Seq(Characters) /\ Len(SubSeq(data, 1, n)) = n
      /\ SubSeq(data, n + 1, Len(data)) \in Seq(Characters)
  <2> HIDE DEF data, room
  <2>1. n <= Len(data)
    BY <1>3
  <2>2. SubSeq(data, 1, n) \in Seq(Characters) /\ Len(SubSeq(data, 1, n)) = n
    BY <1>1, <1>5, <1>6, <2>1
  <2>3. SubSeq(data, n + 1, Len(data)) \in Seq(Characters)
    BY <1>1, <1>5, <1>6, <2>1
  <2>4. QED
    BY <2>2, <2>3
<1> DEFINE got == SubSeq(data, 1, n)
           rest == SubSeq(data, n + 1, Len(data))
           told == n > 0
<1>8. told \in BOOLEAN
  OBVIOUS
<1>9. line' = [line EXCEPT ![c] = [line[c] EXCEPT !.data = rest, !.told = told]]
  BY <1>1, <1>3
<1> HIDE DEF got, rest, told, data, room
<1>10. /\ loop' \in LoopType /\ loop'.at = "answered" /\ loop'.later = loop.later
       /\ loop'.chan = c /\ loop'.got = got
  BY <1>1, <1>3, <1>7 DEF LoopType, got
<1>11. line' \in [Channels -> EndOfLine]
  <2>1. [line[c] EXCEPT !.data = rest, !.told = told] \in EndOfLine
    BY <1>1, <1>7, <1>8 DEF EndOfLine, rest
  <2>2. QED
    BY <1>1, <1>9, <2>1
<1>12. LoopShape'
  BY <1>1, <1>10 DEF LoopShape
<1>13. AnswerFits'
  <2>1. Len(chan[c].rx) + Len(got) <= RxRoom
    <3>1. Len(got) = n /\ n <= RxRoom - Len(chan[c].rx)
      BY <1>6, <1>7 DEF room, got
    <3>2. QED
      BY <1>2, <1>5, <1>6, <3>1
  <2> HIDE DEF c
  <2>2. QED
    BY <1>4, <1>10, <2>1 DEF AnswerFits
<1>14. QED
  BY <1>1, <1>4, <1>10, <1>11, <1>12, <1>13, LoopKeeps

(* What is appended to what was received.                                  *)
LEMMA GotSome ==
  ASSUME NEW s \in Seq(Characters), NEW t \in Seq(Characters), t # <<>>
  PROVE  /\ s \o t \in Seq(Characters) /\ s \o t # <<>>
         /\ Len(s \o t) = Len(s) + Len(t) /\ Len(s \o t) \in Nat
<1>1. /\ s \o t \in Seq(Characters) /\ Len(s) \in Nat /\ Len(t) \in Nat
      /\ Len(s \o t) = Len(s) + Len(t)
  OBVIOUS
<1>2. Len(t) # 0
  OBVIOUS
<1> DEFINE u == s \o t
<1>3. u \in Seq(Characters) /\ Len(u) # 0
  BY <1>1, <1>2
<1> HIDE DEF u
<1>4. u # <<>>
  BY <1>3
<1>5. QED
  BY <1>1, <1>4 DEF u

(* What a read leaves that gave something.                                 *)
LEMMA ReadTakenIs ==
  ASSUME ChipIInv, ReadTaken, loop.got # <<>>
  PROVE  \E ch \in Channel, new \in SUBSET {"READ", "INT"} :
             /\ chan' = [chan EXCEPT ![loop.chan] = ch]
             /\ callouts' = [callouts EXCEPT ![loop.chan] = @ \cup new \cup {"READ"}]
             /\ cleared' = cleared \ {loop.chan}
             /\ ip' \in SUBSET (Channels \X Sources) /\ ip \subseteq ip'
             /\ ip' = ip \/ "INT" \in new
             /\ \A b \in Channels \X Sources : b # <<loop.chan, "RX">> => (b \in ip' <=> b \in ip)
             /\ Len(ch.rx) <= RxRoom /\ ch.avail /\ ch.tx = chan[loop.chan].tx
             /\ ch.wr1 = chan[loop.chan].wr1 /\ ch.wr15 = chan[loop.chan].wr15
             /\ ch.latched = chan[loop.chan].latched /\ ch.diff = chan[loop.chan].diff
             /\ ch.raw = chan[loop.chan].raw
<1> DEFINE c == loop.chan
           rx == chan[c].rx \o loop.got
           ch == [chan[c] EXCEPT !.rx = rx]
           r == IF ch.avail THEN [chan |-> ch, ip |-> ip, new |-> {}] ELSE Refilled(c, ch, ip)
<1>1. /\ chan' = [chan EXCEPT ![c] = r.chan] /\ ip' = r.ip
      /\ callouts' = [callouts EXCEPT ![c] = @ \cup r.new \cup {"READ"}]
      /\ cleared' = IF r.chan.avail THEN cleared \ {c} ELSE cleared
      /\ loop.at = "answered"
  BY DEF ReadTaken
<1>2. /\ c \in Channels /\ chan[c] \in Channel /\ loop.got \in Seq(Characters)
      /\ ip \in SUBSET (Channels \X Sources)
      /\ <<c, "RX">> \in ip => chan[c].avail
      /\ Len(chan[c].rx) + Len(loop.got) <= RxRoom
  BY <1>1 DEF ChipIInv, ChipTypeOK, LoopType, Received, AnswerFits
<1>3. /\ rx \in Seq(Characters) /\ rx # <<>> /\ Len(rx) <= RxRoom /\ Len(rx) \in Nat
  <2>1. chan[c].rx \in Seq(Characters)
    BY <1>2 DEF Channel
  <2>2. QED
    BY <1>2, <2>1, GotSome
<1> HIDE DEF c, rx
<1>4. /\ ch \in Channel /\ ch.rx = rx /\ ch.avail = chan[c].avail /\ ch.tx = chan[c].tx
      /\ ch.wr1 = chan[c].wr1 /\ ch.wr15 = chan[c].wr15
      /\ ch.latched = chan[c].latched /\ ch.diff = chan[c].diff /\ ch.raw = chan[c].raw
  BY <1>2, <1>3 DEF Channel
<1> HIDE DEF ch
<1>5. /\ r.chan \in Channel /\ r.ip \in SUBSET (Channels \X Sources)
      /\ r.new \in SUBSET {"READ", "INT"} /\ r.chan.avail
      /\ ip \subseteq r.ip /\ Len(r.chan.rx) <= Len(ch.rx)
      /\ r.ip = ip \/ "INT" \in r.new
      /\ \A b \in Channels \X Sources : b # <<c, "RX">> => (b \in r.ip <=> b \in ip)
      /\ r.chan.tx = ch.tx /\ r.chan.wr1 = ch.wr1 /\ r.chan.wr15 = ch.wr15
      /\ r.chan.latched = ch.latched /\ r.chan.diff = ch.diff /\ r.chan.raw = ch.raw
  <2>1. CASE ch.avail
    <3>1. r.chan = ch /\ r.ip = ip /\ r.new = {}
      BY <2>1
    <3>2. Len(ch.rx) <= Len(ch.rx)
      BY <1>3, <1>4
    <3> HIDE DEF r
    <3>3. QED
      BY <1>2, <1>4, <2>1, <3>1, <3>2
  <2>2. CASE ~ch.avail
    <3>1. r = Refilled(c, ch, ip)
      BY <2>2
    <3>2. <<c, "RX">> \in ip => ch.avail
      BY <1>2, <1>4
    <3>3. ch.rx # <<>>
      BY <1>3, <1>4
    <3> HIDE DEF r
    <3>4. QED
      BY <1>2, <1>4, <2>2, <3>1, <3>2, <3>3, RefilledIs
  <2>3. QED
    BY <2>1, <2>2
<1> HIDE DEF r
<1>6. Len(r.chan.rx) <= RxRoom
  <2>1. Len(r.chan.rx) \in Nat
    BY <1>5 DEF Channel
  <2>2. QED
    BY <1>3, <1>4, <1>5, <2>1, ChipAssumption
<1>7. r.chan \in Channel /\ r.new \in SUBSET {"READ", "INT"}
  BY <1>5
<1> USE <1>7
<1> WITNESS r.chan \in Channel, r.new \in SUBSET {"READ", "INT"}
<1>8. QED
  BY <1>1, <1>4, <1>5, <1>6 DEF c

LEMMA ReadTakenKeeps ==
  ASSUME ChipIInv, ReadTaken
  PROVE  ChipIInv'
<1>1. /\ loop' = [loop EXCEPT !.at = "do", !.got = <<>>]
      /\ UNCHANGED <<ius, mie, asserted, line, unseen>>
  BY DEF ReadTaken
<1>2. /\ ChipTypeOK /\ LoopShape /\ Received /\ BreaksLatched /\ loop \in LoopType
      /\ loop.chan \in Channels /\ chan \in [Channels -> Channel]
      /\ \A d \in Channels : Len(chan[d].rx) <= RxRoom
  BY DEF ChipIInv, ChipTypeOK, LoopType
<1>3. loop' \in LoopType /\ loop'.at = "do" /\ loop'.later = loop.later
  <2>1. <<>> \in Seq(Characters)
    OBVIOUS
  <2>2. QED
    BY <1>1, <1>2, <2>1 DEF LoopType
<1>4. LoopShape' /\ AnswerFits'
  BY <1>2, <1>3, ShapeKept DEF AnswerFits
<1>5. CASE loop.got = <<>>
  <2>1. UNCHANGED <<chan, ip, callouts, cleared>>
    BY <1>5 DEF ReadTaken
  <2>2. UNCHANGED <<chan, shared, asserted, lineVars>>
    BY <1>1, <2>1 DEF shared, lineVars
  <2>3. callouts' \in [Channels -> SUBSET Callouts]
    BY <1>2, <2>1 DEF ChipTypeOK
  <2>4. QED
    BY <1>3, <1>4, <2>2, <2>3, QuietKeeps
<1>6. CASE loop.got # <<>>
  <2>1. PICK ch \in Channel, new \in SUBSET {"READ", "INT"} :
             /\ chan' = [chan EXCEPT ![loop.chan] = ch]
             /\ callouts' = [callouts EXCEPT ![loop.chan] = @ \cup new \cup {"READ"}]
             /\ cleared' = cleared \ {loop.chan}
             /\ ip' \in SUBSET (Channels \X Sources) /\ ip \subseteq ip'
             /\ ip' = ip \/ "INT" \in new
             /\ \A b \in Channels \X Sources : b # <<loop.chan, "RX">> => (b \in ip' <=> b \in ip)
             /\ Len(ch.rx) <= RxRoom /\ ch.avail /\ ch.tx = chan[loop.chan].tx
             /\ ch.wr1 = chan[loop.chan].wr1 /\ ch.wr15 = chan[loop.chan].wr15
             /\ ch.latched = chan[loop.chan].latched /\ ch.diff = chan[loop.chan].diff
             /\ ch.raw = chan[loop.chan].raw
    BY <1>6, ReadTakenIs
  <2>2. /\ chan' \in [Channels -> Channel] /\ chan'[loop.chan] = ch
        /\ \A d \in Channels \ {loop.chan} : chan'[d] = chan[d]
    BY <1>2, <2>1
  <2>3. callouts' \in [Channels -> SUBSET Callouts]
    BY <1>2, <2>1 DEF ChipTypeOK, Callouts
  <2>4. \A d \in Channels : Len(chan'[d].rx) <= RxRoom
    BY <1>2, <2>1, <2>2
  <2>5. cleared' \in SUBSET Channels
    BY <1>2, <2>1 DEF ChipTypeOK
  <2>6. ChipTypeOK'
    BY <1>1, <1>2, <1>3, <2>1, <2>2, <2>3, <2>4, <2>5 DEF ChipTypeOK
  <2>7. Received'
    BY <1>2, <2>1, <2>2 DEF Received, Sources
  <2>8. BreaksLatched'
    <3> SUFFICES ASSUME NEW d \in Channels
                 PROVE  /\ DiffKept(chan'[d])
                        /\ d \in unseen => <<d, "STATUS">> \in ip' /\ Due(chan'[d])
      BY <1>1 DEF BreaksLatched, DiffKept, Due
    <3>1. DiffKept(chan[d]) /\ (d \in unseen => <<d, "STATUS">> \in ip' /\ Due(chan[d]))
      BY <1>2, <2>1 DEF BreaksLatched
    <3>2. CASE d = loop.chan
      BY <2>1, <2>2, <3>1, <3>2 DEF DiffKept, Due
    <3>3. CASE d # loop.chan
      BY <2>2, <3>1, <3>3
    <3>4. QED
      BY <3>2, <3>3
  <2>9. QED
    BY <1>4, <2>6, <2>7, <2>8 DEF ChipIInv
<1>7. QED
  BY <1>5, <1>6

-----------------------------------------------------------------------------
(* The first reset, of a channel that holds zeroes.                        *)
LEMMA ResetFirst ==
  ASSUME NEW zero \in [wr1: {0}, wr15: {0}, tx: {0}, rx: {<<>>}, avail: {0}, errors: {0},
                       latched: {0}, raw: {0}, diff: {0}]
  PROVE  /\ Reset(zero) \in Channel /\ Reset(zero).rx = <<>> /\ Reset(zero).avail = FALSE
         /\ Reset(zero).tx = 0 /\ Reset(zero).latched = {}
<1> DEFINE none == [tx |-> FALSE, rx |-> "DISABLE", status |-> FALSE, parity |-> FALSE]
           ch == [zero EXCEPT !.wr1 = none, !.wr15 = Status, !.avail = FALSE, !.errors = {},
                              !.latched = {}, !.raw = {}, !.diff = {}]
<1>1. none \in Wr1Values /\ <<>> \in Seq(Characters) /\ 0 \in 0 .. TxRoom
  BY ChipAssumption DEF Wr1Values
<1>2. Reset(zero) = ch
  BY DEF Reset
<1> HIDE DEF none
<1>3. ch \in Channel /\ ch.rx = <<>> /\ ch.avail = FALSE /\ ch.tx = 0 /\ ch.latched = {}
  BY <1>1 DEF Channel
<1>4. QED
  BY <1>2, <1>3

LEMMA InitChipIInv == ChipInit => ChipIInv
<1> SUFFICES ASSUME ChipInit PROVE ChipIInv
  OBVIOUS
<1> DEFINE zero == [wr1 |-> 0, wr15 |-> 0, tx |-> 0, rx |-> <<>>, avail |-> 0, errors |-> 0,
                    latched |-> 0, raw |-> 0, diff |-> 0]
<1>1. /\ chan = [c \in Channels |-> Reset(zero)] /\ callouts = [c \in Channels |-> {}]
      /\ ip = {} /\ ius = {} /\ mie = FALSE /\ asserted = FALSE /\ loop = Idle8530
      /\ line = [c \in Channels |-> [data |-> <<>>, told |-> FALSE, offered |-> FALSE]]
      /\ unseen = {} /\ cleared = {}
  BY DEF ChipInit
<1>3. <<>> \in Seq(Characters) /\ RxRoom \in Nat /\ Len(<<>>) = 0
  BY ChipAssumption
<1>4. /\ Reset(zero) \in Channel /\ Reset(zero).rx = <<>> /\ Reset(zero).avail = FALSE
      /\ Reset(zero).latched = {}
  BY ResetFirst
<1> HIDE DEF zero
<1>5. chan \in [Channels -> Channel] /\ \A c \in Channels : Len(chan[c].rx) <= RxRoom
  BY <1>1, <1>3, <1>4
<1>6. loop \in LoopType /\ loop.at = "idle" /\ loop.doing = {} /\ loop = Idle8530
  BY <1>1, <1>3 DEF Idle8530, LoopType, Channels
<1>7. line \in [Channels -> EndOfLine]
  BY <1>1, <1>3 DEF EndOfLine
<1>8. ChipTypeOK
  BY <1>1, <1>5, <1>6, <1>7 DEF ChipTypeOK
<1>9. \A c \in Channels : loop.later[c] = {}
  BY <1>6 DEF Idle8530
<1>10. QED
  BY <1>1, <1>4, <1>6, <1>8, <1>9
     DEF ChipIInv, LoopShape, AnswerFits, Received, BreaksLatched, DiffKept

LEMMA NextChipIInv == ChipIInv /\ [ChipNext]_chipVars => ChipIInv'
<1> SUFFICES ASSUME ChipIInv, [ChipNext]_chipVars PROVE ChipIInv'
  OBVIOUS
<1>1. CASE UNCHANGED chipVars
  BY <1>1 DEF chipVars, shared, lineVars, ChipIInv, ChipTypeOK, LoopShape, AnswerFits,
              Received, BreaksLatched, DiffKept, Due
<1>2. CASE Loop
  BY <1>2, TurnsKeep, EndsKeep, ReadAnswerKeeps, ReadTakenKeeps DEF Loop
<1>3. QED
  BY <1>1, <1>2, CpuKeeps, LinesKeep DEF ChipNext

(* The inductive invariant holds in every run, with any threads.           *)
THEOREM ChipInvariance == ChipSpec => []ChipIInv
<1>1. QED
  BY InitChipIInv, NextChipIInv, PTL DEF ChipSpec

(* The registers, the loop and the lines keep their types, and no read     *)
(* overfills a receive buffer.                                             *)
THEOREM ChipTypeCorrect == ChipSpec => []ChipTypeOK
<1>1. ChipIInv => ChipTypeOK
  BY DEF ChipIInv
<1>2. QED
  BY <1>1, ChipInvariance, PTL

(* With any threads, a break that the CPU asked for has a status interrupt *)
(* pending while it is due to be shown: until RR0 shows it, if RR0 showed  *)
(* none when it came, and if RR0 still showed the last one, unless it ends *)
(* before the CPU has acknowledged that one.                               *)
THEOREM BreaksComeThrough == ChipSpec => []BreaksShown
<1>1. ChipIInv => BreaksShown
  BY DEF ChipIInv, ChipTypeOK, BreaksLatched, BreaksShown
<1>2. QED
  BY <1>1, ChipInvariance, PTL

-----------------------------------------------------------------------------
(* Cooperative threads.                                                    *)

LEMMA PriorityIs ==
  /\ Priority(<<"A", "RX">>) = 6 /\ Priority(<<"A", "TX">>) = 5 /\ Priority(<<"A", "STATUS">>) = 4
  /\ Priority(<<"B", "RX">>) = 3 /\ Priority(<<"B", "TX">>) = 2 /\ Priority(<<"B", "STATUS">>) = 1
BY DEF Priority

(* The bits of a set have a highest one.                                   *)
LEMMA HighestExists ==
  ASSUME NEW bits \in SUBSET (Channels \X Sources), bits # {}
  PROVE  \E h \in bits : \A b \in bits : Priority(b) <= Priority(h)
<1>1. \A b \in bits : \/ b = <<"A", "RX">> \/ b = <<"A", "TX">> \/ b = <<"A", "STATUS">>
                      \/ b = <<"B", "RX">> \/ b = <<"B", "TX">> \/ b = <<"B", "STATUS">>
  BY DEF Channels, Sources
<1>2. CASE <<"A", "RX">> \in bits
  BY <1>1, <1>2, PriorityIs
<1>3. CASE <<"A", "RX">> \notin bits /\ <<"A", "TX">> \in bits
  BY <1>1, <1>3, PriorityIs
<1>4. CASE <<"A", "RX">> \notin bits /\ <<"A", "TX">> \notin bits /\ <<"A", "STATUS">> \in bits
  BY <1>1, <1>4, PriorityIs
<1>5. ASSUME <<"A", "RX">> \notin bits, <<"A", "TX">> \notin bits, <<"A", "STATUS">> \notin bits
      PROVE  \E h \in bits : \A b \in bits : Priority(b) <= Priority(h)
  <2>1. \A b \in bits : b = <<"B", "RX">> \/ b = <<"B", "TX">> \/ b = <<"B", "STATUS">>
    BY <1>1, <1>5
  <2>2. CASE <<"B", "RX">> \in bits
    BY <2>1, <2>2, PriorityIs
  <2>3. CASE <<"B", "RX">> \notin bits /\ <<"B", "TX">> \in bits
    BY <2>1, <2>3, PriorityIs
  <2>4. CASE <<"B", "RX">> \notin bits /\ <<"B", "TX">> \notin bits
    BY <2>1, <2>4, PriorityIs
  <2>5. QED
    BY <2>2, <2>3, <2>4
<1>6. QED
  BY <1>2, <1>3, <1>4, <1>5

LEMMA PriorityNat ==
  ASSUME NEW b \in Channels \X Sources
  PROVE  Priority(b) \in Nat
BY PriorityIs DEF Channels, Sources

LEMMA LessThrough ==
  ASSUME NEW i \in Nat, NEW j \in Nat, NEW k \in Nat, i < j, j <= k
  PROVE  i < k
OBVIOUS

(* An interrupt is pending when any bit is above those under service.      *)
LEMMA PendingBeats ==
  ASSUME NEW bits \in SUBSET (Channels \X Sources), NEW under \in SUBSET (Channels \X Sources)
  PROVE  (\E b \in Highest(bits) : \A s \in under : Priority(s) < Priority(b))
         <=> (\E b \in bits : \A s \in under : Priority(s) < Priority(b))
<1> DEFINE Beats(b) == \A s \in under : Priority(s) < Priority(b)
<1>1. ASSUME NEW b \in bits, Beats(b)
      PROVE  \E h \in Highest(bits) : Beats(h)
  <2>1. PICK h \in bits : \A x \in bits : Priority(x) <= Priority(h)
    BY HighestExists
  <2>2. h \in Highest(bits)
    BY <2>1 DEF Highest
  <2>3. Priority(b) <= Priority(h) /\ Priority(b) \in Nat /\ Priority(h) \in Nat
    BY <2>1, PriorityNat
  <2>4. ASSUME NEW s \in under PROVE Priority(s) < Priority(h)
    <3>1. Priority(s) \in Nat /\ Priority(s) < Priority(b)
      BY <1>1, PriorityNat
    <3>2. QED
      BY <2>3, <3>1, LessThrough
  <2>5. QED
    BY <2>2, <2>4
<1>2. Highest(bits) \subseteq bits
  BY DEF Highest
<1> HIDE DEF Beats
<1>3. (\E b \in Highest(bits) : Beats(b)) <=> (\E b \in bits : Beats(b))
  BY <1>1, <1>2
<1>4. QED
  BY <1>3 DEF Beats

(* While the services stay the same, more interrupts leave one pending.    *)
LEMMA PendingStays ==
  ASSUME ip \in SUBSET (Channels \X Sources), ius \in SUBSET (Channels \X Sources),
         ip' \in SUBSET (Channels \X Sources), ip \subseteq ip', ius' = ius, mie' = mie,
         Pending # {}
  PROVE  Pending' # {}
<1>1. mie /\ \E b \in ip : \A s \in ius : Priority(s) < Priority(b)
  BY DEF Pending, Highest
<1> DEFINE bits == ip'
<1>2. bits \in SUBSET (Channels \X Sources) /\ \E b \in bits : \A s \in ius : Priority(s) < Priority(b)
  BY <1>1
<1> HIDE DEF bits
<1>3. PICK b \in Highest(bits) : \A s \in ius : Priority(s) < Priority(b)
  BY <1>2, PendingBeats
<1>4. b \in {x \in Highest(ip') : mie' /\ \A s \in ius' : Priority(s) < Priority(x)}
  BY <1>1, <1>3 DEF bits
<1>5. QED
  BY <1>4 DEF Pending

LEMMA PendingSame == UNCHANGED shared => Pending' = Pending
BY DEF Pending, Highest, shared

(* A call of the chip on behalf of one channel owes the callouts that its  *)
(* changes need; the loop, when it runs, sees them in a later turn.        *)
LEMMA CallOwesSignal ==
  ASSUME ChipIInv, ChipIInv', SignalOwed,
         NEW c \in Channels, NEW new \in SUBSET Callouts, CallOut(c, new),
         loop.at # "signal", UNCHANGED shared \/ "INT" \in new,
         loop.at # "idle" => ip \subseteq ip' /\ UNCHANGED <<ius, mie>>
  PROVE  SignalOwed'
<1>1. /\ callouts'[c] = callouts[c] \cup new
      /\ \A d \in Channels : d # c => callouts'[d] = callouts[d]
      /\ loop.at # "idle" => loop' = loop
      /\ loop.at = "idle" => loop' = [loop EXCEPT !.at = "turn"]
      /\ asserted' = asserted
  BY CallOutIs DEF ChipIInv
<1>2. loop \in LoopType /\ (loop.at = "idle" => loop.doing = {} /\ loop.int = "unknown")
  BY DEF ChipIInv, ChipTypeOK, LoopShape, Idle8530
<1>3. /\ loop'.chan = loop.chan /\ loop'.doing = loop.doing /\ loop'.int = loop.int
      /\ loop'.at # "signal"
  BY <1>1, <1>2 DEF LoopType
<1>4. \A d \in Channels : callouts[d] \subseteq callouts'[d] /\ new \subseteq callouts'[c]
  BY <1>1
<1>5. \A d \in Channels : Owed(d) \subseteq Owed(d)' /\ new \subseteq Owed(c)'
  BY <1>3, <1>4 DEF Owed
<1>6. loop.int = "asserted" => Pending' # {}
  <2>1. loop.int = "asserted" => Pending # {} /\ loop.at # "idle"
    BY <1>2 DEF SignalOwed
  <2>2. /\ ip \in SUBSET (Channels \X Sources) /\ ius \in SUBSET (Channels \X Sources)
        /\ ip' \in SUBSET (Channels \X Sources)
    BY DEF ChipIInv, ChipTypeOK
  <2>3. QED
    BY <2>1, <2>2, PendingStays
<1>7. CASE "INT" \in new
  BY <1>3, <1>5, <1>6, <1>7 DEF SignalOwed
<1>8. CASE UNCHANGED shared
  <2>1. Pending' = Pending
    BY <1>8, PendingSame
  <2>2. \/ \E d \in Channels : "INT" \in Owed(d)
        \/ loop.int = "unknown" /\ asserted = (Pending # {})
        \/ loop.int # "unknown" /\ (loop.int = "asserted") = (Pending # {})
    BY DEF SignalOwed
  <2>3. CASE \E d \in Channels : "INT" \in Owed(d)
    BY <1>3, <1>5, <1>6, <2>3 DEF SignalOwed
  <2>4. CASE \/ loop.int = "unknown" /\ asserted = (Pending # {})
             \/ loop.int # "unknown" /\ (loop.int = "asserted") = (Pending # {})
    BY <1>1, <1>3, <1>6, <2>1, <2>4 DEF SignalOwed
  <2>5. QED
    BY <2>2, <2>3, <2>4
<1>9. QED
  BY <1>7, <1>8

LEMMA CallOwesSend ==
  ASSUME ChipIInv, ChipIInv', SendOwed,
         NEW c \in Channels, NEW new \in SUBSET Callouts, CallOut(c, new),
         \A d \in Channels :
             chan'[d].tx > 0 => \/ line'[d].offered
                                \/ d = c /\ "CTRL" \in new
                                \/ chan[d].tx > 0 /\ ~line[d].offered
                                \/ chan[d].tx > 0 /\ loop.at = "ctrl" /\ loop.chan = d /\ loop.sent,
         loop.at # "idle" => \A d \in Channels : chan'[d].tx > 0 => chan[d].tx > 0
  PROVE  SendOwed'
<1>1. /\ callouts'[c] = callouts[c] \cup new
      /\ \A d \in Channels : d # c => callouts'[d] = callouts[d]
      /\ loop.at # "idle" => loop' = loop
      /\ loop.at = "idle" => loop' = [loop EXCEPT !.at = "turn"]
  BY CallOutIs DEF ChipIInv
<1>2. /\ loop \in LoopType /\ (loop.at = "idle" => loop.doing = {})
      /\ loop.chan \in Channels
      /\ chan \in [Channels -> Channel] /\ chan' \in [Channels -> Channel]
  BY DEF ChipIInv, ChipTypeOK, LoopShape, LoopType
<1>3. /\ loop'.chan = loop.chan /\ loop'.doing = loop.doing /\ loop'.sent = loop.sent
      /\ loop'.at = "ctrl" <=> loop.at = "ctrl"
      /\ loop'.at = "ctrl" => loop.at # "idle"
  BY <1>1, <1>2 DEF LoopType
<1>4. \A d \in Channels : callouts[d] \subseteq callouts'[d] /\ new \subseteq callouts'[c]
  BY <1>1
<1>5. \A d \in Channels : Owed(d) \subseteq Owed(d)' /\ new \subseteq Owed(c)'
  BY <1>3, <1>4 DEF Owed
<1>6. ASSUME NEW d \in Channels, chan'[d].tx > 0
      PROVE  \/ line'[d].offered \/ "CTRL" \in Owed(d)'
             \/ loop'.at = "ctrl" /\ loop'.chan = d /\ loop'.sent
  <2>1. CASE line'[d].offered
    BY <2>1
  <2>2. CASE d = c /\ "CTRL" \in new
    BY <1>5, <2>2
  <2>3. CASE chan[d].tx > 0 /\ ~line[d].offered
    BY <1>3, <1>5, <2>3 DEF SendOwed
  <2>4. CASE chan[d].tx > 0 /\ loop.at = "ctrl" /\ loop.chan = d /\ loop.sent
    BY <1>3, <2>4
  <2>5. QED
    BY <1>6, <2>1, <2>2, <2>3, <2>4
<1>7. ASSUME loop'.at = "ctrl", ~loop'.sent PROVE chan'[loop'.chan].tx = 0
  <2>1. chan[loop.chan].tx = 0 /\ (chan'[loop.chan].tx > 0 => chan[loop.chan].tx > 0)
    BY <1>2, <1>3, <1>7 DEF SendOwed
  <2>2. chan'[loop.chan].tx \in Nat /\ chan[loop.chan].tx \in Nat
    BY <1>2, ChipAssumption DEF Channel
  <2>3. QED
    BY <1>3, <2>1, <2>2
<1>8. QED
  BY <1>6, <1>7 DEF SendOwed

LEMMA CallOwesRead ==
  ASSUME ChipIInv, ChipIInv', ReadOwed,
         NEW c \in Channels, NEW new \in SUBSET Callouts, CallOut(c, new),
         \A d \in Channels : line'[d].told => line[d].told \/ (d = c /\ "READ" \in new),
         loop.at # "idle" => \A d \in Channels : chan'[d].rx = chan[d].rx
  PROVE  ReadOwed'
<1>1. /\ callouts'[c] = callouts[c] \cup new
      /\ \A d \in Channels : d # c => callouts'[d] = callouts[d]
      /\ loop.at # "idle" => loop' = loop
      /\ loop.at = "idle" => loop' = [loop EXCEPT !.at = "turn"]
  BY CallOutIs DEF ChipIInv
<1>2. /\ loop \in LoopType /\ loop.chan \in Channels
      /\ loop.at = "idle" => loop.doing = {} /\ \A d \in Channels : loop.later[d] = {}
  BY DEF ChipIInv, ChipTypeOK, LoopShape, LoopType, Idle8530
<1>3. /\ loop'.chan = loop.chan /\ loop'.doing = loop.doing /\ loop'.later = loop.later
      /\ loop'.got = loop.got /\ loop'.at # "idle"
      /\ loop'.at \in {"read", "answered"} => loop.at # "idle"
      /\ loop.at # "idle" => loop'.at = loop.at
  BY <1>1, <1>2 DEF LoopType
<1>4. \A d \in Channels : callouts[d] \subseteq callouts'[d] /\ new \subseteq callouts'[c]
  BY <1>1
<1>5. \A d \in Channels : Owed(d) \subseteq Owed(d)' /\ new \subseteq Owed(c)'
  BY <1>3, <1>4 DEF Owed
<1>6. ASSUME NEW d \in Channels, line'[d].told
      PROVE  \/ "READ" \in Owed(d)' \cup loop'.later[d]
             \/ loop'.chan = d /\ loop'.at = "read"
             \/ loop'.chan = d /\ loop'.at = "answered" /\ loop'.got # <<>>
  <2>1. CASE d = c /\ "READ" \in new
    BY <1>5, <2>1
  <2>2. CASE line[d].told
    <3>1. \/ "READ" \in Owed(d) \cup loop.later[d]
          \/ loop.chan = d /\ loop.at = "read"
          \/ loop.chan = d /\ loop.at = "answered" /\ loop.got # <<>>
      BY <2>2 DEF ReadOwed
    <3>2. QED
      BY <1>3, <1>5, <3>1
  <2>3. QED
    BY <1>6, <2>1, <2>2
<1>7. loop.at # "idle" => \A d \in Channels : Full(d)' = Full(d)
  BY DEF Full
<1>8. \A d \in Channels : "READ" \in loop'.later[d] => Full(d)'
  BY <1>2, <1>3, <1>7 DEF ReadOwed
<1>9. loop'.at \in {"read", "answered"} => ~Full(loop.chan)'
  BY <1>2, <1>3, <1>7 DEF ReadOwed
<1>10. QED
  BY <1>3, <1>6, <1>8, <1>9 DEF ReadOwed, Full

(* The CPU, which calls when the loop does not run.                        *)
LEMMA CpuCallOwes ==
  ASSUME ChipIInv, ChipIInv', Cooperative, loop.at = "idle",
         NEW c \in Channels, NEW new \in SUBSET Callouts, CallOut(c, new),
         UNCHANGED shared \/ "INT" \in new, line' = line,
         \A d \in Channels : chan'[d].tx > 0 => chan[d].tx > 0 \/ (d = c /\ "CTRL" \in new)
  PROVE  Cooperative'
<1>1. SignalOwed'
  BY CallOwesSignal DEF Cooperative
<1>2. SendOwed'
  <2>1. \A d \in Channels :
            chan'[d].tx > 0 => \/ line'[d].offered
                               \/ d = c /\ "CTRL" \in new
                               \/ chan[d].tx > 0 /\ ~line[d].offered
    OBVIOUS
  <2>2. QED
    BY <2>1, CallOwesSend DEF Cooperative
<1>3. ReadOwed'
  BY CallOwesRead DEF Cooperative
<1>4. QED
  BY <1>1, <1>2, <1>3 DEF Cooperative

LEMMA ResetStatusOwes ==
  ASSUME ChipIInv, ChipIInv', Cooperative, loop.at = "idle", NEW c \in Channels, ResetStatus(c)
  PROVE  Cooperative'
<1> DEFINE bit == <<c, "STATUS">>
           bits == ip \ {bit}
           u == Updated(c, chan[c], bits)
           new == IntIf(bit \in ip) \cup u.new
<1>1. /\ chan' = [chan EXCEPT ![c] = u.chan] /\ ip' = u.ip /\ CallOut(c, new)
      /\ UNCHANGED <<ius, mie, line>>
  BY DEF ResetStatus
<1>2. chan[c] \in Channel /\ bits \in SUBSET (Channels \X Sources) /\ chan \in [Channels -> Channel]
  BY DEF ChipIInv, ChipTypeOK
<1>3. bit \in ip => "INT" \in IntIf(bit \in ip)
  BY DEF IntIf
<1>4. bit \notin ip => bits = ip
  OBVIOUS
<1>5. IntIf(bit \in ip) \in SUBSET Callouts
  BY DEF IntIf, Callouts
<1> HIDE DEF bits
<1>6. u.chan.tx = chan[c].tx /\ u.new \in SUBSET {"INT"} /\ (u.ip = bits \/ "INT" \in u.new)
  BY <1>2, UpdatedIs
<1> HIDE DEF u
<1>7. UNCHANGED shared \/ "INT" \in new
  BY <1>1, <1>3, <1>4, <1>6 DEF shared
<1>8. new \in SUBSET Callouts
  BY <1>5, <1>6 DEF Callouts
<1>9. \A d \in Channels : chan'[d].tx > 0 => chan[d].tx > 0
  BY <1>1, <1>2, <1>6
<1> HIDE DEF new
<1>10. QED
  BY <1>1, <1>7, <1>8, <1>9, CpuCallOwes

LEMMA RefillOwes ==
  ASSUME ChipIInv, ChipIInv', Cooperative, loop.at = "idle",
         NEW c \in Channels, NEW errors \in SUBSET Errors,
         Refill(c, [chan[c] EXCEPT !.errors = errors]), UNCHANGED <<ius, mie, line>>
  PROVE  Cooperative'
<1> DEFINE ch == [chan[c] EXCEPT !.errors = errors]
           r == Refilled(c, ch, ip)
<1>1. chan' = [chan EXCEPT ![c] = r.chan] /\ ip' = r.ip /\ CallOut(c, r.new)
  BY DEF Refill
<1>2. /\ chan[c] \in Channel /\ ip \in SUBSET (Channels \X Sources)
      /\ chan \in [Channels -> Channel]
      /\ <<c, "RX">> \in ip => chan[c].avail
  BY DEF ChipIInv, ChipTypeOK, Received
<1>3. ch \in Channel /\ ch.avail = chan[c].avail /\ ch.tx = chan[c].tx
  BY <1>2 DEF Channel
<1> HIDE DEF ch
<1>4. /\ r.new \in SUBSET {"READ", "INT"} /\ r.chan.tx = ch.tx
      /\ r.ip = ip \/ "INT" \in r.new
  <2>1. <<c, "RX">> \in ip => ch.avail
    BY <1>2, <1>3
  <2>2. QED
    BY <1>2, <1>3, <2>1, RefilledIs
<1> HIDE DEF r
<1>5. UNCHANGED shared \/ "INT" \in r.new
  BY <1>1, <1>4 DEF shared
<1>6. r.new \in SUBSET Callouts
  BY <1>4 DEF Callouts
<1>7. \A d \in Channels : chan'[d].tx > 0 => chan[d].tx > 0
  BY <1>1, <1>2, <1>3, <1>4
<1>8. QED
  BY <1>1, <1>5, <1>6, <1>7, CpuCallOwes

LEMMA WriteWr9Owes ==
  ASSUME ChipIInv, ChipIInv', Cooperative, loop.at = "idle",
         NEW c \in Channels, NEW resets \in SUBSET Channels, NEW enable \in BOOLEAN,
         WriteWr9(c, resets, enable)
  PROVE  Cooperative'
<1>1. /\ chan' = [d \in Channels |-> IF d \in resets THEN Reset(chan[d]) ELSE chan[d]]
      /\ CallOut(c, {"INT"}) /\ line' = line
  BY DEF WriteWr9
<1>2. \A d \in Channels : Reset(chan[d]).tx = chan[d].tx
  <2> TAKE d \in Channels
  <2> DEFINE none == [tx |-> FALSE, rx |-> "DISABLE", status |-> FALSE, parity |-> FALSE]
             ch == [chan[d] EXCEPT !.wr1 = none, !.wr15 = Status, !.avail = FALSE, !.errors = {},
                                   !.latched = {}, !.raw = {}, !.diff = {}]
  <2>1. chan[d] \in Channel
    BY DEF ChipIInv, ChipTypeOK
  <2>2. Reset(chan[d]) = ch
    BY DEF Reset
  <2> HIDE DEF none
  <2>3. ch.tx = chan[d].tx
    BY <2>1 DEF Channel
  <2>4. QED
    BY <2>2, <2>3
<1>3. \A d \in Channels : chan'[d].tx = chan[d].tx
  BY <1>1, <1>2
<1>4. {"INT"} \in SUBSET Callouts
  BY DEF Callouts
<1>5. QED
  BY <1>1, <1>3, <1>4, CpuCallOwes

(* The writes of the other registers, and the commands of WR0.             *)
LEMMA CommandsOwe ==
  ASSUME ChipIInv, ChipIInv', Cooperative, loop.at = "idle", NEW c \in Channels,
         ResetIus(c) \/ ResetTx(c) \/ IntNextRx(c) \/ WriteWr5(c) \/ WriteConfig(c)
  PROVE  Cooperative'
<1>1. \A b \in BOOLEAN : IntIf(b) \in SUBSET Callouts /\ (b => "INT" \in IntIf(b))
  BY DEF IntIf, Callouts
<1>2. {"INT"} \in SUBSET Callouts /\ {"CTRL", "CONFIG"} \in SUBSET Callouts
      /\ {"CONFIG"} \in SUBSET Callouts
  BY DEF Callouts
<1>3. CASE ResetIus(c)
  <2>1. CallOut(c, {"INT"}) /\ chan' = chan /\ line' = line
    BY <1>3 DEF ResetIus, lineVars
  <2>2. QED
    BY <1>2, <2>1, CpuCallOwes
<1>4. CASE ResetTx(c)
  <2> DEFINE had == <<c, "TX">> \in ip
             new == IntIf(had)
  <2>1. /\ CallOut(c, new) /\ chan' = chan /\ line' = line /\ UNCHANGED <<ius, mie>>
        /\ ip' = ip \ {<<c, "TX">>}
    BY <1>4 DEF ResetTx, lineVars
  <2>2. had \in BOOLEAN /\ (~had => UNCHANGED shared)
    BY <2>1 DEF shared
  <2> HIDE DEF had
  <2>3. new \in SUBSET Callouts /\ (UNCHANGED shared \/ "INT" \in new)
    BY <1>1, <2>2
  <2> HIDE DEF new
  <2>4. QED
    BY <2>1, <2>3, CpuCallOwes
<1>5. CASE IntNextRx(c)
  <2> DEFINE new == IntIf(chan[c].avail)
  <2>1. /\ CallOut(c, new) /\ chan' = chan /\ line' = line /\ UNCHANGED <<ius, mie>>
        /\ ip' = IF chan[c].avail THEN ip \cup {<<c, "RX">>} ELSE ip
    BY <1>5 DEF IntNextRx, lineVars
  <2>2. chan[c].avail \in BOOLEAN
    BY DEF ChipIInv, ChipTypeOK, Channel
  <2>3. new \in SUBSET Callouts /\ (UNCHANGED shared \/ "INT" \in new)
    BY <1>1, <2>1, <2>2 DEF shared
  <2> HIDE DEF new
  <2>4. QED
    BY <2>1, <2>3, CpuCallOwes
<1>6. CASE WriteWr5(c) \/ WriteConfig(c)
  <2>1. /\ CallOut(c, {"CTRL", "CONFIG"}) \/ CallOut(c, {"CONFIG"})
        /\ chan' = chan /\ line' = line /\ UNCHANGED shared
    BY <1>6 DEF WriteWr5, WriteConfig, lineVars
  <2>2. QED
    BY <1>2, <2>1, CpuCallOwes
<1>7. QED
  BY <1>3, <1>4, <1>5, <1>6

LEMMA WritesOwe ==
  ASSUME ChipIInv, ChipIInv', Cooperative, loop.at = "idle", NEW c \in Channels,
         \/ \E v \in Wr1[c] : WriteWr1(c, v)
         \/ \E v \in Wr15 : WriteWr15(c, v)
         \/ WriteWr8(c)
  PROVE  Cooperative'
<1>1. \A b \in BOOLEAN : IntIf(b) \in SUBSET Callouts /\ (b => "INT" \in IntIf(b))
  BY DEF IntIf, Callouts
<1>2. chan \in [Channels -> Channel] /\ chan[c] \in Channel /\ chan[c].tx \in 0 .. TxRoom
  BY DEF ChipIInv, ChipTypeOK, Channel
<1>3. ASSUME NEW v \in Wr1[c], WriteWr1(c, v) PROVE Cooperative'
  <2> DEFINE bit == <<c, "TX">>
             loses == ~v.tx /\ bit \in ip
             new == IntIf(loses)
  <2>1. /\ chan' = [chan EXCEPT ![c].wr1 = v] /\ ip' = IF v.tx THEN ip ELSE ip \ {bit}
        /\ CallOut(c, new) /\ UNCHANGED <<ius, mie, line>>
    BY <1>3 DEF WriteWr1
  <2>2. \A d \in Channels : chan'[d].tx = chan[d].tx
    BY <1>2, <2>1 DEF Channel
  <2>3. ~loses => ip' = ip
    BY <2>1
  <2>4. loses \in BOOLEAN
    OBVIOUS
  <2> HIDE DEF loses
  <2>5. new \in SUBSET Callouts /\ (UNCHANGED shared \/ "INT" \in new)
    BY <1>1, <2>1, <2>3, <2>4 DEF shared
  <2> HIDE DEF new
  <2>6. QED
    BY <2>1, <2>2, <2>5, CpuCallOwes
<1>4. ASSUME NEW v \in Wr15, WriteWr15(c, v) PROVE Cooperative'
  <2>1. /\ chan' = [chan EXCEPT ![c].wr15 = v] /\ CallOut(c, {})
        /\ UNCHANGED shared /\ line' = line
    BY <1>4 DEF WriteWr15
  <2>2. \A d \in Channels : chan'[d].tx = chan[d].tx
    BY <1>2, <2>1 DEF Channel
  <2>3. {} \in SUBSET Callouts
    OBVIOUS
  <2>4. QED
    BY <2>1, <2>2, <2>3, CpuCallOwes
<1>5. CASE WriteWr8(c)
  <2> DEFINE empty == chan[c].tx = 0
             bit == <<c, "TX">>
             had == bit \in ip
             new == IF empty THEN IntIf(had) \cup {"CTRL"} ELSE {}
  <2>1. /\ CallOut(c, new) /\ ip' = IF empty THEN ip \ {bit} ELSE ip
        /\ UNCHANGED <<ius, mie, line>>
        /\ \A d \in Channels \ {c} : chan'[d] = chan[d]
    BY <1>2, <1>5 DEF WriteWr8, lineVars
  <2>2. ~empty => chan[c].tx > 0
    BY <1>2, ChipAssumption
  <2>3. new \in SUBSET Callouts /\ (had => "INT" \in IntIf(had))
    <3>1. had \in BOOLEAN
      OBVIOUS
    <3> HIDE DEF had
    <3>2. QED
      BY <1>1, <3>1 DEF Callouts
  <2>4. ~(empty /\ had) => ip' = ip
    BY <2>1
  <2>5. UNCHANGED shared \/ "INT" \in new
    BY <2>1, <2>3, <2>4 DEF shared
  <2>6. \A d \in Channels : chan'[d].tx > 0 => chan[d].tx > 0 \/ (d = c /\ "CTRL" \in new)
    BY <2>1, <2>2
  <2> HIDE DEF new
  <2>7. QED
    BY <2>1, <2>3, <2>5, <2>6, CpuCallOwes
<1>6. QED
  BY <1>3, <1>4, <1>5

LEMMA CpuOwes ==
  ASSUME ChipIInv, ChipIInv', Cooperative, ~PosixThreads, Cpu
  PROVE  Cooperative'
<1>1. loop.at = "idle"
  BY DEF Cpu, CpuRuns, LoopRuns
<1>2. ASSUME NEW c \in Channels, ResetError(c) \/ ReadData(c) PROVE Cooperative'
  <2>1. chan[c] = [chan[c] EXCEPT !.errors = chan[c].errors] /\ chan[c].errors \in SUBSET Errors
    BY DEF ChipIInv, ChipTypeOK, Channel
  <2>2. CASE ResetError(c)
    BY <1>1, <2>2, RefillOwes DEF ResetError
  <2>3. CASE ReadData(c)
    <3>1. /\ Refill(c, [chan[c] EXCEPT !.errors = chan[c].errors])
          /\ UNCHANGED <<ius, mie, line>>
      BY <2>1, <2>3 DEF ReadData
    <3>2. QED
      BY <1>1, <2>1, <3>1, RefillOwes
  <2>4. QED
    BY <1>2, <2>2, <2>3
<1>3. CASE IntAck
  <2>1. CallOut("A", {"INT"}) /\ chan' = chan /\ line' = line
    BY <1>3 DEF IntAck, lineVars
  <2>2. {"INT"} \in SUBSET Callouts /\ "A" \in Channels
    BY DEF Callouts, Channels
  <2>3. QED
    BY <1>1, <2>1, <2>2, CpuCallOwes
<1>4. ASSUME NEW c \in Channels, NEW resets \in {{}, {c}, Channels}, NEW enable \in BOOLEAN,
             WriteWr9(c, resets, enable)
      PROVE  Cooperative'
  <2>1. resets \in SUBSET Channels
    OBVIOUS
  <2>2. QED
    BY <1>1, <1>4, <2>1, WriteWr9Owes
<1>5. QED
  BY <1>1, <1>2, <1>3, <1>4, ResetStatusOwes, CommandsOwe, WritesOwe DEF Cpu

(* The lines, which also call in answer to a call of the loop.             *)
LEMMA LineCallOwes ==
  ASSUME ChipIInv, ChipIInv', Cooperative, loop.at # "signal",
         NEW c \in Channels, NEW new \in SUBSET Callouts, CallOut(c, new),
         NEW ch \in Channel, chan' = [chan EXCEPT ![c] = ch],
         ch.rx = chan[c].rx, ch.tx > 0 => chan[c].tx > 0,
         ip \subseteq ip', UNCHANGED <<ius, mie>>, ip' = ip \/ "INT" \in new,
         \A d \in Channels \ {c} : line'[d] = line[d],
         line'[c].told => line[c].told \/ "READ" \in new,
         ch.tx > 0 => \/ line'[c].offered \/ "CTRL" \in new
                      \/ line'[c].offered = line[c].offered
  PROVE  Cooperative'
<1>1. /\ chan'[c] = ch
      /\ \A d \in Channels \ {c} : chan'[d] = chan[d]
  BY DEF ChipIInv, ChipTypeOK
<1>2. SignalOwed'
  BY CallOwesSignal DEF Cooperative, shared
<1>3. SendOwed'
  <2>1. \A d \in Channels : chan'[d].tx > 0 => chan[d].tx > 0
    BY <1>1
  <2>2. ASSUME NEW d \in Channels, chan'[d].tx > 0
        PROVE  \/ line'[d].offered
               \/ d = c /\ "CTRL" \in new
               \/ chan[d].tx > 0 /\ ~line[d].offered
    <3>1. CASE d = c
      BY <1>1, <2>1, <2>2, <3>1
    <3>2. CASE d # c
      BY <1>1, <2>1, <2>2, <3>2
    <3>3. QED
      BY <3>1, <3>2
  <2>3. \A d \in Channels :
            chan'[d].tx > 0 =>
                \/ line'[d].offered
                \/ d = c /\ "CTRL" \in new
                \/ chan[d].tx > 0 /\ ~line[d].offered
                \/ chan[d].tx > 0 /\ loop.at = "ctrl" /\ loop.chan = d /\ loop.sent
    BY <2>2
  <2>4. QED
    BY <2>1, <2>3, CallOwesSend DEF Cooperative
<1>4. ReadOwed'
  <2>1. \A d \in Channels : chan'[d].rx = chan[d].rx
    BY <1>1
  <2>2. \A d \in Channels : line'[d].told => line[d].told \/ (d = c /\ "READ" \in new)
    OBVIOUS
  <2>3. QED
    BY <2>1, <2>2, CallOwesRead DEF Cooperative
<1>5. QED
  BY <1>2, <1>3, <1>4 DEF Cooperative

(* What a change of a line's state does.                                   *)
LEMMA CtrlInIs ==
  ASSUME ChipTypeOK, NEW c \in Channels, NEW bits \in SUBSET Status,
         NEW readable \in BOOLEAN, CtrlIn(c, bits, readable)
  PROVE  \E ch \in Channel, new \in SUBSET Callouts :
             /\ chan' = [chan EXCEPT ![c] = ch] /\ CallOut(c, new)
             /\ ch.rx = chan[c].rx /\ ch.tx = chan[c].tx
             /\ ip \subseteq ip'
             /\ ip' = ip \/ "INT" \in new
             /\ readable => "READ" \in new
<1> DEFINE changed == ((chan[c].latched \ bits) \cup (bits \ chan[c].latched))
                          \cup (chan[c].diff \cap {"BREAK"})
           ch == [chan[c] EXCEPT !.raw = bits, !.diff = changed]
           u == Updated(c, ch, ip)
           new == u.new \cup IF readable THEN {"READ"} ELSE {}
<1>1. chan' = [chan EXCEPT ![c] = u.chan] /\ ip' = u.ip /\ CallOut(c, new)
  BY DEF CtrlIn
<1>2. chan[c] \in Channel /\ ip \in SUBSET (Channels \X Sources)
  BY DEF ChipTypeOK
<1>3. changed \in SUBSET Status
  BY <1>2 DEF Channel
<1> HIDE DEF changed
<1>4. ch \in Channel /\ ch.rx = chan[c].rx /\ ch.tx = chan[c].tx
  BY <1>2, <1>3 DEF Channel
<1> HIDE DEF ch
<1>5. /\ u.chan \in Channel /\ u.new \in SUBSET {"INT"} /\ u.chan.rx = ch.rx
      /\ u.chan.tx = ch.tx /\ ip \subseteq u.ip
      /\ u.ip = ip \/ "INT" \in u.new
  BY <1>2, <1>4, UpdatedIs
<1> HIDE DEF u
<1>6. /\ u.chan \in Channel /\ new \in SUBSET Callouts
      /\ readable => "READ" \in new
      /\ u.new \subseteq new
  BY <1>5 DEF Callouts
<1> HIDE DEF new
<1> USE <1>6
<1> WITNESS u.chan \in Channel, new \in SUBSET Callouts
<1>7. QED
  BY <1>1, <1>4, <1>5, <1>6

LEMMA LinesOwe ==
  ASSUME ChipIInv, ChipIInv', Cooperative, ~PosixThreads, Lines
  PROVE  Cooperative'
<1>1. ChipTypeOK /\ loop.at # "signal"
  BY DEF ChipIInv, Lines, LineRuns, LoopRuns
<1>2. ASSUME NEW c \in Channels, NEW bits \in SUBSET Status, LineChanges(c, bits)
      PROVE  Cooperative'
  <2>1. CtrlIn(c, bits, FALSE) /\ line' = line /\ UNCHANGED <<ius, mie>>
    BY <1>2 DEF LineChanges
  <2>2. PICK ch \in Channel, new \in SUBSET Callouts :
             /\ chan' = [chan EXCEPT ![c] = ch] /\ CallOut(c, new)
             /\ ch.rx = chan[c].rx /\ ch.tx = chan[c].tx
             /\ ip \subseteq ip'
             /\ ip' = ip \/ "INT" \in new
    BY <1>1, <2>1, CtrlInIs
  <2>3. QED
    BY <1>1, <2>1, <2>2, LineCallOwes
<1>3. ASSUME NEW c \in Channels, NEW char \in Characters, LineReceives(c, char)
      PROVE  Cooperative'
  <2>1. /\ \A d \in Channels \ {c} : line'[d] = line[d]
        /\ line'[c].offered = line[c].offered
        /\ UNCHANGED <<ius, mie>>
    BY <1>1, <1>3, LineReceivesIs DEF LineReceives
  <2>2. CASE line[c].told
    <3>1. UNCHANGED <<chan, callouts, ip, asserted, loop>>
      BY <1>3, <2>2 DEF LineReceives
    <3>2. Pending' = Pending
      BY <2>1, <3>1, PendingSame DEF shared
    <3>3. /\ \A d \in Channels : line'[d].offered = line[d].offered
          /\ \A d \in Channels : line'[d].told => line[d].told
      BY <2>1, <2>2
    <3>4. SignalOwed'
      BY <3>1, <3>2 DEF Cooperative, SignalOwed, Owed
    <3>5. SendOwed'
      BY <3>1, <3>3 DEF Cooperative, SendOwed, Owed
    <3>6. ReadOwed'
      BY <3>1, <3>3 DEF Cooperative, ReadOwed, Owed, Full
    <3>7. QED
      BY <3>4, <3>5, <3>6 DEF Cooperative
  <2>3. CASE ~line[c].told
    <3>1. CtrlIn(c, chan[c].raw, TRUE) /\ chan[c].raw \in SUBSET Status
      BY <1>1, <1>3, <2>3 DEF LineReceives, ChipTypeOK, Channel
    <3>2. PICK ch \in Channel, new \in SUBSET Callouts :
               /\ chan' = [chan EXCEPT ![c] = ch] /\ CallOut(c, new)
               /\ ch.rx = chan[c].rx /\ ch.tx = chan[c].tx
               /\ ip \subseteq ip'
               /\ ip' = ip \/ "INT" \in new
               /\ "READ" \in new
      BY <1>1, <3>1, CtrlInIs
    <3>3. QED
      BY <1>1, <2>1, <3>2, LineCallOwes
  <2>4. QED
    BY <2>2, <2>3
<1>4. ASSUME NEW c \in Channels, NEW n \in 1 .. TxRoom, ReadIn(c, n) PROVE Cooperative'
  <2>1. PICK ch \in Channel, new \in SUBSET Callouts :
             /\ chan' = [chan EXCEPT ![c] = ch] /\ CallOut(c, new)
             /\ ch.rx = chan[c].rx
             /\ ip' = ip \/ (ip' = ip \cup {<<c, "TX">>} /\ "INT" \in new)
             /\ \A d \in Channels \ {c} : line'[d] = line[d]
             /\ line'[c].told = line[c].told
             /\ ch.tx <= chan[c].tx
             /\ "CTRL" \in new \/ line'[c].offered
             /\ UNCHANGED <<ius, mie>>
    BY <1>1, <1>4, ReadInIs
  <2>2. ch.tx > 0 => chan[c].tx > 0
    <3>1. ch.tx \in Nat /\ chan[c].tx \in Nat
      BY <1>1, ChipAssumption DEF ChipTypeOK, Channel
    <3>2. QED
      BY <2>1, <3>1
  <2>3. QED
    BY <1>1, <2>1, <2>2, LineCallOwes
<1>5. QED
  BY <1>2, <1>3, <1>4 DEF Lines

(* The loop.  A step that owes what was owed, but for what it does now.    *)
LEMMA TurnOwes ==
  ASSUME ChipIInv, Cooperative, NEW c \in Channels, Turn(c)
  PROVE  Cooperative'
<1>1. /\ loop.at = "turn" /\ loop.doing = {} /\ loop \in LoopType
      /\ loop' = [loop EXCEPT !.at = "do", !.chan = c, !.doing = callouts[c]]
      /\ callouts' = [callouts EXCEPT ![c] = {}]
      /\ callouts \in [Channels -> SUBSET Callouts]
      /\ UNCHANGED <<chan, shared, asserted, line>>
  BY DEF Turn, ChipIInv, ChipTypeOK, LoopShape, lineVars
<1>2. /\ loop'.at = "do" /\ loop'.chan = c /\ loop'.doing = callouts[c]
      /\ loop'.later = loop.later /\ loop'.int = loop.int
  BY <1>1 DEF LoopType
<1>3. \A d \in Channels : Owed(d)' = Owed(d)
  BY <1>1, <1>2 DEF Owed
<1>4. Pending' = Pending
  BY <1>1, PendingSame
<1>5. SignalOwed'
  BY <1>1, <1>2, <1>3, <1>4 DEF Cooperative, SignalOwed
<1>6. SendOwed'
  BY <1>1, <1>2, <1>3 DEF Cooperative, SendOwed
<1>7. ReadOwed'
  BY <1>1, <1>2, <1>3 DEF Cooperative, ReadOwed, Full
<1>8. QED
  BY <1>5, <1>6, <1>7 DEF Cooperative

LEMMA CallsOwe ==
  ASSUME ChipIInv, Cooperative,
         CallCtrl \/ CtrlTaken \/ CallConfig \/ CallReturn \/ ReadLater \/ CallRead
  PROVE  Cooperative'
<1>1. /\ loop \in LoopType /\ loop.chan \in Channels /\ line \in [Channels -> EndOfLine]
      /\ chan \in [Channels -> Channel] /\ loop.later \in [Channels -> SUBSET Callouts]
  BY DEF ChipIInv, ChipTypeOK, LoopType
<1>2. UNCHANGED <<chan, callouts, shared, asserted>> /\ loop'.chan = loop.chan
      /\ loop'.int = loop.int /\ loop'.at \notin {"idle", "signal"} /\ loop.at # "idle"
  BY <1>1 DEF CallCtrl, CtrlTaken, CallConfig, CallReturn, ReadLater, CallRead, Goes, Reads,
              LoopType
<1>3. Pending' = Pending
  BY <1>2, PendingSame
<1>4. "INT" \in loop.doing => "INT" \in loop'.doing
  <2>1. CASE CallCtrl
    <3>1. loop'.doing = loop.doing \ {"CTRL"}
      BY <1>1, <2>1 DEF CallCtrl, LoopType
    <3>2. QED
      BY <3>1
  <2>2. CASE CtrlTaken \/ CallReturn
    BY <1>1, <2>2 DEF CtrlTaken, CallReturn, Goes, LoopType
  <2>3. CASE CallConfig
    <3>1. loop'.doing = loop.doing \ {"CONFIG"}
      BY <1>1, <2>3 DEF CallConfig, LoopType
    <3>2. QED
      BY <3>1
  <2>4. CASE ReadLater \/ CallRead
    <3>1. loop'.doing = loop.doing \ {"READ"}
      BY <1>1, <2>4 DEF ReadLater, CallRead, LoopType
    <3>2. QED
      BY <3>1
  <2>5. QED
    BY <2>1, <2>2, <2>3, <2>4
<1>5. SignalOwed'
  BY <1>2, <1>3, <1>4 DEF Cooperative, SignalOwed, Owed
<1>6. CASE CallCtrl
  <2> DEFINE some == chan[loop.chan].tx > 0
  <2>1. /\ loop.at = "do" /\ line' = line
        /\ loop' = [loop EXCEPT !.at = "ctrl", !.doing = @ \ {"CTRL"}, !.sent = some]
    BY <1>6 DEF CallCtrl, lineVars
  <2>2. chan[loop.chan].tx \in Nat
    BY <1>1, ChipAssumption DEF Channel
  <2>3. (some => chan[loop.chan].tx > 0) /\ (~some => chan[loop.chan].tx = 0)
    BY <2>2
  <2>4. some \in BOOLEAN /\ (chan[loop.chan].tx > 0 => some)
    OBVIOUS
  <2> HIDE DEF some
  <2>5. /\ loop'.at = "ctrl" /\ loop'.doing = loop.doing \ {"CTRL"} /\ loop'.sent = some
        /\ loop'.later = loop.later
    BY <1>1, <2>1 DEF LoopType
  <2>6. SendOwed'
    BY <1>2, <2>1, <2>3, <2>4, <2>5 DEF Cooperative, SendOwed, Owed
  <2>7. ReadOwed'
    BY <1>2, <2>1, <2>5 DEF Cooperative, ReadOwed, Owed, Full
  <2>8. QED
    BY <1>5, <2>6, <2>7 DEF Cooperative
<1>7. CASE CtrlTaken
  <2>1. /\ loop.at = "ctrl" /\ loop' = [loop EXCEPT !.at = "called"]
        /\ line' = [line EXCEPT ![loop.chan].offered = loop.sent]
    BY <1>7 DEF CtrlTaken, Goes
  <2>2. /\ loop'.at = "called" /\ loop'.doing = loop.doing /\ loop'.later = loop.later
        /\ line'[loop.chan].offered = loop.sent
        /\ \A d \in Channels : line'[d].told = line[d].told
        /\ \A d \in Channels \ {loop.chan} : line'[d] = line[d]
    BY <1>1, <2>1 DEF LoopType, EndOfLine
  <2>3. chan[loop.chan].tx > 0 => loop.sent
    <3>1. chan[loop.chan].tx \in Nat
      BY <1>1, ChipAssumption DEF Channel
    <3>2. ~loop.sent => chan[loop.chan].tx = 0
      BY <2>1 DEF Cooperative, SendOwed
    <3>3. QED
      BY <3>1, <3>2
  <2>4. ASSUME NEW d \in Channels, chan[d].tx > 0
        PROVE  line'[d].offered \/ "CTRL" \in Owed(d)'
    <3>1. CASE d = loop.chan
      BY <2>2, <2>3, <2>4, <3>1
    <3>2. CASE d # loop.chan
      BY <1>2, <2>2, <2>4, <3>2 DEF Cooperative, SendOwed, Owed
    <3>3. QED
      BY <3>1, <3>2
  <2>5. SendOwed'
    BY <1>2, <2>2, <2>4 DEF SendOwed
  <2>6. ReadOwed'
    BY <1>2, <2>1, <2>2 DEF Cooperative, ReadOwed, Owed, Full
  <2>7. QED
    BY <1>5, <2>5, <2>6 DEF Cooperative
<1>8. CASE CallConfig \/ CallReturn
  <2>1. /\ loop.at \in {"do", "called"} /\ line' = line
        /\ \/ loop' = [loop EXCEPT !.at = "called", !.doing = @ \ {"CONFIG"}]
           \/ loop' = [loop EXCEPT !.at = "do"]
    BY <1>8 DEF CallConfig, CallReturn, Goes, lineVars
  <2>2. /\ loop'.at \in {"do", "called"} /\ loop'.later = loop.later
        /\ loop'.doing = loop.doing \/ loop'.doing = loop.doing \ {"CONFIG"}
    BY <1>1, <2>1 DEF LoopType
  <2>3. SendOwed'
    BY <1>2, <2>1, <2>2 DEF Cooperative, SendOwed, Owed
  <2>4. ReadOwed'
    BY <1>2, <2>1, <2>2 DEF Cooperative, ReadOwed, Owed, Full
  <2>5. QED
    BY <1>5, <2>3, <2>4 DEF Cooperative
<1>9. CASE ReadLater
  <2>1. /\ loop.at = "do" /\ line' = line /\ Full(loop.chan)
        /\ loop' = [loop EXCEPT !.doing = @ \ {"READ"}, !.later[loop.chan] = @ \cup {"READ"}]
    BY <1>9 DEF ReadLater, Reads, lineVars
  <2>2. /\ loop'.at = "do" /\ loop'.doing = loop.doing \ {"READ"}
        /\ loop'.later = [loop.later EXCEPT ![loop.chan] = @ \cup {"READ"}]
    BY <1>1, <2>1 DEF LoopType
  <2>3. /\ "READ" \in loop'.later[loop.chan]
        /\ \A d \in Channels : loop.later[d] \subseteq loop'.later[d]
        /\ \A d \in Channels \ {loop.chan} : loop'.later[d] = loop.later[d]
    BY <1>1, <2>2
  <2>4. SendOwed'
    BY <1>2, <2>1, <2>2 DEF Cooperative, SendOwed, Owed
  <2>5. ReadOwed'
    BY <1>2, <2>1, <2>2, <2>3 DEF Cooperative, ReadOwed, Owed, Full
  <2>6. QED
    BY <1>5, <2>4, <2>5 DEF Cooperative
<1>10. CASE CallRead
  <2>1. /\ loop.at = "do" /\ line' = line /\ ~Full(loop.chan)
        /\ loop' = [loop EXCEPT !.at = "read", !.doing = @ \ {"READ"}]
    BY <1>10 DEF CallRead, Reads, lineVars
  <2>2. /\ loop'.at = "read" /\ loop'.doing = loop.doing \ {"READ"} /\ loop'.later = loop.later
    BY <1>1, <2>1 DEF LoopType
  <2>3. SendOwed'
    BY <1>2, <2>1, <2>2 DEF Cooperative, SendOwed, Owed
  <2>4. ReadOwed'
    BY <1>2, <2>1, <2>2 DEF Cooperative, ReadOwed, Owed, Full
  <2>5. QED
    BY <1>5, <2>3, <2>4 DEF Cooperative
<1>11. QED
  BY <1>6, <1>7, <1>8, <1>9, <1>10

LEMMA ReadAnswerOwes ==
  ASSUME ChipIInv, Cooperative, ReadAnswer
  PROVE  Cooperative'
<1> DEFINE c == loop.chan
           data == line[c].data
<1>1. /\ loop \in LoopType /\ c \in Channels /\ line \in [Channels -> EndOfLine]
      /\ data \in Seq(Characters) /\ loop.at = "read"
  BY DEF ChipIInv, ChipTypeOK, LoopType, EndOfLine, ReadAnswer
<1>2. PICK n \in 0 .. RxRoom - Len(chan[c].rx) :
         /\ n = 0 <=> data = <<>>
         /\ n <= Len(data)
         /\ loop' = [loop EXCEPT !.at = "answered", !.got = SubSeq(data, 1, n)]
         /\ line' = [line EXCEPT ![c].data = SubSeq(@, n + 1, Len(@)), ![c].told = n > 0]
  BY DEF ReadAnswer
<1>3. UNCHANGED <<chan, callouts, shared, asserted>>
  BY DEF ReadAnswer
<1> DEFINE got == SubSeq(data, 1, n)
           rest == SubSeq(data, n + 1, Len(data))
           some == n > 0
           end == [line[c] EXCEPT !.data = rest, !.told = some]
<1>4. n \in Int /\ (some => got # <<>>)
  <2>1. n \in Int
    BY <1>2
  <2>2. ASSUME n > 0 PROVE got # <<>>
    <3>1. Len(got) = n
      BY <1>1, <1>2, <2>1, <2>2
    <3>2. Len(got) # 0
      BY <2>1, <2>2, <3>1
    <3> HIDE DEF got
    <3>3. QED
      BY <3>2
  <2>3. QED
    BY <2>1, <2>2
<1>5. some \in BOOLEAN
  OBVIOUS
<1>6. line' = [line EXCEPT ![c] = end] /\ line[c] \in EndOfLine
  BY <1>1, <1>2
<1>7. /\ loop'.at = "answered" /\ loop'.chan = loop.chan /\ loop'.doing = loop.doing
      /\ loop'.later = loop.later /\ loop'.int = loop.int /\ loop'.got = got
  BY <1>1, <1>2 DEF LoopType
<1> HIDE DEF some, got, rest
<1>8. end.told = some /\ end.offered = line[c].offered
  BY <1>6 DEF EndOfLine
<1>9. /\ line'[c].told = some
      /\ \A d \in Channels : line'[d].offered = line[d].offered
      /\ \A d \in Channels \ {c} : line'[d] = line[d]
  BY <1>1, <1>6, <1>8
<1>10. Pending' = Pending
  BY <1>3, PendingSame
<1>11. \A d \in Channels : Owed(d)' = Owed(d)
  BY <1>3, <1>7 DEF Owed
<1>12. SignalOwed'
  BY <1>1, <1>3, <1>7, <1>10, <1>11 DEF Cooperative, SignalOwed
<1>13. SendOwed'
  BY <1>1, <1>3, <1>7, <1>9, <1>11 DEF Cooperative, SendOwed
<1>14. ReadOwed'
  BY <1>1, <1>3, <1>4, <1>7, <1>9, <1>11 DEF Cooperative, ReadOwed, Full
<1>15. QED
  BY <1>12, <1>13, <1>14 DEF Cooperative

LEMMA ReadTakenOwes ==
  ASSUME ChipIInv, ChipIInv', Cooperative, ReadTaken
  PROVE  Cooperative'
<1>1. /\ loop \in LoopType /\ loop.chan \in Channels /\ loop.at = "answered"
      /\ loop' = [loop EXCEPT !.at = "do", !.got = <<>>]
      /\ UNCHANGED <<ius, mie, asserted, line>>
      /\ callouts \in [Channels -> SUBSET Callouts]
      /\ ip \in SUBSET (Channels \X Sources) /\ ius \in SUBSET (Channels \X Sources)
  BY DEF ChipIInv, ChipTypeOK, LoopType, ReadTaken
<1>2. /\ loop'.at = "do" /\ loop'.chan = loop.chan /\ loop'.doing = loop.doing
      /\ loop'.later = loop.later /\ loop'.int = loop.int
  BY <1>1 DEF LoopType
<1>3. CASE loop.got = <<>>
  <2>1. UNCHANGED <<chan, ip, callouts>>
    BY <1>3 DEF ReadTaken
  <2>2. Pending' = Pending
    BY <1>1, <2>1, PendingSame DEF shared
  <2>3. \A d \in Channels : Owed(d)' = Owed(d)
    BY <1>2, <2>1 DEF Owed
  <2>4. SignalOwed'
    BY <1>1, <1>2, <2>1, <2>2, <2>3 DEF Cooperative, SignalOwed
  <2>5. SendOwed'
    BY <1>1, <1>2, <2>1, <2>3 DEF Cooperative, SendOwed
  <2>6. ReadOwed'
    BY <1>1, <1>2, <1>3, <2>1, <2>3 DEF Cooperative, ReadOwed, Full
  <2>7. QED
    BY <2>4, <2>5, <2>6 DEF Cooperative
<1>4. CASE loop.got # <<>>
  <2>1. PICK ch \in Channel, new \in SUBSET {"READ", "INT"} :
             /\ chan' = [chan EXCEPT ![loop.chan] = ch]
             /\ callouts' = [callouts EXCEPT ![loop.chan] = @ \cup new \cup {"READ"}]
             /\ ip' \in SUBSET (Channels \X Sources) /\ ip \subseteq ip'
             /\ ip' = ip \/ "INT" \in new
             /\ ch.tx = chan[loop.chan].tx
    BY <1>4, ReadTakenIs
  <2>2. /\ \A d \in Channels : callouts[d] \subseteq callouts'[d] /\ chan'[d].tx = chan[d].tx
        /\ \A d \in Channels \ {loop.chan} : chan'[d] = chan[d]
        /\ new \cup {"READ"} \subseteq callouts'[loop.chan]
    BY <1>1, <2>1 DEF ChipIInv, ChipTypeOK
  <2>3. /\ \A d \in Channels : Owed(d) \subseteq Owed(d)'
        /\ new \cup {"READ"} \subseteq Owed(loop.chan)'
    BY <1>2, <2>2 DEF Owed
  <2>4. SignalOwed'
    <3>1. loop.int = "asserted" => Pending' # {}
      BY <1>1, <2>1, PendingStays DEF Cooperative, SignalOwed
    <3>2. CASE "INT" \in new
      BY <1>1, <1>2, <2>3, <3>1, <3>2 DEF SignalOwed
    <3>3. CASE ip' = ip
      <4>1. Pending' = Pending
        BY <1>1, <3>3, PendingSame DEF shared
      <4>2. QED
        BY <1>1, <1>2, <2>3, <4>1 DEF Cooperative, SignalOwed
    <3>4. QED
      BY <2>1, <3>2, <3>3
  <2>5. SendOwed'
    BY <1>1, <1>2, <2>2, <2>3 DEF Cooperative, SendOwed
  <2>6. ReadOwed'
    <3>1. "READ" \notin loop.later[loop.chan]
      BY <1>1 DEF Cooperative, ReadOwed
    <3>2. \A d \in Channels : "READ" \in loop'.later[d] => Full(d)'
      BY <1>2, <2>2, <3>1 DEF Cooperative, ReadOwed, Full
    <3>3. \A d \in Channels : line'[d].told => "READ" \in Owed(d)' \cup loop'.later[d]
      BY <1>1, <1>2, <2>3 DEF Cooperative, ReadOwed
    <3>4. QED
      BY <1>2, <3>2, <3>3 DEF ReadOwed
  <2>7. QED
    BY <2>4, <2>5, <2>6 DEF Cooperative
<1>5. QED
  BY <1>3, <1>4

LEMMA CheckIntOwes ==
  ASSUME ChipIInv, Cooperative, CheckInt
  PROVE  Cooperative'
<1> DEFINE int == IF loop.doing = {} THEN loop.int
                  ELSE IF Pending # {} THEN "asserted"
                  ELSE IF loop.int = "unknown" THEN "negated" ELSE loop.int
<1>1. /\ loop \in LoopType /\ loop.at = "do" /\ loop.doing \subseteq {"INT"}
      /\ loop' = [loop EXCEPT !.at = "turn", !.doing = {}, !.int = int]
      /\ UNCHANGED <<chan, callouts, shared, asserted, line>>
  BY DEF ChipIInv, ChipTypeOK, CheckInt, lineVars
<1>2. /\ int = loop.int \/ "INT" \in loop.doing
      /\ loop.doing # {} => int # "unknown" /\ (int = "asserted") = (Pending # {})
      /\ loop.doing = {} => int = loop.int
      /\ int = "asserted" => Pending # {}
  BY <1>1 DEF Cooperative, SignalOwed
<1> HIDE DEF int
<1>3. /\ loop'.at = "turn" /\ loop'.chan = loop.chan /\ loop'.doing = {}
      /\ loop'.later = loop.later /\ loop'.int = int
  BY <1>1 DEF LoopType
<1>4. Pending' = Pending
  BY <1>1, PendingSame
<1>5. SignalOwed'
  <2>1. CASE loop.doing = {}
    BY <1>1, <1>2, <1>3, <1>4, <2>1 DEF Cooperative, SignalOwed, Owed
  <2>2. CASE loop.doing # {}
    BY <1>1, <1>2, <1>3, <1>4, <2>2 DEF Cooperative, SignalOwed, Owed
  <2>3. QED
    BY <2>1, <2>2
<1>6. SendOwed'
  BY <1>1, <1>3 DEF Cooperative, SendOwed, Owed
<1>7. ReadOwed'
  BY <1>1, <1>3 DEF Cooperative, ReadOwed, Owed, Full
<1>8. QED
  BY <1>5, <1>6, <1>7 DEF Cooperative

LEMMA CallSignalOwes ==
  ASSUME ChipIInv, Cooperative, CallSignal
  PROVE  Cooperative'
<1>1. /\ loop \in LoopType /\ loop.at = "turn" /\ loop' = [loop EXCEPT !.at = "signal"]
      /\ loop.int # "unknown" /\ \A c \in Channels : callouts[c] = {}
      /\ UNCHANGED <<chan, callouts, shared, asserted, line>>
  BY DEF ChipIInv, ChipTypeOK, CallSignal, NoCallouts, Edge, Goes, lineVars
<1>2. /\ loop'.at = "signal" /\ loop'.chan = loop.chan /\ loop'.doing = loop.doing
      /\ loop'.later = loop.later /\ loop'.int = loop.int
  BY <1>1 DEF LoopType
<1>3. Pending' = Pending
  BY <1>1, PendingSame
<1>4. SignalOwed'
  BY <1>1, <1>2, <1>3 DEF Cooperative, SignalOwed, Owed
<1>5. SendOwed'
  BY <1>1, <1>2 DEF Cooperative, SendOwed, Owed
<1>6. ReadOwed'
  BY <1>1, <1>2 DEF Cooperative, ReadOwed, Owed, Full
<1>7. QED
  BY <1>4, <1>5, <1>6 DEF Cooperative

(* The end of the loop: what is for later is owed.                         *)
LEMMA EndsOwe ==
  ASSUME ChipIInv, ChipIInv', Cooperative,
         CalloutEnd \/ \E done \in BOOLEAN : SignalReturn(done)
  PROVE  Cooperative'
<1>1. /\ loop \in LoopType /\ loop.at \in {"turn", "signal"} /\ loop.doing = {}
      /\ loop' = Idle8530 /\ \A c \in Channels : callouts[c] = {}
      /\ UNCHANGED <<chan, shared, line>>
      /\ \A c \in Channels : loop.later[c] \subseteq {"READ"}
  BY DEF ChipIInv, ChipTypeOK, LoopShape, CalloutEnd, NoCallouts, SignalReturn, lineVars,
         Cooperative, SignalOwed
<1>2. \A c \in Channels : loop.later[c] \subseteq callouts'[c]
  BY DEF CalloutEnd, SignalReturn
<1>3. /\ loop'.at = "idle" /\ loop'.doing = {} /\ loop'.int = "unknown"
      /\ \A c \in Channels : loop'.later[c] = {}
  BY <1>1 DEF Idle8530
<1>4. Pending' = Pending
  BY <1>1, PendingSame
<1>5. \A c \in Channels : Owed(c) = {} /\ Owed(c)' = callouts'[c]
  BY <1>1, <1>3 DEF Owed
<1>6. "A" \in Channels
  BY DEF Channels
<1>7. SignalOwed'
  <2>1. CASE CalloutEnd
    <3>1. asserted' = asserted /\ (loop.int = "unknown" \/ asserted = (loop.int = "asserted"))
      BY <2>1 DEF CalloutEnd, Edge
    <3>2. asserted = (Pending # {})
      BY <1>5, <3>1 DEF Cooperative, SignalOwed
    <3>3. QED
      BY <1>3, <1>4, <3>1, <3>2 DEF SignalOwed
  <2>2. ASSUME NEW done \in BOOLEAN, SignalReturn(done) PROVE SignalOwed'
    <3>1. CASE done
      <4>1. asserted' = (loop.int = "asserted") /\ loop.int # "unknown"
        BY <2>2, <3>1 DEF SignalReturn, Cooperative, SignalOwed
      <4>2. asserted' = (Pending # {})
        BY <1>5, <4>1 DEF Cooperative, SignalOwed
      <4>3. QED
        BY <1>3, <1>4, <4>2 DEF SignalOwed
    <3>2. CASE ~done
      <4>1. "INT" \in callouts'["A"]
        BY <1>6, <2>2, <3>2 DEF SignalReturn
      <4>2. QED
        BY <1>3, <1>5, <1>6, <4>1 DEF SignalOwed
    <3>3. QED
      BY <3>1, <3>2
  <2>3. QED
    BY <2>1, <2>2
<1>8. SendOwed'
  BY <1>1, <1>3, <1>5 DEF Cooperative, SendOwed
<1>9. ReadOwed'
  <2>1. ASSUME NEW c \in Channels, line[c].told PROVE "READ" \in callouts'[c] /\ Full(c)
    BY <1>1, <1>2, <1>5, <2>1 DEF Cooperative, ReadOwed
  <2>2. QED
    BY <1>1, <1>3, <1>5, <2>1 DEF ReadOwed, Full
<1>10. QED
  BY <1>7, <1>8, <1>9 DEF Cooperative

-----------------------------------------------------------------------------
LEMMA InitCooperative == ChipInit => Cooperative
<1> SUFFICES ASSUME ChipInit PROVE Cooperative
  OBVIOUS
<1> DEFINE zero == [wr1 |-> 0, wr15 |-> 0, tx |-> 0, rx |-> <<>>, avail |-> 0, errors |-> 0,
                    latched |-> 0, raw |-> 0, diff |-> 0]
<1>1. /\ chan = [c \in Channels |-> Reset(zero)] /\ callouts = [c \in Channels |-> {}]
      /\ ip = {} /\ mie = FALSE /\ asserted = FALSE /\ loop = Idle8530
      /\ line = [c \in Channels |-> [data |-> <<>>, told |-> FALSE, offered |-> FALSE]]
  BY DEF ChipInit
<1>2. Reset(zero).tx = 0
  BY ResetFirst
<1> HIDE DEF zero
<1>3. /\ \A c \in Channels : chan[c].tx = 0 /\ line[c].told = FALSE
      /\ loop.at = "idle" /\ loop.int = "unknown" /\ \A c \in Channels : loop.later[c] = {}
  BY <1>1, <1>2 DEF Idle8530
<1>4. Pending = {}
  BY <1>1 DEF Pending
<1>5. SignalOwed
  BY <1>1, <1>3, <1>4 DEF SignalOwed
<1>6. SendOwed
  BY <1>3 DEF SendOwed
<1>7. ReadOwed
  BY <1>3 DEF ReadOwed
<1>8. QED
  BY <1>5, <1>6, <1>7 DEF Cooperative

LEMMA NextCooperative ==
  ASSUME ~PosixThreads, ChipIInv, ChipIInv', Cooperative, [ChipNext]_chipVars
  PROVE  Cooperative'
<1>1. CASE UNCHANGED chipVars
  BY <1>1 DEF chipVars, shared, lineVars, Cooperative, SignalOwed, SendOwed, ReadOwed, Owed, Full,
              Pending, Highest
<1>2. CASE Loop
  BY <1>2, TurnOwes, CallsOwe, ReadAnswerOwes, ReadTakenOwes, CheckIntOwes, CallSignalOwes,
     EndsOwe DEF Loop
<1>3. QED
  BY <1>1, <1>2, CpuOwes, LinesOwe DEF ChipNext

(* With cooperative threads, what is needed is owed in every run.          *)
THEOREM CooperativeInvariance ==
  ASSUME ~PosixThreads
  PROVE  ChipSpec => []Cooperative
<1>1. Cooperative /\ ChipIInv /\ ChipIInv' /\ [ChipNext]_chipVars => Cooperative'
  BY NextCooperative
<1>2. QED
  BY <1>1, InitCooperative, ChipInvariance, PTL DEF ChipSpec

(* With cooperative threads, the interrupt signal says what the registers  *)
(* say whenever the loop has returned with no interrupt callout left.      *)
THEOREM SignalTellsTruth ==
  ASSUME ~PosixThreads
  PROVE  ChipSpec => []SignalAgrees
<1>1. ChipIInv /\ Cooperative => SignalAgrees
  <2> SUFFICES ASSUME ChipIInv, Cooperative, loop.at = "idle",
                      \A c \in Channels : "INT" \notin callouts[c]
               PROVE  asserted = (Pending # {})
    BY DEF SignalAgrees
  <2>1. loop.doing = {} /\ loop.int = "unknown"
    BY DEF ChipIInv, LoopShape, Idle8530
  <2>2. QED
    BY <2>1 DEF Cooperative, SignalOwed, Owed
<1>2. QED
  BY <1>1, ChipInvariance, CooperativeInvariance, PTL

(* With cooperative threads, a line knows of the characters to be sent     *)
(* whenever the loop has returned with no control callout left.            *)
THEOREM CharactersOffered ==
  ASSUME ~PosixThreads
  PROVE  ChipSpec => []SendingOffered
<1>1. ChipIInv /\ Cooperative => SendingOffered
  <2> SUFFICES ASSUME ChipIInv, Cooperative, loop.at = "idle",
                      NEW c \in Channels, chan[c].tx > 0
               PROVE  line[c].offered \/ "CTRL" \in callouts[c]
    BY DEF SendingOffered
  <2>1. loop.doing = {}
    BY DEF ChipIInv, LoopShape
  <2>2. QED
    BY <2>1 DEF Cooperative, SendOwed, Owed
<1>2. QED
  BY <1>1, ChipInvariance, CooperativeInvariance, PTL

(* With cooperative threads, a line that told of characters is only left   *)
(* unread while the buffer is full, with the read put off.                 *)
THEOREM CharactersRead ==
  ASSUME ~PosixThreads
  PROVE  ChipSpec => []ReceivingOwed
<1>1. ChipIInv /\ Cooperative => ReceivingOwed
  <2> SUFFICES ASSUME ChipIInv, Cooperative, loop.at = "idle", NEW c \in Channels
               PROVE  /\ line[c].told => "READ" \in callouts[c] /\ Full(c)
                      /\ chan[c].rx # <<>> => chan[c].avail \/ c \in cleared
    BY DEF ReceivingOwed
  <2>1. loop.doing = {} /\ loop.later[c] = {}
    BY DEF ChipIInv, LoopShape, Idle8530
  <2>2. line[c].told => "READ" \in callouts[c] /\ Full(c)
    BY <2>1 DEF Cooperative, ReadOwed, Owed
  <2>3. QED
    BY <2>2 DEF ChipIInv, Received
<1>2. QED
  BY <1>1, ChipInvariance, CooperativeInvariance, PTL
=============================================================================
