------------------------------- MODULE Z8530 -------------------------------
(***************************************************************************)
(* The z8530 serial chip, ic/z8530.c: two channels that share an interrupt *)
(* line and one callout loop.                                              *)
(*                                                                         *)
(* The CPU writes and reads registers, the lines at the other end of the   *)
(* channels call the chip with changes of their state and take what is to  *)
(* be sent, and the callout loop calls the lines and the bus with the      *)
(* mutex unlocked.                                                         *)
(*                                                                         *)
(* PosixThreads is TRUE for TME_THREADS_POSIX.  Otherwise the loop is only *)
(* interrupted by the line it is calling, which calls back.                *)
(*                                                                         *)
(* Characters are good ones or have one of the errors of Errors; what is   *)
(* sent is counted.  CTS and DCD are one thing, LINE.  A register's number *)
(* and its value are written in one step.  The interrupt vector, and the   *)
(* registers that do nothing but be read again, are left out.              *)
(***************************************************************************)
EXTENDS Integers, Sequences, FiniteSets

CONSTANTS TxRoom, RxRoom,  \* of the buffers of a channel
          MaxData,         \* characters that wait in a line
          Errors,          \* among FRAME, OVERRUN, PARITY
          Wr1,             \* for each channel, what is written to WR1
          Wr15,            \* and to WR15
          Roles,           \* what the channels may be used for
          PosixThreads

Channels == {"A", "B"}
Sources == {"STATUS", "TX", "RX"}
Status == {"LINE", "BREAK"}
Callouts == {"CTRL", "CONFIG", "READ", "INT"}

Wr1Values == [tx: BOOLEAN, rx: {"DISABLE", "1ST", "ALL", "SPCL"}, status: BOOLEAN,
              parity: BOOLEAN]

ASSUME ChipAssumption ==
    /\ TxRoom \in Nat \ {0} /\ RxRoom \in Nat \ {0} /\ PosixThreads \in BOOLEAN
    /\ \A c \in Channels : Wr1[c] \subseteq Wr1Values
    /\ Wr15 \subseteq SUBSET Status

VARIABLES
    chan,      \* the registers and buffers of each channel
    callouts,  \* tme_z8530_chan_callout_flags
    ip, ius,   \* RR3 and the IUS bits
    mie,       \* the Master Interrupt Enable
    asserted,  \* tme_z8530_int_asserted
    loop,      \* where _tme_z8530_callout is, and its locals
    line,      \* the other ends: characters to be read, whether the chip
               \* was told of them, and whether the chip offers characters
    role,      \* the channels the CPU sends on, that receive, and whose
               \* lines change their state
    unseen,    \* channels with a break that is due to be shown to the CPU
               \* and came since RR3 was last cleared
    cleared    \* channels that were reset with characters in their buffer

shared == <<ip, ius, mie>>
lineVars == <<line, unseen, cleared>>
chipVars == <<chan, callouts, shared, asserted, loop, lineVars, role>>

Characters == {"GOOD"} \cup Errors

Channel == [wr1: Wr1Values, wr15: SUBSET Status, tx: 0 .. TxRoom, rx: Seq(Characters),
            avail: BOOLEAN, errors: SUBSET Errors,
            latched: SUBSET Status, raw: SUBSET Status, diff: SUBSET Status]

EndOfLine == [data: Seq(Characters), told: BOOLEAN, offered: BOOLEAN]

LoopType == [at: {"idle", "turn", "do", "ctrl", "called", "read", "answered", "signal"},
             chan: Channels, doing: SUBSET Callouts, later: [Channels -> SUBSET Callouts],
             int: {"unknown", "asserted", "negated"}, sent: BOOLEAN, got: Seq(Characters)]

Idle8530 == [at |-> "idle", chan |-> "A", doing |-> {}, later |-> [c \in Channels |-> {}],
             int |-> "unknown", sent |-> FALSE, got |-> <<>>]

(* The registers after a reset: no interrupts are enabled but those of     *)
(* WR15, which need WR1 too.  The buffers are left as they are.            *)
Reset(ch) ==
    [ch EXCEPT !.wr1 = [tx |-> FALSE, rx |-> "DISABLE", status |-> FALSE, parity |-> FALSE],
               !.wr15 = Status, !.avail = FALSE, !.errors = {},
               !.latched = {}, !.raw = {}, !.diff = {}]

ChipInit ==
    /\ chan = [c \in Channels |->
          Reset([wr1 |-> 0, wr15 |-> 0, tx |-> 0, rx |-> <<>>, avail |-> 0, errors |-> 0,
                 latched |-> 0, raw |-> 0, diff |-> 0])]
    /\ callouts = [c \in Channels |-> {}]
    /\ ip = {} /\ ius = {} /\ mie = FALSE /\ asserted = FALSE
    /\ loop = Idle8530
    /\ line = [c \in Channels |-> [data |-> <<>>, told |-> FALSE, offered |-> FALSE]]
    /\ role \in Roles
    /\ unseen = {} /\ cleared = {}

-----------------------------------------------------------------------------
(* Interrupts.                                                             *)

(* The value of a bit of RR3 among the others.                             *)
Priority(bit) ==
    (IF bit[1] = "A" THEN 3 ELSE 0)
    + (CASE bit[2] = "STATUS" -> 1 [] bit[2] = "TX" -> 2 [] bit[2] = "RX" -> 3)

Highest(bits) == {b \in bits : \A other \in bits : Priority(other) <= Priority(b)}

(* The highest interrupt pending, if it is above those under service and   *)
(* interrupts are enabled.                                                 *)
Pending == {b \in Highest(ip) : mie /\ \A s \in ius : Priority(s) < Priority(b)}

(* The bit becomes b; an interrupt callout is needed if that is a change.  *)
With(bits, bit, b) == IF b THEN bits \cup {bit} ELSE bits \ {bit}
IntIf(condition) == IF condition THEN {"INT"} ELSE {}

-----------------------------------------------------------------------------
(* The end of every call of the chip: the callouts are added, and whoever  *)
(* finds the loop not running runs it.  The mutex stays locked then.       *)

Unlocked == loop.at \in {"idle", "ctrl", "called", "read", "answered", "signal"}
LoopRuns == loop.at # "idle"

CallOut(c, new) ==
    /\ callouts' = [callouts EXCEPT ![c] = @ \cup new]
    /\ loop' = IF LoopRuns THEN loop ELSE [Idle8530 EXCEPT !.at = "turn"]
    /\ UNCHANGED asserted

(* The CPU is a thread of its own, or runs when nothing else does.         *)
CpuRuns == IF PosixThreads THEN Unlocked ELSE ~LoopRuns

(* A line calls from its own threads, or in answer to a call.              *)
LineRuns(c) ==
    IF PosixThreads THEN Unlocked
    ELSE ~LoopRuns \/ (loop.at \in {"ctrl", "called", "read", "answered"} /\ loop.chan = c)

-----------------------------------------------------------------------------
(* The receive FIFO, in front of the receive buffer.                       *)

Special(ch) == ch.avail /\ ch.errors \ (IF ch.wr1.parity THEN {} ELSE {"PARITY"}) # {}
Hold(ch) == Special(ch) /\ ch.wr1.rx \in {"1ST", "SPCL"}

(* Whether a character just put in the FIFO interrupts: the FIFO's flag    *)
(* still says what it said before.                                         *)
Interrupts(ch) ==
    CASE ch.wr1.rx = "DISABLE" -> FALSE
      [] ch.wr1.rx = "1ST"     -> ~ch.avail \/ Special(ch)
      [] ch.wr1.rx = "ALL"     -> TRUE
      [] ch.wr1.rx = "SPCL"    -> Special(ch)

(* A full buffer put off reading the line.                                 *)
WasFull(ch) == IF Len(ch.rx) = RxRoom THEN {"READ"} ELSE {}

(* What _tme_z8530_rx_fifo_refill leaves: the channel, its interrupt, and  *)
(* callouts.                                                               *)
Refilled(c, ch, bits) ==
    LET errors == IF Head(ch.rx) = "GOOD" THEN ch.errors \ {"FRAME"}
                  ELSE (ch.errors \ {"FRAME"}) \cup {Head(ch.rx)}
        next == [ch EXCEPT !.rx = Tail(@), !.errors = errors]
        set == ch.rx # <<>> /\ Interrupts(next)
    IN  IF Hold(ch) THEN [chan |-> ch, ip |-> bits, new |-> {}]
        ELSE [chan |-> IF ch.rx = <<>> THEN [ch EXCEPT !.avail = FALSE]
                       ELSE [next EXCEPT !.avail = TRUE],
              ip |-> With(bits, <<c, "RX">>, set),
              new |-> WasFull(ch) \cup IntIf(set # (<<c, "RX">> \in bits))]

(* A call that refills the FIFO of channel c, with registers ch.           *)
Refill(c, ch) ==
    LET r == Refilled(c, ch, ip)
    IN  /\ chan' = [chan EXCEPT ![c] = r.chan] /\ ip' = r.ip
        /\ cleared' = IF r.chan.avail \/ r.chan.rx = <<>> THEN cleared \ {c} ELSE cleared
        /\ CallOut(c, r.new)

-----------------------------------------------------------------------------
(* The status bits in RR0, latched while their interrupt is pending.       *)

(* Mutant: a break that has come and gone is forgotten.                    *)
ShownLast(ch) == ch.raw

(* What RR0 is to show: if a break has come and gone, that it came.        *)
Shown(ch) ==
    IF /\ ch.wr1.status /\ "BREAK" \in ch.wr15 \cap ch.diff
       /\ ("BREAK" \in ch.raw) = ("BREAK" \in ch.latched)
    THEN (ch.raw \cup {"BREAK"}) \ (ch.raw \cap {"BREAK"})
    ELSE ch.raw

(* _tme_z8530_rr0_update, of registers ch with interrupts bits.            *)
Updated(c, ch, bits) ==
    IF <<c, "STATUS">> \in bits THEN [chan |-> ch, ip |-> bits, new |-> {}]
    ELSE LET need == ch.wr1.status /\ ch.wr15 \cap ch.diff # {}
             shown == Shown(ch)
         IN  [chan |-> [ch EXCEPT !.latched = (@ \ ch.diff) \cup (shown \cap ch.diff),
                                  !.diff = (shown \ ch.raw) \cup (ch.raw \ shown)],
              ip |-> With(bits, <<c, "STATUS">>, need),
              new |-> IntIf(need)]

(* The breaks the CPU asked for that are due to be shown, after a call     *)
(* that leaves the registers ch.  One that came while RR0 showed none is   *)
(* due until RR0 shows it; several that come and go before are shown as    *)
(* one.  One that came while RR0 still showed the last one is due as long  *)
(* as it is on, and if it is on when RR0 has shown the end of the last     *)
(* one, until it is shown; if it ends before that, the chip shows the end  *)
(* of the last one only, and it is lost.                                   *)
StillUnseen(c, ch, came) ==
    LET asks == ch.wr1.status /\ "BREAK" \in ch.wr15
        again == "BREAK" \in chan[c].latched /\ "BREAK" \in ch.raw
    IN  IF asks /\ ("BREAK" \notin ch.latched \/ again) /\ (came \/ c \in unseen)
        THEN unseen \cup {c} ELSE unseen \ {c}

-----------------------------------------------------------------------------
(* The CPU: writes of the registers, with their commands, a read of RR8,   *)
(* and the acknowledgement of an interrupt.                                *)

ResetStatus(c) ==
    LET bit == <<c, "STATUS">>
        u == Updated(c, chan[c], ip \ {bit})
    IN  /\ chan' = [chan EXCEPT ![c] = u.chan] /\ ip' = u.ip
        /\ unseen' = StillUnseen(c, u.chan, FALSE)
        /\ CallOut(c, IntIf(bit \in ip) \cup u.new)
        /\ UNCHANGED <<ius, mie, line, cleared>>

ResetError(c) ==
    /\ Refill(c, [chan[c] EXCEPT !.errors = {}])
    /\ UNCHANGED <<ius, mie, line, unseen>>

ResetIus(c) ==
    /\ ius' = ius \ Highest(ius)
    /\ CallOut(c, {"INT"})
    /\ UNCHANGED <<chan, ip, mie, lineVars>>

ResetTx(c) ==
    LET bit == <<c, "TX">>
    IN  /\ ip' = ip \ {bit}
        /\ CallOut(c, IntIf(bit \in ip))
        /\ UNCHANGED <<chan, ius, mie, lineVars>>

IntNextRx(c) ==
    /\ ip' = IF chan[c].avail THEN ip \cup {<<c, "RX">>} ELSE ip
    /\ CallOut(c, IntIf(chan[c].avail))
    /\ UNCHANGED <<chan, ius, mie, lineVars>>

(* Mutant: transmit interrupts are disabled without a callout.             *)
WriteWr1Silently(c, v) ==
    /\ chan' = [chan EXCEPT ![c].wr1 = v]
    /\ ip' = IF v.tx THEN ip ELSE ip \ {<<c, "TX">>}
    /\ unseen' = StillUnseen(c, chan'[c], FALSE)
    /\ CallOut(c, {})
    /\ UNCHANGED <<ius, mie, line, cleared>>

WriteWr1(c, v) ==
    LET bit == <<c, "TX">>
    IN  /\ chan' = [chan EXCEPT ![c].wr1 = v]
        /\ ip' = IF v.tx THEN ip ELSE ip \ {bit}
        /\ unseen' = StillUnseen(c, chan'[c], FALSE)
        /\ CallOut(c, IntIf(~v.tx /\ bit \in ip))
        /\ UNCHANGED <<ius, mie, line, cleared>>

(* WR5, and WR3, WR4 and WR11 to WR14.                                     *)
WriteWr5(c) == CallOut(c, {"CTRL", "CONFIG"}) /\ UNCHANGED <<chan, shared, lineVars>>
WriteConfig(c) == CallOut(c, {"CONFIG"}) /\ UNCHANGED <<chan, shared, lineVars>>

WriteWr15(c, v) ==
    /\ chan' = [chan EXCEPT ![c].wr15 = v]
    /\ unseen' = StillUnseen(c, chan'[c], FALSE)
    /\ CallOut(c, {})
    /\ UNCHANGED <<shared, line, cleared>>

(* Mutant: whether the buffer was empty is asked after the copy.           *)
WriteWr8Unasked(c) ==
    /\ chan' = [chan EXCEPT ![c].tx = IF @ < TxRoom THEN @ + 1 ELSE @]
    /\ CallOut(c, {})
    /\ UNCHANGED <<shared, lineVars>>

(* Mutant: a character is put into a full buffer.                          *)
WriteWr8Unchecked(c) ==
    LET empty == chan[c].tx = 0
        bit == <<c, "TX">>
    IN  /\ chan' = [chan EXCEPT ![c].tx = @ + 1]
        /\ ip' = IF empty THEN ip \ {bit} ELSE ip
        /\ CallOut(c, IF empty THEN IntIf(bit \in ip) \cup {"CTRL"} ELSE {})
        /\ UNCHANGED <<ius, mie, lineVars>>

(* WR8, the only write that sends.                                         *)
WriteWr8(c) ==
    LET empty == chan[c].tx = 0
        bit == <<c, "TX">>
    IN  /\ chan' = [chan EXCEPT ![c].tx = IF @ < TxRoom THEN @ + 1 ELSE @]
        /\ ip' = IF empty THEN ip \ {bit} ELSE ip
        /\ CallOut(c, IF empty THEN IntIf(bit \in ip) \cup {"CTRL"} ELSE {})
        /\ UNCHANGED <<ius, mie, lineVars>>

(* WR9: a reset of some channels, all of them for the chip, and interrupts *)
(* enabled or not.  Any reset clears the whole of RR3, the reset of the    *)
(* chip also the IUS bits.                                                 *)
WriteWr9(c, resets, enable) ==
    /\ chan' = [d \in Channels |-> IF d \in resets THEN Reset(chan[d]) ELSE chan[d]]
    /\ ip' = IF resets = {} THEN ip ELSE {}
    /\ ius' = IF resets = Channels THEN {} ELSE ius
    /\ mie' = enable
    /\ unseen' = IF resets = {} THEN unseen ELSE {}
    /\ cleared' = cleared \cup {d \in resets : chan[d].rx # <<>>}
    /\ CallOut(c, {"INT"})
    /\ UNCHANGED line

ReadData(c) == Refill(c, chan[c]) /\ UNCHANGED <<ius, mie, line, unseen>>

(* With the IEI pin high; nothing may be pending any more.                 *)
IntAck ==
    /\ ius' = ius \cup Pending
    /\ CallOut("A", {"INT"})
    /\ UNCHANGED <<chan, ip, mie, lineVars>>

-----------------------------------------------------------------------------
(* The lines.                                                              *)

(* _tme_z8530_ctrl.  A break is not aggregated with what follows it.       *)
CtrlIn(c, bits, readable) ==
    LET ch == chan[c]
        changed == ((ch.latched \ bits) \cup (bits \ ch.latched)) \cup (ch.diff \cap {"BREAK"})
        u == Updated(c, [ch EXCEPT !.raw = bits, !.diff = changed], ip)
    IN  /\ chan' = [chan EXCEPT ![c] = u.chan] /\ ip' = u.ip
        /\ unseen' = StillUnseen(c, u.chan, "BREAK" \in bits \ ch.raw)
        /\ CallOut(c, u.new \cup IF readable THEN {"READ"} ELSE {})

LineChanges(c, bits) ==
    /\ bits # chan[c].raw
    /\ CtrlIn(c, bits, FALSE)
    /\ UNCHANGED <<ius, mie, line, cleared>>

(* A character arrives; the line says so, unless it has and the chip has   *)
(* not yet read too much.                                                  *)
LineReceives(c, char) ==
    /\ Len(line[c].data) < MaxData
    /\ line' = [line EXCEPT ![c].data = Append(@, char), ![c].told = TRUE]
    /\ IF line[c].told THEN UNCHANGED <<chan, callouts, ip, asserted, loop, unseen>>
       ELSE CtrlIn(c, chan[c].raw, TRUE)
    /\ UNCHANGED <<ius, mie, cleared>>

(* _tme_z8530_read, for a line that was offered characters: it takes up    *)
(* to n, and an empty answer ends the offer.                               *)
ReadIn(c, n) ==
    LET left == IF chan[c].tx > n THEN chan[c].tx - n ELSE 0
        bit == <<c, "TX">>
        set == left = 0 /\ chan[c].wr1.tx
    IN  /\ chan' = [chan EXCEPT ![c].tx = left]
        /\ ip' = IF set THEN ip \cup {bit} ELSE ip
        /\ CallOut(c, IntIf(set /\ bit \notin ip) \cup IF left = 0 THEN {"CTRL"} ELSE {})
        /\ line' = [line EXCEPT ![c].offered = chan[c].tx > 0]
        /\ UNCHANGED <<ius, mie, unseen, cleared>>

-----------------------------------------------------------------------------
(* _tme_z8530_callout.  At "turn" and "do" the mutex is locked.            *)

Goes(from, to) == loop.at = from /\ loop' = [loop EXCEPT !.at = to]

(* A turn is for channel A if it needs any callout.                        *)
Turn(c) ==
    /\ loop.at = "turn" /\ callouts[c] # {} /\ (c = "B" => callouts["A"] = {})
    /\ loop' = [loop EXCEPT !.at = "do", !.chan = c, !.doing = callouts[c]]
    /\ callouts' = [callouts EXCEPT ![c] = {}]
    /\ UNCHANGED <<chan, shared, asserted, lineVars>>

(* The call of what is called out first, and its return.  No line, but     *)
(* for the WIN32 device, fails one, so that they are never for later.      *)
CallCtrl ==
    /\ loop.at = "do" /\ "CTRL" \in loop.doing
    /\ loop' = [loop EXCEPT !.at = "ctrl", !.doing = @ \ {"CTRL"},
                            !.sent = chan[loop.chan].tx > 0]
    /\ UNCHANGED <<chan, callouts, shared, asserted, lineVars>>

(* The line takes the new control value.                                   *)
CtrlTaken ==
    /\ Goes("ctrl", "called") /\ line' = [line EXCEPT ![loop.chan].offered = loop.sent]
    /\ UNCHANGED <<chan, callouts, shared, asserted, unseen, cleared>>

CallConfig ==
    /\ loop.at = "do" /\ loop.doing \cap {"CTRL", "CONFIG"} = {"CONFIG"}
    /\ loop' = [loop EXCEPT !.at = "called", !.doing = @ \ {"CONFIG"}]
    /\ UNCHANGED <<chan, callouts, shared, asserted, lineVars>>

CallReturn ==
    /\ Goes("called", "do")
    /\ UNCHANGED <<chan, callouts, shared, asserted, lineVars>>

Reads == loop.at = "do" /\ loop.doing \cap {"CTRL", "CONFIG", "READ"} = {"READ"}
Full(c) == Len(chan[c].rx) = RxRoom

(* Mutant: a read that finds the buffer full is forgotten.                 *)
ReadLaterNever ==
    /\ Reads /\ Full(loop.chan)
    /\ loop' = [loop EXCEPT !.doing = @ \ {"READ"}]
    /\ UNCHANGED <<chan, callouts, shared, asserted, lineVars>>

ReadLater ==
    /\ Reads /\ Full(loop.chan)
    /\ loop' = [loop EXCEPT !.doing = @ \ {"READ"}, !.later[loop.chan] = @ \cup {"READ"}]
    /\ UNCHANGED <<chan, callouts, shared, asserted, lineVars>>

CallRead ==
    /\ Reads /\ ~Full(loop.chan)
    /\ loop' = [loop EXCEPT !.at = "read", !.doing = @ \ {"READ"}]
    /\ UNCHANGED <<chan, callouts, shared, asserted, lineVars>>

(* The line answers with what it has, up to the room there was; characters *)
(* of one kind at a time.  An empty answer makes it forget that it told.   *)
ReadAnswer ==
    LET c == loop.chan
        data == line[c].data
        room == RxRoom - Len(chan[c].rx)
    IN  /\ loop.at = "read"
        /\ \E n \in 0 .. room :
              /\ n = 0 <=> data = <<>>
              /\ n <= Len(data) /\ \A i \in 1 .. n : data[i] = data[1]
              /\ n < Len(data) /\ n < room => data[n + 1] # data[1]
              /\ loop' = [loop EXCEPT !.at = "answered", !.got = SubSeq(data, 1, n)]
              /\ line' = [line EXCEPT ![c].data = SubSeq(@, n + 1, Len(@)), ![c].told = n > 0]
        /\ UNCHANGED <<chan, callouts, shared, asserted, unseen, cleared>>

ReadTaken ==
    LET c == loop.chan
        ch == [chan[c] EXCEPT !.rx = @ \o loop.got]
        r == IF ch.avail THEN [chan |-> ch, ip |-> ip, new |-> {}] ELSE Refilled(c, ch, ip)
    IN  /\ loop.at = "answered" /\ loop' = [loop EXCEPT !.at = "do", !.got = <<>>]
        /\ IF loop.got = <<>> THEN UNCHANGED <<chan, ip, callouts, cleared>>
           ELSE /\ chan' = [chan EXCEPT ![c] = r.chan] /\ ip' = r.ip
                /\ callouts' = [callouts EXCEPT ![c] = @ \cup r.new \cup {"READ"}]
                /\ cleared' = IF r.chan.avail THEN cleared \ {c} ELSE cleared
        /\ UNCHANGED <<ius, mie, asserted, line, unseen>>

(* The last of a turn: whether to assert the interrupt signal.             *)
CheckInt ==
    /\ loop.at = "do" /\ loop.doing \subseteq {"INT"}
    /\ loop' = [loop EXCEPT !.at = "turn", !.doing = {},
                  !.int = IF loop.doing = {} THEN @
                          ELSE IF Pending # {} THEN "asserted"
                          ELSE IF @ = "unknown" THEN "negated" ELSE @]
    /\ UNCHANGED <<chan, callouts, shared, asserted, lineVars>>

NoCallouts == loop.at = "turn" /\ \A c \in Channels : callouts[c] = {}
Edge == loop.int # "unknown" /\ asserted # (loop.int = "asserted")

CallSignal ==
    /\ NoCallouts /\ Edge /\ Goes("turn", "signal")
    /\ UNCHANGED <<chan, callouts, shared, asserted, lineVars>>

(* The end: what is for later becomes what is needed, and replaces it.     *)
CalloutEnd ==
    /\ NoCallouts /\ ~Edge
    /\ callouts' = loop.later /\ loop' = Idle8530
    /\ UNCHANGED <<chan, shared, asserted, lineVars>>

SignalReturn(done) ==
    /\ loop.at = "signal" /\ loop' = Idle8530
    /\ asserted' = IF done THEN loop.int = "asserted" ELSE asserted
    /\ callouts' = [c \in Channels |-> loop.later[c] \cup IF done THEN {} ELSE {"INT"}]
    /\ UNCHANGED <<chan, shared, lineVars>>

-----------------------------------------------------------------------------
Cpu ==
    /\ CpuRuns
    /\ \/ \E c \in Channels :
             \/ ResetIus(c) \/ WriteConfig(c)
             \/ c \in role.watches /\ (ResetStatus(c) \/ \E v \in Wr15 : WriteWr15(c, v))
             \/ c \in role.receives /\ (ResetError(c) \/ IntNextRx(c) \/ ReadData(c))
             \/ c \in role.sends /\ (ResetTx(c) \/ WriteWr5(c) \/ WriteWr8(c))
             \/ /\ c \in role.sends \cup role.receives \cup role.watches
                /\ \E v \in Wr1[c] : WriteWr1(c, v)
             \/ \E resets \in {{}, {c}, Channels}, enable \in BOOLEAN :
                   WriteWr9(c, resets, enable)
       \/ IntAck

Lines ==
    \E c \in Channels :
        /\ LineRuns(c)
        /\ \/ c \in role.watches /\ \E bits \in SUBSET Status : LineChanges(c, bits)
           \/ c \in role.receives /\ \E char \in Characters : LineReceives(c, char)
           \/ c \in role.sends /\ line[c].offered /\ \E n \in 1 .. TxRoom : ReadIn(c, n)

Loop ==
    \/ \E c \in Channels : Turn(c)
    \/ CallCtrl \/ CtrlTaken \/ CallConfig \/ CallReturn
    \/ ReadLater \/ CallRead \/ ReadAnswer \/ ReadTaken
    \/ CheckInt \/ CallSignal \/ CalloutEnd \/ \E done \in BOOLEAN : SignalReturn(done)

ChipNext == (Cpu \/ Lines \/ Loop) /\ UNCHANGED role

ChipSpec == ChipInit /\ [][ChipNext]_chipVars

-----------------------------------------------------------------------------
(* The types; and the receive buffer never takes more than it has room     *)
(* for, although the room is measured before the mutex is unlocked.        *)
ChipTypeOK ==
    /\ chan \in [Channels -> Channel] /\ \A c \in Channels : Len(chan[c].rx) <= RxRoom
    /\ callouts \in [Channels -> SUBSET Callouts]
    /\ ip \subseteq Channels \X Sources /\ ius \subseteq Channels \X Sources
    /\ mie \in BOOLEAN /\ asserted \in BOOLEAN
    /\ loop \in LoopType /\ line \in [Channels -> EndOfLine]
    /\ unseen \subseteq Channels /\ cleared \subseteq Channels

(* When the callouts are done and none is put off, the interrupt signal    *)
(* says what the registers say, whatever was changed while it was worked   *)
(* out, and whatever is under service.                                     *)
SignalAgrees ==
    (loop.at = "idle" /\ \A c \in Channels : "INT" \notin callouts[c]) =>
        asserted = (Pending # {})

(* When the callouts are done, a line whose channel has characters to send *)
(* knows of them: no character waits for ever because a callout was left   *)
(* to a loop that did not make it, "the other thread will do our work".    *)
SendingOffered ==
    loop.at = "idle" =>
        \A c \in Channels :
            chan[c].tx > 0 => line[c].offered \/ "CTRL" \in callouts[c]

(* When the callouts are done, characters that the line has told of are    *)
(* only left there while the receive buffer is full, with the read put     *)
(* off; and that buffer waits for nothing but the CPU, if not for a reset. *)
ReceivingOwed ==
    loop.at = "idle" =>
        \A c \in Channels :
            /\ line[c].told => "READ" \in callouts[c] /\ Full(c)
            /\ chan[c].rx # <<>> => chan[c].avail \/ c \in cleared

(* While a break that the CPU asked for is due, a status interrupt is      *)
(* pending, so that acknowledging leads to it: a break that came while RR0 *)
(* showed none, however many changes came after; and one that came before  *)
(* the CPU acknowledged the last one, unless it ended before that too.     *)
(* Those that end are the limit of "at least two transitions happened in   *)
(* between": the chip makes up for two changes, not for three.             *)
BreaksShown == \A c \in unseen : <<c, "STATUS">> \in ip
=============================================================================
