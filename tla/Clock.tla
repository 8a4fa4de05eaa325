-------------------------------- MODULE Clock -------------------------------
(***************************************************************************)
(* cmostime() of lapic.c: the date is read from the clock chip register by *)
(* register, while the chip goes on counting.  The chip announces an       *)
(* update (CMOS_UIP), changes its registers one after the other and then   *)
(* takes the announcement back.                                            *)
(***************************************************************************)
EXTENDS Naturals, Sequences

CONSTANTS Radix,   \* how far each register counts, the fastest one first
          IsBcd,   \* whether status register B says that they are in BCD
          MaxTicks \* bound: how often the clock ticks while it is read twice

\* Two readings take less time than the clock needs to turn any register round.
ASSUME ClockAssumption ==
  /\ Radix \in Seq(Nat \ {0, 1}) /\ Len(Radix) > 0 /\ IsBcd \in BOOLEAN /\ MaxTicks \in Nat
  /\ \A r \in 1 .. Len(Radix) : MaxTicks < Radix[r]

VARIABLES rtc,    \* the registers, as the chip encodes them
          now,    \* the time they show when no update is going on
          uip,    \* the register that the update changes next, 0 if none is announced
          clkAt,  \* where cmostime is: what it does next, and the register it reads
          t1, t2, \* the structures it fills
          past    \* the instants since it began to fill t1

clockVars == <<rtc, now, uip, clkAt, t1, t2, past>>

Reg == 1 .. Len(Radix)
Encode(n) == IF IsBcd THEN 16 * (n \div 10) + (n % 10) ELSE n

\* The next instant: a register counts when all faster ones are at their last value.
Later ==
  [r \in Reg |-> IF \A q \in 1 .. r - 1 : now[q] = Radix[q] - 1 THEN (now[r] + 1) % Radix[r] ELSE now[r]]

ClockInit ==
  /\ now = [r \in Reg |-> Radix[r] - 2] /\ rtc = [r \in Reg |-> Encode(now[r])]
  /\ uip = 0 /\ clkAt = <<"idle", 0>> /\ t1 = <<>> /\ t2 = <<>> /\ past = <<now>>

-----------------------------------------------------------------------------
(***************************************************************************)
(* The chip.                                                               *)
(***************************************************************************)
Announce ==
  /\ uip = 0 /\ Len(past) <= MaxTicks
  /\ uip' = 1
  /\ UNCHANGED <<rtc, now, clkAt, t1, t2, past>>

Update ==
  /\ uip \in Reg
  /\ rtc' = [rtc EXCEPT ![uip] = Encode(Later[uip])]
  /\ uip' = uip + 1
  /\ UNCHANGED <<now, clkAt, t1, t2, past>>

Updated ==
  /\ uip > Len(Radix)
  /\ uip' = 0 /\ now' = Later
  /\ past' = IF clkAt[1] = "idle" THEN <<Later>> ELSE Append(past, Later)
  /\ UNCHANGED <<rtc, clkAt, t1, t2>>

-----------------------------------------------------------------------------
(***************************************************************************)
(* cmostime().                                                             *)
(***************************************************************************)
\* The loop from the start.
Again == clkAt' = <<"t1", 1>> /\ t1' = <<>> /\ t2' = <<>> /\ past' = <<now>>

Cmostime == clkAt[1] = "idle" /\ Again /\ UNCHANGED <<rtc, now, uip>>

\* fill_rtcdate(&t1) and fill_rtcdate(&t2), a cmos_read() at a time.
FillT1 ==
  /\ clkAt[1] = "t1"
  /\ t1' = Append(t1, rtc[clkAt[2]])
  /\ clkAt' = IF clkAt[2] = Len(Radix) THEN <<"uip", 0>> ELSE <<"t1", clkAt[2] + 1>>
  /\ UNCHANGED <<rtc, now, uip, t2, past>>

\* Fault: the update in progress is not tested.
TestUipFault ==
  /\ clkAt[1] = "uip"
  /\ clkAt' = <<"t2", 1>> /\ UNCHANGED <<t1, t2, past>>
  /\ UNCHANGED <<rtc, now, uip>>

TestUip ==
  /\ clkAt[1] = "uip"
  /\ IF uip # 0 THEN Again ELSE clkAt' = <<"t2", 1>> /\ UNCHANGED <<t1, t2, past>>
  /\ UNCHANGED <<rtc, now, uip>>

FillT2 ==
  /\ clkAt[1] = "t2"
  /\ t2' = Append(t2, rtc[clkAt[2]])
  /\ clkAt' = IF clkAt[2] = Len(Radix) THEN <<"cmp", 0>> ELSE <<"t2", clkAt[2] + 1>>
  /\ UNCHANGED <<rtc, now, uip, t1, past>>

Compare ==
  /\ clkAt[1] = "cmp"
  /\ IF t1 = t2 THEN clkAt' = <<"conv", 0>> /\ UNCHANGED <<t1, t2, past>> ELSE Again
  /\ UNCHANGED <<rtc, now, uip>>

\* CONV
Conv(x) == IF IsBcd THEN (x \div 16) * 10 + (x % 16) ELSE x

\* The conversion, after which the caller has the date.
Convert ==
  /\ clkAt[1] = "conv"
  /\ t1' = [r \in Reg |-> Conv(t1[r])] /\ clkAt' = <<"done", 0>>
  /\ UNCHANGED <<rtc, now, uip, t2, past>>

Return ==
  /\ clkAt[1] = "done"
  /\ clkAt' = <<"idle", 0>> /\ t1' = <<>> /\ t2' = <<>> /\ past' = <<now>>
  /\ UNCHANGED <<rtc, now, uip>>

ClockNext == Announce \/ Update \/ Updated \/ Cmostime \/ FillT1 \/ TestUip \/ FillT2 \/ Compare \/ Convert \/ Return

ClockSpec == ClockInit /\ [][ClockNext]_clockVars

-----------------------------------------------------------------------------
(***************************************************************************)
(* Properties.                                                             *)
(***************************************************************************)
\* The date that cmostime() returns was the time at some instant while it was
\* read, though the chip may count and change its registers between any two
\* reads: neither a mixture of two instants nor of an update half done.
RealInstant == clkAt[1] = "done" => \E i \in DOMAIN past : past[i] = t1
=============================================================================
