------------------------------ MODULE Interrupts ------------------------------
(***************************************************************************)
(* The interrupt hardware as the MP3 kernel drives it: the two 8259s        *)
(* (i8259.c), the periodic interrupt of the RTC (rtc.c) and the CPU's       *)
(* interrupt flag.  IRQ 1 is the keyboard's and IRQ 8 the RTC's, which      *)
(* comes through the slave and IRQ 2 of the master; a lower number has      *)
(* priority, and a level in service blocks itself and those below it until  *)
(* its end of interrupt (EOI).                                              *)
(***************************************************************************)
EXTENDS Integers, FiniteSets

KEYBOARD_IRQ_NUM == 1
IRQ_SECONDARY    == 2
RTC_IRQ          == 8
IRQ_PRIM_NUM     == 8

Devices == {KEYBOARD_IRQ_NUM, RTC_IRQ}
IRQs    == 0..15

VARIABLES
  if_flag,      \* EFLAGS.IF: the CPU takes interrupts
  unmasked,     \* the IRQs that master_mask and slave_mask let through
  irr,          \* the devices' requests not yet taken
  isr,          \* the levels in service, of both chips
  reg_c,        \* the RTC's register C holds an interrupt not yet read; until
                \* it is read the RTC raises no other
  rate,         \* the rate in the RTC's register A
  in_count      \* rtc.c: set by the handler, cleared by a read

irqVars == <<if_flag, unmasked, irr, isr, reg_c, rate, in_count>>

-----------------------------------------------------------------------------
(* i8259.c *)

enable_irq(mask, irq_num) == mask \cup {irq_num}

\* i8259_init, rtc_init and keyboard_initialize, on masks that are all ones.
\* (NUM_PIC is 2, the cascade.)
EnabledAtBoot ==
  LET after_i8259_init == enable_irq({}, 2)
      after_rtc_init   == enable_irq(enable_irq(after_i8259_init, RTC_IRQ),
                                     IRQ_SECONDARY)
  IN enable_irq(after_rtc_init, KEYBOARD_IRQ_NUM)

\* send_eoi: a specific EOI, for a slave's IRQ to both chips.
AfterEoi(levels, irq_num) ==
  IF irq_num < IRQ_PRIM_NUM THEN levels \ {irq_num}
  ELSE levels \ {irq_num, IRQ_SECONDARY}

\* The levels a device's interrupt puts in service.
LevelsOf(irq) == IF irq < IRQ_PRIM_NUM THEN {irq} ELSE {irq, IRQ_SECONDARY}

\* Whether the 8259s pass the request on: nothing of its priority or above is
\* in service, and no request above it waits.
Passes(irq) ==
  /\ irq \in irr
  /\ LevelsOf(irq) \subseteq unmasked
  /\ irq = KEYBOARD_IRQ_NUM => KEYBOARD_IRQ_NUM \notin isr
  /\ irq = RTC_IRQ => /\ isr \cap {KEYBOARD_IRQ_NUM, IRQ_SECONDARY, RTC_IRQ} = {}
                      /\ KEYBOARD_IRQ_NUM \notin irr

\* The CPU takes the interrupt, through an interrupt gate.
Take(irq) ==
  /\ if_flag
  /\ Passes(irq)
  /\ if_flag' = FALSE
  /\ irr' = irr \ {irq}
  /\ isr' = isr \cup LevelsOf(irq)
  /\ UNCHANGED <<unmasked, reg_c, rate, in_count>>

-----------------------------------------------------------------------------
(* rtc.c *)

\* The periodic interrupt, which rtc_init has enabled.
Tick ==
  /\ ~reg_c
  /\ reg_c' = TRUE
  /\ irr' = irr \cup {RTC_IRQ}
  /\ UNCHANGED <<if_flag, unmasked, isr, rate, in_count>>

\* Fault: the flag is not set.
rtc_handler_noFlag ==
  /\ reg_c' = FALSE
  /\ isr' = AfterEoi(isr, RTC_IRQ)
  /\ if_flag' = TRUE
  /\ UNCHANGED <<unmasked, irr, rate, in_count>>

rtc_handler ==
  /\ reg_c' = FALSE
  /\ in_count' = 1
  /\ isr' = AfterEoi(isr, RTC_IRQ)
  /\ if_flag' = TRUE
  /\ UNCHANGED <<unmasked, irr, rate>>

\* The rates rtc_set_freq programs.
Rates == {2, 4, 8, 16, 32, 64, 128, 256, 512, 1024}

\* Fault: the flag of an earlier interrupt is left for the wait to find.
RtcReadBegins_keepsFlag ==
  /\ if_flag' = TRUE
  /\ UNCHANGED <<unmasked, irr, isr, reg_c, rate, in_count>>

\* rtc_read up to its loop.
RtcReadBegins ==
  /\ in_count' = 0
  /\ if_flag' = TRUE
  /\ UNCHANGED <<unmasked, irr, isr, reg_c, rate>>

\* The interrupt gate of a call had cleared the flag that the return restores.
RtcReadEnds == in_count # 0 /\ UNCHANGED irqVars

\* rtc_set_freq: any other rate is refused.  It enables interrupts, which is
\* what the return to the program does as well.
rtc_set_freq(freq) ==
  /\ rate' = IF freq \in Rates THEN freq ELSE rate
  /\ UNCHANGED <<if_flag, unmasked, irr, isr, reg_c, in_count>>

=============================================================================
