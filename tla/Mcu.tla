-------------------------------- MODULE Mcu --------------------------------
(***************************************************************************)
(* The emulated microcontroller as far as the kernel drives it: the tick   *)
(* timer, the latch of pending interrupts, the GPIO port and the UART.     *)
(* RAM is not modelled: no operation of the kernel reads or writes it.     *)
(***************************************************************************)
EXTENDS TaskModel

VARIABLES
    counter,    \* the timer counts down from reload
    fired,      \* interrupts the timer has raised
    pending,    \* the latched interrupts
    serviced,   \* interrupts drained by the kernel
    pins,       \* [0..PIN_COUNT-1 -> BOOLEAN]
    tx          \* texts written to the UART, in order

timerVars == <<counter, fired, pending, serviced>>
portVars == <<pins, tx>>
mcuVars == <<counter, fired, pending, serviced, pins, tx>>

Irq == {"Timer", "Uart", "Gpio"}
Pins == 0..(PIN_COUNT - 1)
reload == AtLeast(setup.tick_reload, 1)

McuTypeOK ==
    /\ counter \in 1..reload
    /\ fired \in Nat
    /\ pending \in SUBSET Irq
    /\ serviced \in Nat
    /\ pins \in [Pins -> BOOLEAN]
    /\ tx \in Seq(Texts)

McuInit ==
    /\ counter = reload
    /\ fired = 0
    /\ pending = {}
    /\ serviced = 0
    /\ pins = [p \in Pins |-> FALSE]
    /\ tx = <<>>

\* Raising an interrupt that is already pending changes nothing.
raise(irq) == pending' = pending \union {irq}

\* A fault: the timer wraps one clock late.
cycle_late ==
    /\ IF counter = 0
       THEN /\ counter' = reload
            /\ fired' = fired + 1
            /\ raise("Timer")
       ELSE /\ counter' = counter - 1
            /\ UNCHANGED <<fired, pending>>
    /\ UNCHANGED <<serviced, pins, tx>>

\* Timer::clock, and the interrupt it raises when it wraps.
cycle ==
    /\ IF counter = 1
       THEN /\ counter' = reload
            /\ fired' = fired + 1
            /\ raise("Timer")
       ELSE /\ counter' = counter - 1
            /\ UNCHANGED <<fired, pending>>
    /\ UNCHANGED <<serviced, pins, tx>>

\* Drain the latch.  The code sorts the drained interrupts, Timer first; the
\* kernel looks only at whether the timer is among them.
take_pending ==
    /\ pending' = {}
    /\ serviced' = serviced + Cardinality(pending)
    /\ UNCHANGED <<counter, fired, pins, tx>>

\* A fault: a pin that does not exist is taken modulo the size of the port.
gpio_toggle_wraps(pin) ==
    /\ pins' = [p \in Pins |-> IF p = pin % PIN_COUNT THEN ~pins[p] ELSE pins[p]]
    /\ UNCHANGED tx

\* A pin that does not exist is ignored.
gpio_set(pin, level) ==
    /\ pins' = [p \in Pins |-> IF p = pin THEN level ELSE pins[p]]
    /\ UNCHANGED tx

gpio_toggle(pin) ==
    /\ pins' = [p \in Pins |-> IF p = pin THEN ~pins[p] ELSE pins[p]]
    /\ UNCHANGED tx

uart_write(text) ==
    /\ tx' = Append(tx, text)
    /\ UNCHANGED pins
=============================================================================
