--------------------------- MODULE MCCommandQueue ---------------------------
(* Instances of CommandQueue for TLC.                                      *)
EXTENDS CommandQueue

CONSTANTS d1, d2

To(kind, d, packets, gap) == [kind |-> kind, dev |-> d, packets |-> packets, gap |-> gap]
Alone(step)    == [combi |-> FALSE, steps |-> <<step>>]
Combi(steps)   == [combi |-> TRUE, steps |-> steps]
Local(kind)    == To(kind, NoDevice, 1, 0)

(* One device command of two packets and one of a single packet, an AT     *)
(* command and a composite.                                                *)
Pair2    == Alone(To("avr", d1, 2, 0))
Single   == Alone(To("avr", d1, 1, 0))
AT       == Alone(To("at", d1, 1, 0))
Other    == Alone(To("avr", d2, 1, 0))
Macro    == Combi(<<To("avr", d1, 1, 0), To("wait", NoDevice, 1, 1), Local("done")>>)

Keypad(c) == [type |-> "keypad", cmd |-> c]
Boot(c)   == [type |-> "boot", cmd |-> c]
Quiet     == {[type |-> "status", cmd |-> NoCommand]}
Silent    == {}

Macros    == {Macro}
Locals    == {Alone(Local("done")), Alone(Local("fail")), Alone(Local("mute")), Alone(Local("told")),
              Alone(To("wait", NoDevice, 1, 1)),
              Combi(<<Local("told"), Local("mute"), Local("fail")>>), Single}
TwoDevices == {Pair2, Other}
WithRetries == {AT, Combi(<<To("at", d1, 1, 0), To("wait", NoDevice, 1, 1)>>)}
Everything == Locals \cup Macros
KeypadAndBoot == {Keypad(Single), Keypad(Alone(Local("done"))), Boot(Single)} \cup Quiet
=============================================================================
